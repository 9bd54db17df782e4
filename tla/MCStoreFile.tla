----------------------------- MODULE MCStoreFile -----------------------------
(* A small instance of StoreFile: plans at the root and in a memory, a     *)
(* temporal read, a compaction, and a plan whose last statement may fail.  *)
EXTENDS StoreFile

CONSTANTS h1, h2, mem1, v, w

a == <<"t", "a">>
b == <<"t", "b">>

Insert(id, body) == [op |-> "insert", id |-> id, body |-> body, emb |-> NoDim, at |-> 0]
Relate(x, y) == [op |-> "relate", from |-> x, to |-> y, at |-> 0]
Memory == [op |-> "memory", name |-> mem1]
Create(dim) == [op |-> "create", table |-> "t", dim |-> dim]

MCPlans ==
    {<<Insert(a, v), Relate(a, b)>>,
     <<Memory, Create(2)>>,
     <<[op |-> "prune"]>>,
     <<[op |-> "forget", id |-> a], [op |-> "as_of", ts |-> 1]>>}

\* A history that says it was compacted at time 2.
MCDecodings == {<<[ts |-> 2, stmt |-> [op |-> "snapshot", state |-> EmptyStore]]>>}

Symmetry == Permutations(Handles)
==============================================================================
