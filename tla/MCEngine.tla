------------------------------- MODULE MCEngine -------------------------------
(* A small instance of Engine: one table, two records, one memory block.   *)
EXTENDS Engine

CONSTANTS mem, v, w

a == <<"t", "a">>
b == <<"t", "b">>

MCStatements ==
    {[op |-> "create", table |-> "t", dim |-> d] : d \in {NoDim, 1}}
    \cup {[op |-> "insert", id |-> a, body |-> v, emb |-> NoDim, at |-> 7],
          [op |-> "insert", id |-> a, body |-> w, emb |-> 2, at |-> 0],
          [op |-> "relate", from |-> a, to |-> b, at |-> 0],
          [op |-> "forget", id |-> a],
          [op |-> "memory", name |-> mem],
          [op |-> "prune"],
          [op |-> "as_of", ts |-> 1],
          [op |-> "since", ts |-> 0]}
==============================================================================
