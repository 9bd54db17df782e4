----------------------------- MODULE EngineProofs -----------------------------
(***************************************************************************)
(* Memory blocks are isolated, for any statements and any number of        *)
(* mutations.  The invariant is the shape of the stores: which blocks      *)
(* there are, that the plan is in one of them, and that each is a record.  *)
(***************************************************************************)
EXTENDS Engine, StoreProofs

BlocksTyped ==
    /\ run = [store |-> store, ctx |-> run.ctx, failed |-> run.failed]
    /\ IsStore(store) /\ IsMap(store.memories)
    /\ \A m \in DOMAIN store.memories : IsStore(store.memories[m])
    /\ Root \notin DOMAIN store.memories
    /\ run.ctx \in Blocks

(***************************************************************************)
(* One statement in a plan.                                                *)
(***************************************************************************)

\* What a step must leave alone, and the one step that may change more.
Isolated ==
    \A b \in Blocks \ {run.ctx} :
        /\ b \in Blocks'
        /\ Same(Block(b), Block(b)')
        /\ Block(b)'.history # Block(b).history =>
              run.ctx = Root /\ \E stmt \in Statements : Prune(stmt)

\* The block the plan is in is a store.
LEMMA TargetIsStore == BlocksTyped => IsStore(Target(run))
BY DEF BlocksTyped, Target, Blocks, store

\* What replacing one memory does to the root store.
LEMMA MemoryReplaced ==
    ASSUME BlocksTyped, NEW m \in DOMAIN store.memories, NEW st2, IsStore(st2),
           store' = [store EXCEPT !.memories[m] = st2]
    PROVE  /\ IsStore(store') /\ Same(store, store') /\ store'.history = store.history
           /\ IsMap(store'.memories) /\ DOMAIN store'.memories = DOMAIN store.memories
           /\ \A b \in DOMAIN store.memories :
                 store'.memories[b] = IF b = m THEN st2 ELSE store.memories[b]
BY DEF BlocksTyped, Same, IsStore, IsMap, Parts

\* The block in context is replaced by another store with as many memories.
LEMMA AimedAtTarget ==
    ASSUME BlocksTyped, NEW st2, IsStore(st2), st2.memories = Target(run).memories,
           run' = IF run.ctx = Root THEN [run EXCEPT !.store = st2]
                  ELSE [run EXCEPT !.store.memories[run.ctx] = st2]
    PROVE  BlocksTyped' /\ Isolated
<1>1. CASE run.ctx = Root
  BY <1>1 DEF BlocksTyped, Isolated, Same, Target, Blocks, Block, store
<1>2. CASE run.ctx # Root
  <2>1. store' = [store EXCEPT !.memories[run.ctx] = st2]
    BY <1>2 DEF BlocksTyped, store
  <2>2. run' = [store |-> store', ctx |-> run.ctx, failed |-> run.failed]
    BY <1>2, <2>1 DEF BlocksTyped, store
  <2> QED BY SMTT(30), <1>2, <2>1, <2>2, MemoryReplaced, SameIsReflexive DEF BlocksTyped, Isolated, Blocks, Block
<1> QED BY <1>1, <1>2

\* A mutation reaches only the block it is aimed at.
LEMMA MutateIsolated ==
    ASSUME BlocksTyped, NEW stmt \in Statements, Mutate(stmt)
    PROVE  BlocksTyped' /\ Isolated
<1> DEFINE st2 == Execute(Target(run), stmt)
<1>1. IsStore(st2) /\ st2.memories = Target(run).memories
  BY TargetIsStore, MutationsKeepBlocks DEF Mutate
<1>2. run' = IF run.ctx = Root THEN [run EXCEPT !.store = st2]
             ELSE [run EXCEPT !.store.memories[run.ctx] = st2]
  BY DEF Mutate, Mutations, ExecuteInContext, Target
<1> QED BY <1>1, <1>2, AimedAtTarget

\* A compaction reaches only the block it is aimed at, and from the root the
\* histories of the memories.
LEMMA PruneIsolated ==
    ASSUME BlocksTyped, NEW stmt \in Statements, Prune(stmt)
    PROVE  BlocksTyped' /\ Isolated
<1> DEFINE st2 == PruneHistory(Target(run))
<1>1. /\ IsStore(st2) /\ Same(Target(run), st2)
      /\ st2.memories = [m \in DOMAIN Target(run).memories |-> PruneOne(Target(run).memories[m])]
  BY TargetIsStore, PruneHistoryKeepsState
<1>2. run' = IF run.ctx = Root THEN [run EXCEPT !.store = st2]
             ELSE [run EXCEPT !.store.memories[run.ctx] = st2]
  BY DEF TemporalReads, Prune, ExecuteInContext, Execute, Fails, Target
<1>3. CASE run.ctx = Root
  <2>1. \A m \in DOMAIN store.memories :
           IsStore(PruneOne(store.memories[m])) /\ Same(store.memories[m], PruneOne(store.memories[m]))
    BY PruneOneKeepsState DEF BlocksTyped
  <2> QED BY <1>1, <1>2, <1>3, <2>1 DEF BlocksTyped, Isolated, Target, Blocks, Block, store, IsMap
<1>4. CASE run.ctx # Root
  <2>1. store' = [store EXCEPT !.memories[run.ctx] = st2]
    BY <1>2, <1>4 DEF BlocksTyped, store
  <2>2. run' = [store |-> store', ctx |-> run.ctx, failed |-> run.failed]
    BY <1>2, <1>4, <2>1 DEF BlocksTyped, store
  <2> QED BY <1>1, <1>4, <2>1, <2>2, MemoryReplaced, SameIsReflexive DEF BlocksTyped, Isolated, Blocks, Block
<1> QED BY <1>3, <1>4

\* A new block is empty, and an old one is not touched by entering it.
LEMMA SwitchIsolated ==
    ASSUME BlocksTyped, NEW stmt \in Statements, SwitchMemory(stmt)
    PROVE  BlocksTyped' /\ Isolated
<1> DEFINE blocks == IF stmt.name \in DOMAIN store.memories THEN store.memories
                     ELSE Put(store.memories, stmt.name, EmptyStore)
<1>1. run' = [run EXCEPT !.ctx = stmt.name, !.store.memories = blocks]
  BY DEF SwitchMemory, ExecuteInContext, BlocksTyped, IsStore, IsMap, Parts, store
<1>2. stmt.name # Root
  BY StatementsAssumption DEF SwitchMemory
<1>3. /\ IsMap(blocks) /\ DOMAIN blocks = DOMAIN store.memories \cup {stmt.name}
      /\ \A m \in DOMAIN store.memories : blocks[m] = store.memories[m]
      /\ stmt.name \notin DOMAIN store.memories => blocks[stmt.name] = EmptyStore
  BY DEF BlocksTyped, Put, IsMap
<1>4. IsStore(EmptyStore)
  BY DEF IsStore, IsMap, Parts, EmptyStore
<1>5. /\ store' = [store EXCEPT !.memories = blocks] /\ run'.ctx = stmt.name
      /\ run' = [store |-> store', ctx |-> stmt.name, failed |-> run.failed]
  BY <1>1 DEF BlocksTyped, store
<1>6. IsStore(store') /\ Same(store, store') /\ store'.memories = blocks
  BY <1>5 DEF BlocksTyped, IsStore, IsMap, Parts, Same
<1> QED BY <1>2, <1>3, <1>4, <1>5, <1>6, SameIsReflexive DEF BlocksTyped, Isolated, Blocks, Block

\* Between plans, in a query and after an error no block changes.
LEMMA SameStore ==
    ASSUME BlocksTyped, run'.store = store, run'.ctx \in Blocks,
           run' = [store |-> run'.store, ctx |-> run'.ctx, failed |-> run'.failed]
    PROVE  BlocksTyped' /\ Isolated
BY DEF BlocksTyped, Isolated, Same, Blocks, Block, store

\* FailPlan keeps the store: the statement that failed did nothing.
LEMMA FailureKeepsStore ==
    ASSUME BlocksTyped, NEW stmt \in Statements, FailPlan(stmt)
    PROVE  run' = AtRoot(store)
<1>1. stmt.op \notin {"memory", "reset"} /\ Fails(Target(run), stmt)
  BY DEF TemporalReads, FailPlan, Fails
<1> QED BY <1>1 DEF FailPlan, LeavePlan, ExecuteInContext, BlocksTyped, store

\* So does every step.
LEMMA StepIsolated ==
    ASSUME BlocksTyped, [Next]_vars
    PROVE  BlocksTyped' /\ Isolated
<1>1. CASE BeginPlan \/ EndPlan \/ UNCHANGED vars
  BY <1>1, SameStore DEF BeginPlan, EndPlan, LeavePlan, AtRoot, vars, BlocksTyped, Blocks, store
<1>2. ASSUME NEW stmt \in Statements, Read(stmt)
      PROVE  BlocksTyped' /\ Isolated
  <2>1. Execute(Target(run), stmt) = Target(run)
    BY <1>2 DEF TemporalReads, Read, Execute
  <2>2. run' = run
    BY <1>2, <2>1 DEF TemporalReads, Read, ExecuteInContext, Target, BlocksTyped, Blocks, IsStore, IsMap, store
  <2> QED BY <2>2, SameStore DEF BlocksTyped, store
<1>3. ASSUME NEW stmt \in Statements, FailPlan(stmt)
      PROVE  BlocksTyped' /\ Isolated
  BY <1>3, FailureKeepsStore, SameStore DEF AtRoot, Blocks
<1> QED BY <1>1, <1>2, <1>3, MutateIsolated, PruneIsolated, SwitchIsolated DEF Next

(***************************************************************************)
(* The theorems.                                                           *)
(***************************************************************************)

\* In every reachable state a plan works in a block that exists, and the root is
\* no memory: the map that execute_in_context indexes has the key.
THEOREM BlocksExist == Spec => []BlocksTyped
<1>1. Init => BlocksTyped
  BY DEF Init, AtRoot, EmptyStore, BlocksTyped, IsStore, IsMap, Parts, Blocks, store
<1> QED BY <1>1, StepIsolated, PTL DEF Spec

\* A statement changes no block but the one in context, and only a compaction of the
\* root reaches the others, of which it changes nothing but the histories:
\* execute_in_context and prune_history, for any plans over any statements.
THEOREM BlocksIsolated == Spec => MemoryIsolation
<1>1. BlocksTyped /\ [Next]_vars =>
          [\A b \in Blocks \ {run.ctx} :
              /\ b \in Blocks'
              /\ [Block(b)' EXCEPT !.history = <<>>, !.memories = <<>>]
                   = [Block(b) EXCEPT !.history = <<>>, !.memories = <<>>]
              /\ Block(b)'.history # Block(b).history =>
                    run.ctx = Root /\ \E stmt \in Statements : Prune(stmt)]_vars
  BY StepIsolated DEF Isolated, Same
<1> QED BY <1>1, BlocksExist, PTL DEF Spec, MemoryIsolation

(***************************************************************************)
(* The history of a block answers for its past: for any statements and any *)
(* number of mutations, AS OF, HISTORY SINCE, the retention horizon and    *)
(* the table index are what the block went through.                        *)
(*                                                                         *)
(* The invariant says what a history looks like: the declarations that the *)
(* last compaction kept, its snapshot, then one entry for every mutation   *)
(* since, each at the next time; and that every prefix that ends after the *)
(* snapshot replays to the state the block had at that time.               *)
(***************************************************************************)

Replay(q) == FoldLeft(ReplayEntry, AtRoot(EmptyStore), q)

IsSince(since, entry) == entry.ts > since /\ entry.stmt.op # "snapshot"
IsAfter(since, row) == row.ts > since

Since(since, q) == Retain(q, LAMBDA entry : IsSince(since, entry))
After(since, rows) == Retain(rows, LAMBDA row : IsAfter(since, row))
RowsOf(entries) == [i \in DOMAIN entries |-> DeltaRow(entries[i])]

\* The folds over histories, each with its equations.
Replaying(none, c, entry) == ReplayEntry(c, entry)
KeepingSince(since, kept, entry) == IF IsSince(since, entry) THEN Append(kept, entry) ELSE kept
KeepingAfter(since, kept, row) == IF IsAfter(since, row) THEN Append(kept, row) ELSE kept

ReplayFold == INSTANCE Folding WITH Op <- Replaying
SinceFold == INSTANCE Folding WITH Op <- KeepingSince
AfterFold == INSTANCE Folding WITH Op <- KeepingAfter

(***************************************************************************)
(* The invariant of one block: st its store, d its mutations, ago its      *)
(* states, pruned the time of its last compaction.  The snapshot is entry  *)
(* p of the history, taken at time t; 0 and 0 if there is none.            *)
(***************************************************************************)

SnapshotAt(st, p, t, pruned) ==
    /\ \A i \in 1..Len(st.history) : st.history[i].stmt.op = "snapshot" <=> i = p
    /\ \A i \in 1..(p - 1) : IsCreate(st.history[i]) /\ st.history[i].ts \in 1..t
    /\ p = 0 => t = 0 /\ pruned = Never
    /\ p # 0 => st.history[p].ts = t /\ pruned = t

EntriesAfter(st, p, t) ==
    /\ Len(st.history) = p + (st.clock - t)
    /\ \A j \in 1..(st.clock - t) : st.history[p + j].ts = t + j

\* A replay no entry of which failed.
Going(c) == c = [store |-> c.store, ctx |-> c.ctx, failed |-> c.failed] /\ c.failed = FALSE

ReplaysTo(c, clock, view) ==
    /\ Going(c)
    /\ IsStore(c.store) /\ c.store.clock = clock /\ View(c.store) = view

PrefixesReplay(st, p, t, ago) ==
    \A j \in 0..(st.clock - t) : ReplaysTo(Replay(SubSeq(st.history, 1, p + j)), t + j, ago[t + j + 1])

RowsAgree(st, d, t) ==
    \A since \in Nat : since >= t => RowsOf(Since(since, st.history)) = After(since, d)

HistoryOk(st, d, ago, pruned) ==
    /\ IsSeq(st.history) /\ st.clock \in Nat
    /\ IsSeq(d) /\ Len(d) = st.clock /\ \A i \in 1..st.clock : d[i].ts = i
    /\ IsSeq(ago) /\ Len(ago) = st.clock + 1 /\ ago[st.clock + 1] = View(st)
    /\ \E p \in 0..Len(st.history), t \in 0..st.clock :
          /\ SnapshotAt(st, p, t, pruned) /\ EntriesAfter(st, p, t)
          /\ PrefixesReplay(st, p, t, ago) /\ RowsAgree(st, d, t)
    /\ DeclaresTables(st)

HistoryInv ==
    /\ IsMap(past) /\ DOMAIN past = Blocks
    /\ IsMap(deltas) /\ DOMAIN deltas = Blocks
    /\ IsMap(prunedAt) /\ DOMAIN prunedAt = Blocks
    /\ \A b \in Blocks : HistoryOk(Block(b), deltas[b], past[b], prunedAt[b])

(***************************************************************************)
(* Sequences, and the equations of the folds.                              *)
(***************************************************************************)

\* AS OF replays entry by entry.
LEMMA ReplayEquations ==
    /\ Replay(<<>>) = AtRoot(EmptyStore)
    /\ \A q, x : IsSeq(q) => Replay(Append(q, x)) = ReplayEntry(Replay(q), x)
<1>1. \A q : Replay(q) = ReplayFold!Fold(0, AtRoot(EmptyStore), q)
  BY DEF Replay, Replaying, ReplayEntry, FoldLeft, MapThenFoldSet, Max,
        ReplayFold!Fold, ReplayFold!FoldLeft, ReplayFold!MapThenFoldSet, ReplayFold!Max
<1>2. ASSUME NEW q, NEW x, IsSeq(q)
      PROVE  Replay(Append(q, x)) = ReplayEntry(Replay(q), x)
  <2>1. q \in Seq(Range(q) \cup {x}) /\ x \in Range(q) \cup {x}
    BY <1>2 DEF IsSeq
  <2>2. ReplayFold!Fold(0, AtRoot(EmptyStore), Append(q, x)) = Replaying(0, ReplayFold!Fold(0, AtRoot(EmptyStore), q), x)
    BY <2>1, ReplayFold!FoldAppend
  <2> QED BY <1>1, <2>2 DEF Replaying
<1>3. ReplayFold!Fold(0, AtRoot(EmptyStore), <<>>) = AtRoot(EmptyStore)
  BY ReplayFold!FoldEmpty
<1> QED BY <1>1, <1>2, <1>3

\* HISTORY SINCE selects entry by entry.
LEMMA SinceEquations ==
    /\ \A since : Since(since, <<>>) = <<>>
    /\ \A q, x, since : IsSeq(q) => Since(since, Append(q, x)) = IF IsSince(since, x) THEN Append(Since(since, q), x) ELSE Since(since, q)
<1>1. \A q, since : Since(since, q) = SinceFold!Fold(since, <<>>, q)
  BY DEF Since, Retain, KeepingSince, IsSince, FoldLeft, MapThenFoldSet, Max,
        SinceFold!Fold, SinceFold!FoldLeft, SinceFold!MapThenFoldSet, SinceFold!Max
<1>2. ASSUME NEW q, NEW x, NEW since, IsSeq(q)
      PROVE  Since(since, Append(q, x)) = IF IsSince(since, x) THEN Append(Since(since, q), x) ELSE Since(since, q)
  <2>1. q \in Seq(Range(q) \cup {x}) /\ x \in Range(q) \cup {x}
    BY <1>2 DEF IsSeq
  <2>2. SinceFold!Fold(since, <<>>, Append(q, x)) = KeepingSince(since, SinceFold!Fold(since, <<>>, q), x)
    BY <2>1, SinceFold!FoldAppend
  <2> QED BY <1>1, <2>2 DEF KeepingSince
<1>3. \A since : SinceFold!Fold(since, <<>>, <<>>) = <<>>
  BY SinceFold!FoldEmpty
<1> QED BY <1>1, <1>2, <1>3

\* The recorded rows after a time are selected row by row.
LEMMA AfterEquations ==
    /\ \A since : After(since, <<>>) = <<>>
    /\ \A q, x, since : IsSeq(q) => After(since, Append(q, x)) = IF IsAfter(since, x) THEN Append(After(since, q), x) ELSE After(since, q)
<1>1. \A q, since : After(since, q) = AfterFold!Fold(since, <<>>, q)
  BY DEF After, Retain, KeepingAfter, IsAfter, FoldLeft, MapThenFoldSet, Max,
        AfterFold!Fold, AfterFold!FoldLeft, AfterFold!MapThenFoldSet, AfterFold!Max
<1>2. ASSUME NEW q, NEW x, NEW since, IsSeq(q)
      PROVE  After(since, Append(q, x)) = IF IsAfter(since, x) THEN Append(After(since, q), x) ELSE After(since, q)
  <2>1. q \in Seq(Range(q) \cup {x}) /\ x \in Range(q) \cup {x}
    BY <1>2 DEF IsSeq
  <2>2. AfterFold!Fold(since, <<>>, Append(q, x)) = KeepingAfter(since, AfterFold!Fold(since, <<>>, q), x)
    BY <2>1, AfterFold!FoldAppend
  <2> QED BY <1>1, <2>2 DEF KeepingAfter
<1>3. \A since : AfterFold!Fold(since, <<>>, <<>>) = <<>>
  BY AfterFold!FoldEmpty
<1> QED BY <1>1, <1>2, <1>3

(***************************************************************************)
(* What the folds keep.                                                    *)
(***************************************************************************)

\* An entry that does not fail is executed.
LEMMA ReplayGoesOn ==
    ASSUME NEW c, Going(c), NEW entry, ~Fails(c.store, entry.stmt)
    PROVE  /\ Going(ReplayEntry(c, entry))
           /\ ReplayEntry(c, entry).store = Execute(c.store, entry.stmt)
<1>1. c.failed = FALSE
  BY DEF Going
<1>2. ReplayEntry(c, entry) = [c EXCEPT !.store = Execute(c.store, entry.stmt)]
  BY <1>1, Zenon DEF ReplayEntry
<1>3. \A st : /\ [c EXCEPT !.store = st].store = st
              /\ [c EXCEPT !.store = st] = [store |-> st, ctx |-> c.ctx, failed |-> c.failed]
  BY DEF Going
<1> HIDE DEF Going
<1>4. \A st : Going([c EXCEPT !.store = st]) /\ [c EXCEPT !.store = st].store = st
  BY <1>3 DEF Going
<1> QED BY <1>2, <1>4

\* Replaying declarations never fails.
LEMMA DeclarationsReplay ==
    ASSUME NEW q, IsSeq(q), \A i \in 1..Len(q) : IsCreate(q[i])
    PROVE  Going(Replay(q))
<1> DEFINE E == Range(q)
           good == {r \in Seq(E) : Going(Replay(r))}
<1>1. <<>> \in good
  <2>1. <<>> \in Seq(E)
    OBVIOUS
  <2> QED BY <2>1, ReplayEquations DEF AtRoot, Going
<1>2. ASSUME NEW r \in good, NEW x \in E PROVE Append(r, x) \in good
  <2>1. IsSeq(r) /\ Append(r, x) \in Seq(E)
    BY DEF IsSeq, Range
  <2>2. Replay(Append(r, x)) = ReplayEntry(Replay(r), x)
    BY <2>1, ReplayEquations
  <2>3. IsCreate(x)
    BY SeqFacts DEF Range
  <2>4. ~Fails(Replay(r).store, x.stmt)
    BY <2>3 DEF TemporalReads, Fails, IsCreate
  <2>5. Going(Replay(r))
    OBVIOUS
  <2>6. Going(ReplayEntry(Replay(r), x))
    BY <2>4, <2>5, ReplayGoesOn
  <2> QED BY <2>1, <2>2, <2>6
<1> HIDE DEF good, E
<1>3. q \in Seq(E)
  BY DEF IsSeq, E
<1>4. q \in good
  BY <1>1, <1>2, <1>3, ReplayFold!SeqInduction
<1> QED BY <1>4 DEF good

\* The rows of a history, and nothing of one that ended before.
LEMMA SinceFacts ==
    ASSUME NEW q, IsSeq(q), NEW since
    PROVE  /\ IsSeq(Since(since, q))
           /\ (\A i \in 1..Len(q) : ~IsSince(since, q[i])) => Since(since, q) = <<>>
<1> DEFINE E == Range(q)
           good == {r \in Seq(E) : /\ Since(since, r) \in Seq(E)
                                   /\ (\A x \in E : ~IsSince(since, x)) => Since(since, r) = <<>>}
<1>1. <<>> \in good
  <2>1. <<>> \in Seq(E)
    OBVIOUS
  <2> QED BY <2>1, SinceEquations
<1>2. ASSUME NEW r \in good, NEW x \in E PROVE Append(r, x) \in good
  <2>1. IsSeq(r) /\ Append(r, x) \in Seq(E)
    BY DEF IsSeq, Range
  <2>2. Since(since, Append(r, x)) = IF IsSince(since, x) THEN Append(Since(since, r), x) ELSE Since(since, r)
    BY <2>1, SinceEquations
  <2>3. Since(since, r) \in Seq(E) /\ Append(Since(since, r), x) \in Seq(E)
    OBVIOUS
  <2> QED BY <2>1, <2>2, <2>3
<1> HIDE DEF good, E
<1>3. q \in Seq(E)
  BY DEF IsSeq, E
<1>4. q \in good
  BY <1>1, <1>2, <1>3, ReplayFold!SeqInduction
<1>5. IsSeq(Since(since, q))
  BY <1>4 DEF good, IsSeq, Range
<1>6. (\A i \in 1..Len(q) : ~IsSince(since, q[i])) => \A x \in E : ~IsSince(since, x)
  BY SeqFacts DEF E, Range
<1> QED BY <1>4, <1>5, <1>6 DEF good

\* None are selected if none is later.
LEMMA AfterFacts ==
    ASSUME NEW q, IsSeq(q), NEW since, \A i \in 1..Len(q) : ~IsAfter(since, q[i])
    PROVE  After(since, q) = <<>>
<1> DEFINE E == Range(q)
           good == {r \in Seq(E) : After(since, r) = <<>>}
<1>1. <<>> \in good
  <2>1. <<>> \in Seq(E)
    OBVIOUS
  <2> QED BY <2>1, AfterEquations
<1>2. ASSUME NEW r \in good, NEW x \in E PROVE Append(r, x) \in good
  <2>1. IsSeq(r) /\ Append(r, x) \in Seq(E)
    BY DEF IsSeq, Range
  <2>2. ~IsAfter(since, x)
    BY SeqFacts DEF Range
  <2> QED BY <2>1, <2>2, AfterEquations
<1> HIDE DEF good, E
<1>3. q \in Seq(E)
  BY DEF IsSeq, E
<1>4. q \in good
  BY <1>1, <1>2, <1>3, ReplayFold!SeqInduction
<1> QED BY <1>4 DEF good

(***************************************************************************)
(* One mutation.                                                           *)
(***************************************************************************)

\* One entry more gives one row more.
LEMMA RowsGrow ==
    ASSUME NEW q, IsSeq(q), NEW x
    PROVE  RowsOf(Append(q, x)) = Append(RowsOf(q), DeltaRow(x))
<1> DEFINE r == Append(q, x)
           rows == RowsOf(q)
<1>1. DOMAIN r = 1..(Len(q) + 1) /\ Len(q) \in Nat /\ DOMAIN q = 1..Len(q)
  BY AppendFacts, SeqFacts
<1>2. r[Len(q) + 1] = x /\ \A i \in 1..Len(q) : r[i] = q[i]
  BY AppendFacts
<1> HIDE DEF r
<1>3. IsSeq(rows) /\ Len(rows) = Len(q) /\ \A i \in 1..Len(q) : rows[i] = DeltaRow(q[i])
  <2> DEFINE row(i) == DeltaRow(q[i])
  <2> HIDE DEF row
  <2>1. [i \in 1..Len(q) |-> row(i)] \in Seq({row(i) : i \in 1..Len(q)})
    BY <1>1
  <2>2. rows = [i \in 1..Len(q) |-> row(i)]
    BY <1>1 DEF RowsOf, row
  <2> HIDE DEF rows
  <2>3. Range(rows) = {row(i) : i \in 1..Len(q)}
    BY <2>2 DEF Range
  <2> QED BY <1>1, <2>1, <2>2, <2>3 DEF IsSeq, row
<1> HIDE DEF rows
<1>4. /\ DOMAIN Append(rows, DeltaRow(x)) = 1..(Len(q) + 1)
      /\ Append(rows, DeltaRow(x))[Len(q) + 1] = DeltaRow(x)
      /\ \A i \in 1..Len(q) : Append(rows, DeltaRow(x))[i] = DeltaRow(q[i])
      /\ IsSeq(Append(rows, DeltaRow(x))) /\ Len(Append(rows, DeltaRow(x))) = Len(q) + 1
  BY <1>1, <1>3, AppendFacts, SeqFacts
<1> DEFINE more == Append(rows, DeltaRow(x))
<1>5. more = [i \in 1..(Len(q) + 1) |-> more[i]]
  <2> HIDE DEF more
  <2> DEFINE S == Range(more)
             n == Len(q) + 1
  <2>1. more \in Seq(S) /\ Len(more) = n
    BY <1>4 DEF IsSeq, more
  <2> HIDE DEF S, n
  <2>2. more \in [1..n -> S]
    BY <2>1
  <2>3. more = [i \in 1..n |-> more[i]]
    BY <2>2
  <2> QED BY <2>3 DEF n
<1> HIDE DEF more
<1>6. RowsOf(r) = [i \in 1..(Len(q) + 1) |-> DeltaRow(r[i])]
  BY <1>1 DEF RowsOf
<1>7. \A i \in 1..(Len(q) + 1) : DeltaRow(r[i]) = more[i]
  BY <1>1, <1>2, <1>4 DEF more
<1> QED BY <1>5, <1>6, <1>7 DEF r, rows, more

\* A mutation extends the invariant of its block.
LEMMA MutationOk ==
    ASSUME NEW st, IsStore(st), NEW stmt, stmt.op \in Mutations, ~Fails(st, stmt),
           NEW d, NEW ago, NEW pruned, HistoryOk(st, d, ago, pruned)
    PROVE  HistoryOk(Execute(st, stmt),
                     Append(d, DeltaRow([ts |-> Execute(st, stmt).clock, stmt |-> stmt])),
                     Append(ago, View(Execute(st, stmt))), pruned)
<1> DEFINE st2 == Execute(st, stmt)
           entry == [ts |-> st.clock + 1, stmt |-> stmt]
           h == st.history
           h2 == Append(h, entry)
           d2 == Append(d, DeltaRow(entry))
           ago2 == Append(ago, View(st2))
<1>1. /\ IsSeq(h) /\ st.clock \in Nat /\ IsSeq(d) /\ Len(d) = st.clock
      /\ \A i \in 1..st.clock : d[i].ts = i
      /\ IsSeq(ago) /\ Len(ago) = st.clock + 1 /\ ago[st.clock + 1] = View(st)
      /\ DeclaresTables(st)
  BY DEF HistoryOk
<1>2. PICK p \in 0..Len(h), t \in 0..st.clock :
          /\ SnapshotAt(st, p, t, pruned) /\ EntriesAfter(st, p, t)
          /\ PrefixesReplay(st, p, t, ago) /\ RowsAgree(st, d, t)
  BY DEF HistoryOk
<1>3. /\ IsStore(st2) /\ st2.clock = st.clock + 1 /\ st2.history = h2
  BY MutationFacts, MutationsKeepBlocks
<1>4. /\ IsSeq(h2) /\ Len(h2) = Len(h) + 1 /\ Len(h) \in Nat /\ h2[Len(h) + 1] = entry
      /\ \A i \in 1..Len(h) : h2[i] = h[i]
      /\ \A n \in 0..Len(h) : SubSeq(h2, 1, n) = SubSeq(h, 1, n)
  BY <1>1, AppendFacts, SeqFacts
<1>5. /\ IsSeq(d2) /\ Len(d2) = st.clock + 1 /\ d2[st.clock + 1] = DeltaRow(entry)
      /\ \A i \in 1..st.clock : d2[i] = d[i]
  BY <1>1, AppendFacts
<1>6. /\ IsSeq(ago2) /\ Len(ago2) = st.clock + 2 /\ ago2[st.clock + 2] = View(st2)
      /\ \A i \in 1..(st.clock + 1) : ago2[i] = ago[i]
  BY <1>1, AppendFacts
<1>7. DeltaRow(entry).ts = st.clock + 1 /\ entry.ts = st.clock + 1 /\ entry.stmt = stmt
  BY DEF DeltaRow
<1> HIDE DEF st2, entry, h2, d2, ago2
<1>8. SnapshotAt(st2, p, t, pruned)
  <2>1. stmt.op # "snapshot"
    BY DEF Mutations
  <2>2. p # Len(h) + 1 /\ \A i \in 1..Len(h2) : i = Len(h) + 1 \/ i \in 1..Len(h)
    BY <1>4
  <2>3. ASSUME NEW i \in 1..Len(h2) PROVE h2[i].stmt.op = "snapshot" <=> i = p
    BY <1>2, <1>4, <1>7, <2>1, <2>2 DEF SnapshotAt
  <2>4. p # 0 => p \in 1..Len(h)
    BY <1>4
  <2>5. \A i \in 1..(p - 1) : i \in 1..Len(h)
    BY <1>4
  <2> QED BY <1>2, <1>3, <1>4, <2>3, <2>4, <2>5 DEF SnapshotAt
<1>9. EntriesAfter(st2, p, t)
  <2>0. p \in Nat /\ t \in Nat /\ t <= st.clock /\ st.clock \in Nat /\ Len(h) \in Nat
    BY <1>1, <1>4
  <2>1. Len(h) = p + (st.clock - t)
    BY <1>2 DEF EntriesAfter
  <2>2. ASSUME NEW j \in 1..(st2.clock - t) PROVE h2[p + j].ts = t + j
    <3>1. CASE j \in 1..(st.clock - t)
      <4>1. p + j \in 1..Len(h)
        BY <2>0, <2>1, <3>1
      <4> QED BY <1>2, <1>4, <3>1, <4>1 DEF EntriesAfter
    <3>2. CASE j = st.clock + 1 - t
      <4>1. p + j = Len(h) + 1 /\ t + j = st.clock + 1
        <5>1. t + j = st.clock + 1
          BY <2>0, <3>2
        <5>2. p + j = Len(h) + 1
          BY SMTT(30), <2>0, <2>1, <3>2
        <5> QED BY <5>1, <5>2
      <4> QED BY <1>4, <1>7, <4>1
    <3>3. j \in 1..(st.clock - t) \/ j = st.clock + 1 - t
      BY <1>3, <2>0
    <3> QED BY <3>1, <3>2, <3>3
  <2> QED BY <1>1, <1>3, <1>4, <2>1, <2>2 DEF EntriesAfter
<1>10. PrefixesReplay(st2, p, t, ago2)
  <2>1. Len(h) = p + (st.clock - t)
    BY <1>2 DEF EntriesAfter
  <2>2. ASSUME NEW j \in 0..(st2.clock - t)
        PROVE ReplaysTo(Replay(SubSeq(h2, 1, p + j)), t + j, ago2[t + j + 1])
    <3>1. CASE j \in 0..(st.clock - t)
      <4>1. SubSeq(h2, 1, p + j) = SubSeq(h, 1, p + j)
        BY <1>1, <1>2, <1>4, <2>1, <3>1
      <4>2. ago2[t + j + 1] = ago[t + j + 1]
        BY <1>1, <1>2, <1>6, <3>1
      <4> QED BY <1>2, <3>1, <4>1, <4>2 DEF PrefixesReplay
    <3>2. CASE j = st.clock + 1 - t
      <4> DEFINE c == Replay(h)
      <4>1. SubSeq(h, 1, p + (st.clock - t)) = h /\ SubSeq(h2, 1, p + j) = h2
        <5>0. p \in Nat /\ t \in Nat /\ st.clock \in Nat /\ Len(h) \in Nat /\ Len(h2) = Len(h) + 1
          BY <1>1, <1>4
        <5>1. p + (st.clock - t) = Len(h) /\ p + j = Len(h2)
          BY SMTT(30), <2>1, <3>2, <5>0
        <5> QED BY <1>1, <1>4, <5>1, PrefixFacts
      <4>2. ReplaysTo(c, st.clock, View(st))
        <5>1. st.clock - t \in 0..(st.clock - t) /\ t + (st.clock - t) = st.clock
          BY <1>1
        <5> QED BY <1>1, <1>2, <4>1, <5>1 DEF PrefixesReplay
      <4>3. Replay(h2) = ReplayEntry(c, entry)
        BY <1>1, ReplayEquations DEF h2
      <4> HIDE DEF c
      <4>4. ~Fails(c.store, stmt) /\ View(Execute(c.store, stmt)) = View(st2)
        BY <4>2, ViewDetermines DEF ReplaysTo, st2
      <4>5. Going(ReplayEntry(c, entry)) /\ ReplayEntry(c, entry).store = Execute(c.store, stmt)
        BY <1>7, <4>2, <4>4, ReplayGoesOn DEF ReplaysTo
      <4>6. IsStore(Execute(c.store, stmt)) /\ Execute(c.store, stmt).clock = st.clock + 1
        <5>1. IsStore(c.store) /\ c.store.clock = st.clock
          BY <4>2 DEF ReplaysTo
        <5>2. IsStore(Execute(c.store, stmt))
          BY <5>1, MutationsKeepBlocks
        <5>3. Execute(c.store, stmt).clock = c.store.clock + 1
          BY <5>1, MutationFacts
        <5> QED BY <5>1, <5>2, <5>3
      <4>7. t + j = st.clock + 1 /\ ago2[t + j + 1] = View(st2)
        BY <1>1, <1>6, <3>2
      <4> QED BY <4>1, <4>3, <4>4, <4>5, <4>6, <4>7 DEF ReplaysTo
    <3> QED BY SMTT(30), <1>1, <1>3, <3>1, <3>2
  <2> QED BY <1>3, <2>2 DEF PrefixesReplay
<1>11. RowsAgree(st2, d2, t)
  <2> SUFFICES ASSUME NEW since \in Nat, since >= t
               PROVE  RowsOf(Since(since, h2)) = After(since, d2)
    BY <1>3 DEF RowsAgree
  <2>1. RowsOf(Since(since, h)) = After(since, d)
    BY <1>2 DEF RowsAgree
  <2>2. Since(since, h2) = IF IsSince(since, entry) THEN Append(Since(since, h), entry) ELSE Since(since, h)
    BY <1>1, SinceEquations DEF h2
  <2>3. After(since, d2) = IF IsAfter(since, DeltaRow(entry)) THEN Append(After(since, d), DeltaRow(entry))
                           ELSE After(since, d)
    BY <1>1, AfterEquations DEF d2
  <2>4. IsSince(since, entry) <=> IsAfter(since, DeltaRow(entry))
    BY <1>7 DEF IsSince, IsAfter, Mutations
  <2>5. RowsOf(Append(Since(since, h), entry)) = Append(RowsOf(Since(since, h)), DeltaRow(entry))
    BY <1>1, SinceFacts, RowsGrow
  <2> QED BY <2>1, <2>2, <2>3, <2>4, <2>5
<1>12. DeclaresTables(st2)
  BY <1>1, MutationDeclares DEF st2
<1>13. \A i \in 1..st2.clock : d2[i].ts = i
  BY SMTT(30), <1>1, <1>3, <1>5, <1>7
<1>14. p \in 0..Len(h2) /\ t \in 0..st2.clock
  BY <1>1, <1>3, <1>4
<1>15. HistoryOk(st2, d2, ago2, pruned)
  <2>1. st2.clock \in Nat /\ ago2[st2.clock + 1] = View(st2) /\ Len(ago2) = st2.clock + 1
    BY <1>1, <1>3, <1>6
  <2>2. Len(d2) = st2.clock
    BY <1>3, <1>5
  <2> QED BY <1>3, <1>4, <1>5, <1>6, <1>8, <1>9, <1>10, <1>11, <1>12, <1>13, <1>14, <2>1, <2>2 DEF HistoryOk
<1> QED BY <1>3, <1>15 DEF st2, d2, ago2, entry

(***************************************************************************)
(* A compaction, a new block, and what the invariant does not look at.     *)
(***************************************************************************)

\* A compacted history replays to the state it was compacted at.
LEMMA PruneOk ==
    ASSUME NEW st, IsStore(st), NEW d, NEW ago, NEW pruned, HistoryOk(st, d, ago, pruned)
    PROVE  HistoryOk(PruneOne(st), d, ago, st.clock)
<1> DEFINE kept == Declarations(st.history)
           snap == [ts |-> st.clock, stmt |-> [op |-> "snapshot", state |-> SnapshotOf(st)]]
           h2 == Append(kept, snap)
           st2 == PruneOne(st)
           n == Len(kept)
           k == st.clock
<1>1. /\ IsSeq(st.history) /\ k \in Nat /\ IsSeq(d) /\ Len(d) = k
      /\ \A i \in 1..k : d[i].ts = i
      /\ IsSeq(ago) /\ Len(ago) = k + 1 /\ ago[k + 1] = View(st)
      /\ DeclaresTables(st)
  BY DEF HistoryOk
<1>2. PICK p \in 0..Len(st.history), t \in 0..k :
          SnapshotAt(st, p, t, pruned) /\ EntriesAfter(st, p, t)
  BY DEF HistoryOk
<1>3. /\ IsStore(st2) /\ st2.clock = k /\ st2.history = h2 /\ View(st2) = View(st)
      /\ st2.tables = st.tables /\ st2.vector_dims = st.vector_dims
  BY DEF PruneOne, Declarations, IsCreate, IsStore, IsMap, Parts, View
<1>4. /\ IsStore(SnapshotOf(st)) /\ SnapshotOf(st).clock = k /\ View(SnapshotOf(st)) = View(st)
  BY DEF SnapshotOf, IsStore, IsMap, Parts, View
<1>5. snap.ts = k /\ snap.stmt.op = "snapshot" /\ snap.stmt.state = SnapshotOf(st)
  OBVIOUS
<1> HIDE DEF snap, st2, kept, n, k
<1>6. IsSeq(kept) /\ \A i \in 1..n : kept[i] \in {x \in Range(st.history) : IsCreate(x)}
  BY <1>1, DeclarationFacts DEF kept, n
<1>7. /\ IsSeq(h2) /\ Len(h2) = n + 1 /\ n \in Nat /\ h2[n + 1] = snap
      /\ \A i \in 1..n : h2[i] = kept[i]
  BY <1>6, AppendFacts, SeqFacts DEF n
<1>8. ASSUME NEW i \in 1..n PROVE IsCreate(kept[i]) /\ kept[i].ts \in 1..k
  <2>1. PICK j \in 1..Len(st.history) : kept[i] = st.history[j]
    <3>1. kept[i] \in Range(st.history)
      BY <1>6
    <3>2. DOMAIN st.history = 1..Len(st.history)
      BY <1>1, SeqFacts
    <3> QED BY <3>1, <3>2 DEF Range
  <2>2. IsCreate(kept[i])
    BY <1>6
  <2>3. CASE j < p
    BY <1>1, <1>2, <2>1, <2>2, <2>3 DEF SnapshotAt, k
  <2>4. CASE j = p
    BY <1>2, <2>1, <2>2, <2>4 DEF SnapshotAt, IsCreate
  <2>5. CASE j > p
    <3>1. Len(st.history) = p + (k - t) /\ p \in Nat /\ t \in Nat /\ t <= k
      BY <1>1, <1>2 DEF EntriesAfter, k
    <3>2. j - p \in 1..(k - t) /\ p + (j - p) = j
      BY <1>1, <2>5, <3>1
    <3>3. st.history[p + (j - p)].ts = t + (j - p)
      BY <1>2, <3>2 DEF EntriesAfter, k
    <3>4. t + (j - p) \in 1..k
      BY <1>1, <3>1, <3>2
    <3> QED BY <2>1, <2>2, <3>2, <3>3, <3>4
  <2> QED BY <1>1, <2>3, <2>4, <2>5
<1>9. SnapshotAt(st2, n + 1, k, k)
  <2>1. \A i \in 1..n : kept[i].stmt.op # "snapshot"
    BY <1>8 DEF IsCreate
  <2>2. ASSUME NEW i \in 1..(n + 1) PROVE h2[i].stmt.op = "snapshot" <=> i = n + 1
    BY <1>5, <1>7, <2>1
  <2> QED BY <1>3, <1>5, <1>7, <1>8, <2>2 DEF SnapshotAt
<1>10. EntriesAfter(st2, n + 1, k)
  BY <1>1, <1>3, <1>7 DEF EntriesAfter
<1>11. PrefixesReplay(st2, n + 1, k, ago)
  <2>1. Going(Replay(kept))
    BY <1>6, <1>8, DeclarationsReplay DEF n
  <2>2. Replay(h2) = ReplayEntry(Replay(kept), snap)
    BY <1>6, ReplayEquations
  <2>3. ~Fails(Replay(kept).store, snap.stmt) /\ Execute(Replay(kept).store, snap.stmt) = SnapshotOf(st)
    BY <1>5 DEF TemporalReads, Fails, Execute
  <2>4. Going(Replay(h2)) /\ Replay(h2).store = SnapshotOf(st)
    BY <2>1, <2>2, <2>3, ReplayGoesOn
  <2>5. SubSeq(h2, 1, n + 1) = h2
    BY <1>7, PrefixFacts
  <2>6. ReplaysTo(Replay(SubSeq(h2, 1, n + 1)), k, ago[k + 1])
    BY <1>1, <1>4, <2>4, <2>5 DEF ReplaysTo
  <2>7. \A j \in 0..(k - k) : n + 1 + j = n + 1 /\ k + j = k
    BY <1>1, <1>7
  <2> QED BY <1>3, <2>6, <2>7 DEF PrefixesReplay
<1>12. RowsAgree(st2, d, k)
  <2> SUFFICES ASSUME NEW since \in Nat, since >= k
               PROVE  RowsOf(Since(since, h2)) = After(since, d)
    BY <1>3 DEF RowsAgree
  <2>1. ASSUME NEW i \in 1..(n + 1) PROVE ~IsSince(since, h2[i])
    <3>1. CASE i = n + 1
      BY <1>5, <1>7, <3>1 DEF IsSince
    <3>2. CASE i \in 1..n
      BY <1>1, <1>7, <1>8, <3>2 DEF IsSince
    <3> QED BY <1>7, <3>1, <3>2
  <2>2. Since(since, h2) = <<>>
    BY <1>7, <2>1, SinceFacts
  <2>3. \A i \in 1..Len(d) : ~IsAfter(since, d[i])
    BY <1>1 DEF IsAfter
  <2>4. After(since, d) = <<>>
    BY <1>1, <2>3, AfterFacts
  <2>5. RowsOf(<<>>) = <<>>
    BY DEF RowsOf
  <2> QED BY <2>2, <2>4, <2>5
<1>13. DeclaresTables(st2)
  <2>1. DeclaredBy(kept, <<>>) = DeclaredBy(st.history, <<>>)
    BY <1>1, DeclarationsDeclare DEF kept
  <2>2. DeclaredBy(h2, <<>>) = DeclareEntry(DeclaredBy(kept, <<>>), snap)
    BY <1>6, DeclareEquations
  <2>3. DeclaredBy(h2, <<>>) = DeclaredBy(kept, <<>>)
    BY <1>5, <2>2 DEF DeclareEntry
  <2> QED BY <1>1, <1>3, <2>1, <2>3 DEF DeclaresTables
<1>14. n + 1 \in 0..Len(h2) /\ k \in 0..k
  BY <1>1, <1>7
<1>15. HistoryOk(st2, d, ago, k)
  BY <1>1, <1>3, <1>7, <1>9, <1>10, <1>11, <1>12, <1>13, <1>14 DEF HistoryOk
<1> QED BY <1>15 DEF st2, k

\* A new block.
LEMMA FreshOk == HistoryOk(EmptyStore, <<>>, <<View(EmptyStore)>>, Never)
<1> DEFINE ago == <<View(EmptyStore)>>
<1>1. /\ EmptyStore.history = <<>> /\ EmptyStore.clock = 0 /\ EmptyStore.tables = <<>>
      /\ EmptyStore.vector_dims = <<>> /\ IsStore(EmptyStore)
  BY DEF EmptyStore, IsStore, IsMap, Parts
<1>2. IsSeq(ago) /\ Len(ago) = 1 /\ ago[1] = View(EmptyStore)
  BY DEF IsSeq, Range
<1>3. SnapshotAt(EmptyStore, 0, 0, Never) /\ EntriesAfter(EmptyStore, 0, 0)
  BY <1>1, EmptyFacts DEF SnapshotAt, EntriesAfter
<1>4. PrefixesReplay(EmptyStore, 0, 0, ago)
  <2>1. ReplaysTo(Replay(<<>>), 0, ago[1])
    BY <1>1, <1>2, ReplayEquations DEF ReplaysTo, Going, AtRoot
  <2>2. SubSeq(<<>>, 1, 0) = <<>>
    BY EmptyFacts, PrefixFacts
  <2>3. \A j \in 0..(0 - 0) : j = 0 /\ 0 + j = 0 /\ 0 + j + 1 = 1
    OBVIOUS
  <2> QED BY <1>1, <2>1, <2>2, <2>3 DEF PrefixesReplay
<1>5. RowsAgree(EmptyStore, <<>>, 0)
  <2>1. RowsOf(<<>>) = <<>>
    BY DEF RowsOf
  <2> QED BY <1>1, <2>1, SinceEquations, AfterEquations DEF RowsAgree
<1>6. DeclaresTables(EmptyStore)
  <2>1. DimsOf(<<>>) = <<>>
    BY DEF DimsOf, RestrictValues, Restrict
  <2> QED BY <1>1, <2>1, DeclareEquations DEF DeclaresTables
<1> HIDE DEF ago
<1>7. HistoryOk(EmptyStore, <<>>, ago, Never)
  <2>1. 0 \in 0..Len(EmptyStore.history) /\ 0 \in 0..EmptyStore.clock
    BY <1>1, EmptyFacts
  <2>2. IsSeq(<<>>) /\ Len(<<>>) = EmptyStore.clock /\ EmptyStore.clock \in Nat
        /\ EmptyStore.clock = 0
    BY <1>1, EmptyFacts
  <2> QED BY <1>1, <1>2, <1>3, <1>4, <1>5, <1>6, <2>1, <2>2 DEF HistoryOk
<1> QED BY <1>7 DEF ago

\* The memories of a store are no part of it.
LEMMA OkIgnoresMemories ==
    ASSUME NEW st, NEW st2, IsStore(st), IsStore(st2), Same(st, st2), st2.history = st.history,
           NEW d, NEW ago, NEW pruned, HistoryOk(st, d, ago, pruned)
    PROVE  HistoryOk(st2, d, ago, pruned)
<1>1. /\ st2.clock = st.clock /\ st2.tables = st.tables /\ st2.vector_dims = st.vector_dims
      /\ st2.records = st.records /\ st2.edges = st.edges
  BY DEF Same, IsStore, IsMap, Parts
<1>2. View(st2) = View(st)
  BY <1>1 DEF View
<1>3. DeclaresTables(st) <=> DeclaresTables(st2)
  BY <1>1 DEF DeclaresTables
<1>4. \A p, t : /\ SnapshotAt(st, p, t, pruned) <=> SnapshotAt(st2, p, t, pruned)
                /\ EntriesAfter(st, p, t) <=> EntriesAfter(st2, p, t)
                /\ PrefixesReplay(st, p, t, ago) <=> PrefixesReplay(st2, p, t, ago)
                /\ RowsAgree(st, d, t) <=> RowsAgree(st2, d, t)
  BY <1>1 DEF SnapshotAt, EntriesAfter, PrefixesReplay, RowsAgree
<1> QED BY <1>1, <1>2, <1>3, <1>4 DEF HistoryOk

(***************************************************************************)
(* The invariant is inductive.                                             *)
(***************************************************************************)

\* The block is the same as far as the invariant goes.
Kin(st, st2) == IsStore(st) /\ IsStore(st2) /\ Same(st, st2) /\ st2.history = st.history

\* A block is kin to itself.
LEMMA KinIsReflexive == \A st : IsStore(st) => Kin(st, st)
BY DEF Kin, Same

\* Every block is a store.
LEMMA BlocksAreStores == BlocksTyped => \A b \in Blocks : IsStore(Block(b))
BY DEF BlocksTyped, Blocks, Block

\* The block in context is replaced, with as many memories if it is the root.
LEMMA ContextReplaced ==
    ASSUME BlocksTyped, NEW st2, IsStore(st2), run.ctx = Root => st2.memories = store.memories,
           run' = IF run.ctx = Root THEN [run EXCEPT !.store = st2]
                  ELSE [run EXCEPT !.store.memories[run.ctx] = st2]
    PROVE  /\ Blocks' = Blocks /\ run'.ctx = run.ctx /\ Target(run') = st2
           /\ \A b \in Blocks : IF b = run.ctx THEN Block(b)' = st2 ELSE Kin(Block(b), Block(b)')
<1>1. CASE run.ctx = Root
  <2>1. store' = st2 /\ run'.ctx = run.ctx
    BY <1>1 DEF BlocksTyped, store
  <2>2. \A m \in DOMAIN store.memories : Kin(store.memories[m], store.memories[m])
    BY KinIsReflexive DEF BlocksTyped
  <2> QED BY <1>1, <2>1, <2>2 DEF BlocksTyped, Target, Blocks, Block, store
<1>2. CASE run.ctx # Root
  <2>1. store' = [store EXCEPT !.memories[run.ctx] = st2] /\ run'.ctx = run.ctx
    BY <1>2 DEF BlocksTyped, store
  <2>2. run.ctx \in DOMAIN store.memories
    BY <1>2 DEF BlocksTyped, Blocks
  <2>3. /\ IsStore(store') /\ Same(store, store') /\ store'.history = store.history
        /\ DOMAIN store'.memories = DOMAIN store.memories
        /\ \A b \in DOMAIN store.memories :
              store'.memories[b] = IF b = run.ctx THEN st2 ELSE store.memories[b]
    BY <2>1, <2>2, MemoryReplaced
  <2>4. Kin(store, store')
    BY <2>3 DEF Kin, BlocksTyped
  <2>5. \A m \in DOMAIN store.memories : Kin(store.memories[m], store.memories[m])
    BY KinIsReflexive DEF BlocksTyped
  <2> QED BY <1>2, <2>1, <2>2, <2>3, <2>4, <2>5 DEF BlocksTyped, Target, Blocks, Block, store
<1> QED BY <1>1, <1>2

\* A mutation adds its entry to the history and keeps what the prefixes replay to.
LEMMA MutateHistory ==
    ASSUME BlocksTyped, HistoryInv, NEW stmt \in Statements, Mutate(stmt)
    PROVE  HistoryInv'
<1> DEFINE st == Target(run)
           st2 == Execute(st, stmt)
           row == DeltaRow([ts |-> st2.clock, stmt |-> stmt])
<1>1. stmt.op \in Mutations /\ ~Fails(st, stmt) /\ IsStore(st) /\ run.ctx \in Blocks /\ st = Block(run.ctx)
  BY TargetIsStore DEF Mutate, BlocksTyped, Target, Block, store
<1>2. IsStore(st2) /\ st2.memories = st.memories
  BY <1>1, MutationsKeepBlocks
<1>3. run' = IF run.ctx = Root THEN [run EXCEPT !.store = st2]
             ELSE [run EXCEPT !.store.memories[run.ctx] = st2]
  BY DEF Mutate, Mutations, ExecuteInContext, Target
<1>4. run.ctx = Root => st2.memories = store.memories
  BY <1>2 DEF Target, store
<1> HIDE DEF st2
<1>5. /\ Blocks' = Blocks /\ Target(run') = st2
      /\ \A b \in Blocks : IF b = run.ctx THEN Block(b)' = st2 ELSE Kin(Block(b), Block(b)')
  BY <1>2, <1>3, <1>4, ContextReplaced
<1>6. /\ past' = [past EXCEPT ![run.ctx] = Append(@, View(st2))]
      /\ deltas' = [deltas EXCEPT ![run.ctx] = Append(@, row)]
      /\ prunedAt' = prunedAt
  BY <1>5 DEF Mutate
<1>7. HistoryOk(st2, Append(deltas[run.ctx], row), Append(past[run.ctx], View(st2)), prunedAt[run.ctx])
  BY <1>1, MutationOk DEF HistoryInv, st2
<1> HIDE DEF row
<1>8. /\ IsMap(past') /\ DOMAIN past' = Blocks /\ IsMap(deltas') /\ DOMAIN deltas' = Blocks
      /\ IsMap(prunedAt') /\ DOMAIN prunedAt' = Blocks
  BY <1>6 DEF HistoryInv, IsMap
<1>9. ASSUME NEW b \in Blocks PROVE HistoryOk(Block(b)', deltas'[b], past'[b], prunedAt'[b])
  <2>1. CASE b = run.ctx
    BY <1>5, <1>6, <1>7, <2>1 DEF HistoryInv
  <2>2. CASE b # run.ctx
    <3>1. /\ deltas'[b] = deltas[b] /\ past'[b] = past[b] /\ prunedAt'[b] = prunedAt[b]
          /\ Kin(Block(b), Block(b)') /\ HistoryOk(Block(b), deltas[b], past[b], prunedAt[b])
      BY <1>5, <1>6, <2>2 DEF HistoryInv
    <3> QED BY <3>1, OkIgnoresMemories DEF Kin
  <2> QED BY <2>1, <2>2
<1> QED BY <1>5, <1>8, <1>9 DEF HistoryInv

\* At the root every block is compacted, elsewhere the one in context.
LEMMA PruneBlocks ==
    ASSUME BlocksTyped, NEW stmt \in Statements, Prune(stmt)
    PROVE  /\ Blocks' = Blocks
           /\ \A b \in Blocks :
                 IF run.ctx \in {Root, b}
                 THEN \E st : Kin(Block(b), st) /\ Block(b)' = PruneOne(st)
                 ELSE Kin(Block(b), Block(b)')
<1> DEFINE st == Target(run)
           compact == [st EXCEPT !.memories = [m \in DOMAIN @ |-> PruneOne(@[m])]]
           st2 == PruneOne(compact)
<1>1. IsStore(st) /\ run.ctx \in Blocks /\ st = Block(run.ctx)
  BY TargetIsStore DEF BlocksTyped, Target, Block, store
<1>2. /\ IsStore(compact) /\ Same(st, compact) /\ compact.history = st.history
      /\ compact.memories = [m \in DOMAIN st.memories |-> PruneOne(st.memories[m])]
  BY <1>1 DEF IsStore, IsMap, Parts, Same
<1>3. IsStore(st2) /\ st2.memories = compact.memories
  BY <1>2, PruneOneKeepsState
<1>4. run' = IF run.ctx = Root THEN [run EXCEPT !.store = st2]
             ELSE [run EXCEPT !.store.memories[run.ctx] = st2]
  BY DEF TemporalReads, Prune, ExecuteInContext, Execute, Fails, Target, PruneHistory
<1>5. Kin(st, compact)
  BY <1>1, <1>2 DEF Kin
<1> HIDE DEF compact
<1>6. CASE run.ctx = Root
  <2>1. /\ store' = st2 /\ Block(Root) = st /\ st = store
        /\ store'.memories = [m \in DOMAIN store.memories |-> PruneOne(store.memories[m])]
    BY <1>2, <1>3, <1>4, <1>6 DEF BlocksTyped, store, Block, Target
  <2>2. \A m \in DOMAIN store.memories :
           Kin(store.memories[m], store.memories[m]) /\ store'.memories[m] = PruneOne(store.memories[m])
    BY <2>1, KinIsReflexive DEF BlocksTyped
  <2>3. Blocks' = Blocks
    BY <2>1 DEF Blocks
  <2>4. ASSUME NEW b \in Blocks PROVE \E c : Kin(Block(b), c) /\ Block(b)' = PruneOne(c)
    BY <1>5, <2>1, <2>2 DEF Blocks, Block
  <2> QED BY <1>6, <2>3, <2>4
<1>7. CASE run.ctx # Root
  <2>1. /\ Blocks' = Blocks
        /\ \A b \in Blocks : IF b = run.ctx THEN Block(b)' = st2 ELSE Kin(Block(b), Block(b)')
    BY <1>3, <1>4, <1>7, ContextReplaced
  <2> QED BY <1>1, <1>5, <1>7, <2>1
<1> QED BY <1>6, <1>7

\* A compaction moves the horizon to the present and keeps what is after it.
LEMMA PruneKeepsHistory ==
    ASSUME BlocksTyped, HistoryInv, NEW stmt \in Statements, Prune(stmt)
    PROVE  HistoryInv'
<1>1. /\ Blocks' = Blocks /\ past' = past /\ deltas' = deltas
      /\ prunedAt' = [b \in DOMAIN prunedAt |->
                         IF run.ctx \in {Root, b} THEN Block(b).clock ELSE prunedAt[b]]
  BY PruneBlocks DEF Prune
<1>2. ASSUME NEW b \in Blocks PROVE HistoryOk(Block(b)', deltas'[b], past'[b], prunedAt'[b])
  <2>1. HistoryOk(Block(b), deltas[b], past[b], prunedAt[b])
    BY DEF HistoryInv
  <2>2. prunedAt'[b] = IF run.ctx \in {Root, b} THEN Block(b).clock ELSE prunedAt[b]
    BY <1>1 DEF HistoryInv
  <2>3. CASE run.ctx \in {Root, b}
    <3>1. PICK st : Kin(Block(b), st) /\ Block(b)' = PruneOne(st)
      BY <2>3, PruneBlocks
    <3>2. HistoryOk(st, deltas[b], past[b], prunedAt[b]) /\ st.clock = Block(b).clock /\ IsStore(st)
      BY <2>1, <3>1, OkIgnoresMemories DEF Kin, Same, IsStore, IsMap, Parts
    <3> QED BY <1>1, <2>2, <2>3, <3>1, <3>2, PruneOk
  <2>4. CASE run.ctx \notin {Root, b}
    <3>1. Kin(Block(b), Block(b)')
      BY <2>4, PruneBlocks
    <3> QED BY <1>1, <2>1, <2>2, <2>4, <3>1, OkIgnoresMemories DEF Kin
  <2> QED BY <2>3, <2>4
<1>3. IsMap(prunedAt') /\ DOMAIN prunedAt' = Blocks
  BY <1>1 DEF HistoryInv, IsMap
<1> QED BY <1>1, <1>2, <1>3 DEF HistoryInv

\* Entering a memory that does not exist creates it empty.
LEMMA SwitchBlocks ==
    ASSUME BlocksTyped, NEW stmt \in Statements, SwitchMemory(stmt)
    PROVE  /\ Blocks' = Blocks \cup {stmt.name}
           /\ \A b \in Blocks : Kin(Block(b), Block(b)')
           /\ stmt.name \notin Blocks => Block(stmt.name)' = EmptyStore
<1> DEFINE blocks == IF stmt.name \in DOMAIN store.memories THEN store.memories
                     ELSE Put(store.memories, stmt.name, EmptyStore)
<1>1. run' = [run EXCEPT !.ctx = stmt.name, !.store.memories = blocks]
  BY DEF SwitchMemory, ExecuteInContext, BlocksTyped, IsStore, IsMap, Parts, store
<1>2. stmt.name # Root
  BY StatementsAssumption DEF SwitchMemory
<1>3. /\ DOMAIN blocks = DOMAIN store.memories \cup {stmt.name}
      /\ \A m \in DOMAIN store.memories : blocks[m] = store.memories[m]
      /\ stmt.name \notin DOMAIN store.memories => blocks[stmt.name] = EmptyStore
  BY DEF BlocksTyped, Put, IsMap
<1> HIDE DEF blocks
<1>4. store' = [store EXCEPT !.memories = blocks]
  BY <1>1 DEF BlocksTyped, store
<1>5. IsStore(store') /\ Same(store, store') /\ store'.memories = blocks /\ store'.history = store.history
  BY <1>4 DEF BlocksTyped, IsStore, IsMap, Parts, Same
<1>6. Kin(store, store')
  BY <1>5 DEF Kin, BlocksTyped
<1>7. \A m \in DOMAIN store.memories : Kin(store.memories[m], store.memories[m])
  BY KinIsReflexive DEF BlocksTyped
<1> QED BY <1>2, <1>3, <1>5, <1>6, <1>7 DEF BlocksTyped, Blocks, Block

\* MEMORY makes at most a block without a history.
LEMMA SwitchKeepsHistory ==
    ASSUME BlocksTyped, HistoryInv, NEW stmt \in Statements, SwitchMemory(stmt)
    PROVE  HistoryInv'
<1> DEFINE m == stmt.name
<1>1. /\ Blocks' = Blocks \cup {m}
      /\ \A b \in Blocks : Kin(Block(b), Block(b)')
      /\ m \notin Blocks => Block(m)' = EmptyStore
  BY SwitchBlocks
<1>2. \A b \in Blocks : HistoryOk(Block(b)', deltas[b], past[b], prunedAt[b])
  BY <1>1, OkIgnoresMemories DEF HistoryInv, Kin
<1>3. DOMAIN past = Blocks /\ DOMAIN deltas = Blocks /\ DOMAIN prunedAt = Blocks
  BY DEF HistoryInv
<1>4. CASE m \in Blocks
  BY <1>1, <1>2, <1>3, <1>4 DEF HistoryInv, SwitchMemory
<1>5. CASE m \notin Blocks
  <2>1. /\ past' = Put(past, m, <<View(EmptyStore)>>)
        /\ deltas' = Put(deltas, m, <<>>) /\ prunedAt' = Put(prunedAt, m, Never)
    BY <1>3, <1>5 DEF SwitchMemory
  <2>2. /\ IsMap(past') /\ DOMAIN past' = Blocks' /\ IsMap(deltas') /\ DOMAIN deltas' = Blocks'
        /\ IsMap(prunedAt') /\ DOMAIN prunedAt' = Blocks'
    BY <1>1, <1>3, <2>1 DEF Put, IsMap
  <2>3. ASSUME NEW b \in Blocks' PROVE HistoryOk(Block(b)', deltas'[b], past'[b], prunedAt'[b])
    <3>1. CASE b = m
      BY <1>1, <1>5, <2>1, <3>1, FreshOk DEF Put
    <3>2. CASE b # m
      <4>1. b \in Blocks /\ deltas'[b] = deltas[b] /\ past'[b] = past[b] /\ prunedAt'[b] = prunedAt[b]
        BY <1>1, <1>3, <2>1, <3>2 DEF Put
      <4> QED BY <1>2, <4>1
    <3> QED BY <3>1, <3>2
  <2> QED BY <2>2, <2>3 DEF HistoryInv
<1> QED BY <1>4, <1>5

\* The other steps change no store.
LEMMA SameStoreKeepsHistory ==
    ASSUME BlocksTyped, HistoryInv, store' = store, UNCHANGED <<past, deltas, prunedAt>>
    PROVE  HistoryInv'
<1>1. Blocks' = Blocks /\ \A b \in Blocks : Block(b)' = Block(b)
  BY DEF Blocks, Block
<1> QED BY <1>1 DEF HistoryInv

\* Every step keeps the histories in order.
LEMMA StepKeepsHistory ==
    ASSUME BlocksTyped, HistoryInv, [Next]_vars
    PROVE  HistoryInv'
<1>1. CASE BeginPlan \/ EndPlan \/ UNCHANGED vars
  BY <1>1, SameStoreKeepsHistory DEF BeginPlan, EndPlan, LeavePlan, AtRoot, vars, store
<1>2. ASSUME NEW stmt \in Statements, Read(stmt)
      PROVE  HistoryInv'
  <2>1. Execute(Target(run), stmt) = Target(run)
    BY <1>2 DEF TemporalReads, Read, Execute
  <2>2. run' = run
    BY <1>2, <2>1 DEF TemporalReads, Read, ExecuteInContext, Target, BlocksTyped, Blocks, IsStore, IsMap, store
  <2> QED BY <1>2, <2>2, SameStoreKeepsHistory DEF Read, store
<1>3. ASSUME NEW stmt \in Statements, FailPlan(stmt)
      PROVE  HistoryInv'
  BY <1>3, FailureKeepsStore, SameStoreKeepsHistory DEF FailPlan, AtRoot, store
<1> QED BY <1>1, <1>2, <1>3, MutateHistory, PruneKeepsHistory, SwitchKeepsHistory DEF Next

\* In every reachable state the history of every block is what its past and its
\* last compaction left: declarations, a snapshot, one entry per mutation since.
THEOREM HistoriesKept == Spec => []HistoryInv
<1>1. Init => BlocksTyped /\ HistoryInv
  <2> SUFFICES ASSUME Init PROVE BlocksTyped /\ HistoryInv
    OBVIOUS
  <2>1. BlocksTyped
    BY DEF Init, AtRoot, EmptyStore, BlocksTyped, IsStore, IsMap, Parts, Blocks, store
  <2>2. store = EmptyStore /\ EmptyStore.memories = <<>>
    BY DEF Init, AtRoot, EmptyStore, store
  <2>3. Blocks = {Root} /\ Block(Root) = EmptyStore
    BY <2>2 DEF Blocks, Block
  <2>4. /\ past = [b \in {Root} |-> <<View(EmptyStore)>>]
        /\ deltas = [b \in {Root} |-> <<>>] /\ prunedAt = [b \in {Root} |-> Never]
    BY DEF Init
  <2>5. HistoryInv
    BY <2>3, <2>4, FreshOk DEF HistoryInv, IsMap
  <2> QED BY <2>1, <2>5
<1>2. BlocksTyped /\ HistoryInv /\ [Next]_vars => BlocksTyped' /\ HistoryInv'
  BY StepIsolated, StepKeepsHistory
<1> QED BY <1>1, <1>2, PTL DEF Spec

(***************************************************************************)
(* What the invariant says of the answers.                                 *)
(***************************************************************************)

\* The minimum of a set that has a least element is that element.
LEMMA MinIs ==
    ASSUME NEW s, NEW n \in Int, s \subseteq Int, n \in s, \A m \in s : n <= m
    PROVE  Min(s) = n
<1>1. Min(s) \in s /\ \A m \in s : Min(s) <= m
  <2>1. \E x \in s : \A m \in s : x <= m
    OBVIOUS
  <2> QED BY <2>1, Zenon DEF Min
<1>2. Min(s) \in Int /\ Min(s) <= n /\ n <= Min(s)
  BY <1>1
<1> QED BY <1>2

\* A block cannot answer for the time before its last compaction, and only for it.
LEMMA PrunedWhen ==
    ASSUME NEW st, NEW p \in 0..Len(st.history), NEW t \in Nat, NEW pruned, IsSeq(st.history),
           SnapshotAt(st, p, t, pruned), NEW ts \in Nat
    PROVE  /\ HistoryPruned(st, ts) <=> ts < pruned
           /\ HistoryPruned(st, ts) <=> ts < t
<1>1. DOMAIN st.history = 1..Len(st.history) /\ Len(st.history) \in Nat
  BY SeqFacts
<1>2. Snapshots(st) = {i \in 1..Len(st.history) : i = p}
  BY <1>1 DEF Snapshots, SnapshotAt
<1>3. CASE p = 0
  BY <1>1, <1>2, <1>3 DEF SnapshotAt, HistoryPruned, Never
<1>4. CASE p # 0
  <2>1. Snapshots(st) = {p}
    BY <1>1, <1>2, <1>4
  <2>2. Min({p}) = p
    BY SMTT(30), <1>1, MinIs
  <2>3. st.history[p].ts = t /\ pruned = t
    BY <1>4 DEF SnapshotAt
  <2> QED BY <2>1, <2>2, <2>3 DEF HistoryPruned
<1> QED BY <1>3, <1>4

\* The entries up to a time that the block can answer for.
LEMMA UpToIs ==
    ASSUME NEW st, NEW p \in 0..Len(st.history), NEW t \in 0..st.clock, NEW pruned,
           IsSeq(st.history), st.clock \in Nat, SnapshotAt(st, p, t, pruned), EntriesAfter(st, p, t),
           NEW ts \in Nat, ts >= t
    PROVE  UpTo(st.history, ts)
              = SubSeq(st.history, 1, p + ((IF ts < st.clock THEN ts ELSE st.clock) - t))
<1> DEFINE h == st.history
           k == st.clock
           late == {i \in DOMAIN h : h[i].ts > ts}
<1>1. /\ DOMAIN h = 1..Len(h) /\ Len(h) \in Nat /\ k \in Nat /\ p \in Nat /\ t \in Nat /\ t <= k
      /\ p <= Len(h) /\ Len(h) = p + (k - t)
  BY SeqFacts DEF EntriesAfter
<1>2. \A i \in 1..(p - 1) : h[i].ts \in 1..t
  BY DEF SnapshotAt
<1>3. p # 0 => h[p].ts = t
  BY DEF SnapshotAt
<1>4. \A j \in 1..(k - t) : h[p + j].ts = t + j
  BY DEF EntriesAfter
<1> HIDE DEF h, k
<1>5. ASSUME NEW i \in 1..p PROVE h[i].ts <= ts
  <2>1. CASE i = p
    BY <1>1, <1>3, <2>1
  <2>2. CASE i < p
    <3>1. i \in 1..(p - 1)
      BY <1>1, <2>2
    <3> QED BY <1>1, <1>2, <3>1
  <2> QED BY <1>1, <2>1, <2>2
<1>6. ASSUME NEW i \in 1..Len(h), i > p PROVE h[i].ts = t + (i - p)
  <2>1. i - p \in 1..(k - t) /\ p + (i - p) = i
    BY <1>1, <1>6
  <2> QED BY <1>4, <2>1
<1>7. late = {i \in 1..Len(h) : i > p + (ts - t)}
  <2>1. ASSUME NEW i \in 1..Len(h) PROVE h[i].ts > ts <=> i > p + (ts - t)
    <3>1. CASE i > p
      BY <1>1, <1>6, <3>1
    <3>2. CASE i <= p
      <4>1. i \in 1..p
        BY <1>1, <3>2
      <4>2. h[i].ts \in Int
        BY <1>1, <1>2, <1>3, <4>1
      <4> QED BY <1>1, <1>5, <4>1, <4>2, <3>2
    <3> QED BY <1>1, <3>1, <3>2
  <2> QED BY <1>1, <2>1
<1> HIDE DEF late
<1>8. CASE ts < k
  <2>1. p + (ts - t) + 1 \in 1..Len(h)
    BY <1>1, <1>8
  <2>2. p + (ts - t) + 1 \in late /\ late \subseteq Int
    BY <1>1, <1>7, <2>1
  <2>3. \A m \in late : p + (ts - t) + 1 <= m
    BY <1>1, <1>7
  <2>4. late # {} /\ Min(late) = p + (ts - t) + 1
    BY <1>1, <2>2, <2>3, MinIs
  <2>5. Min(late) - 1 = p + (ts - t)
    BY <1>1, <2>4
  <2> QED BY <1>8, <2>4, <2>5 DEF UpTo, late, h, k
<1>9. CASE ~(ts < k)
  <2>1. late = {} /\ p + (k - t) = Len(h)
    BY <1>1, <1>7, <1>9
  <2>2. SubSeq(h, 1, Len(h)) = h
    BY PrefixFacts DEF h
  <2> QED BY <1>9, <2>1, <2>2 DEF UpTo, late, h, k
<1> QED BY <1>8, <1>9

LEMMA AsOfIsReplay == \A st, ts : ReplayAsOf(st, ts) = Replay(UpTo(st.history, ts))
BY DEF ReplayAsOf, Replay, ReplayEntry, FoldLeft, MapThenFoldSet, Max

\* The two selections of SinceExact are the folds of this module.
LEMMA SinceIsRows ==
    /\ \A st, ts : HistorySince(st, ts) = RowsOf(Since(ts, st.history))
    /\ \A rows, ts : Retain(rows, LAMBDA row : row.ts > ts) = After(ts, rows)
<1>1. \A st, ts : HistorySince(st, ts) = RowsOf(Since(ts, st.history))
  BY DEF HistorySince, RowsOf, Since, IsSince, Retain, FoldLeft, MapThenFoldSet, Max
<1>2. \A rows, ts : Retain(rows, LAMBDA row : row.ts > ts) = After(ts, rows)
  BY DEF After, IsAfter, Retain, FoldLeft, MapThenFoldSet, Max
<1> QED BY <1>1, <1>2

\* What one block answers.
LEMMA AnswersExact ==
    ASSUME NEW st, NEW d, NEW ago, NEW pruned, HistoryOk(st, d, ago, pruned), NEW ts \in Nat
    PROVE  /\ ~HistoryPruned(st, ts) =>
                 /\ ~ReplayAsOf(st, ts).failed
                 /\ View(ReplayAsOf(st, ts).store) = ago[(IF ts < st.clock THEN ts ELSE st.clock) + 1]
                 /\ HistorySince(st, ts) = After(ts, d)
           /\ HistoryPruned(st, ts) <=> ts < pruned
<1> DEFINE seen == IF ts < st.clock THEN ts ELSE st.clock
<1>1. IsSeq(st.history) /\ st.clock \in Nat
  BY DEF HistoryOk
<1>2. PICK p \in 0..Len(st.history), t \in 0..st.clock :
          /\ SnapshotAt(st, p, t, pruned) /\ EntriesAfter(st, p, t)
          /\ PrefixesReplay(st, p, t, ago) /\ RowsAgree(st, d, t)
  BY DEF HistoryOk
<1>3. t \in Nat /\ p \in Nat
  BY <1>1, SeqFacts
<1>4. (HistoryPruned(st, ts) <=> ts < pruned) /\ (HistoryPruned(st, ts) <=> ts < t)
  BY <1>1, <1>2, <1>3, PrunedWhen
<1>5. ASSUME ts >= t
      PROVE  /\ ~ReplayAsOf(st, ts).failed /\ View(ReplayAsOf(st, ts).store) = ago[seen + 1]
             /\ HistorySince(st, ts) = After(ts, d)
  <2>1. UpTo(st.history, ts) = SubSeq(st.history, 1, p + (seen - t))
    BY <1>1, <1>2, <1>5, UpToIs
  <2>2. seen - t \in 0..(st.clock - t) /\ t + (seen - t) = seen
    BY <1>1, <1>3, <1>5
  <2> HIDE DEF seen
  <2>3. ReplaysTo(Replay(SubSeq(st.history, 1, p + (seen - t))), t + (seen - t), ago[t + (seen - t) + 1])
    BY <1>2, <2>2 DEF PrefixesReplay
  <2>4. ReplaysTo(ReplayAsOf(st, ts), seen, ago[seen + 1])
    BY <2>1, <2>2, <2>3, AsOfIsReplay
  <2>5. ~ReplayAsOf(st, ts).failed /\ View(ReplayAsOf(st, ts).store) = ago[seen + 1]
    BY <2>4 DEF ReplaysTo, Going
  <2>6. HistorySince(st, ts) = After(ts, d)
    BY <1>2, <1>5, SinceIsRows DEF RowsAgree
  <2> QED BY <2>5, <2>6
<1> HIDE DEF seen
<1>6. ~(ts < t) => ts >= t
  BY <1>3
<1> QED BY <1>4, <1>5, <1>6 DEF seen

(***************************************************************************)
(* The theorems.                                                           *)
(***************************************************************************)

\* The times asked for are numbers.
LEMMA TimesAreNat == HistoryInv => \A b \in Blocks : \A ts \in Times(b) : ts \in Nat
BY DEF HistoryInv, HistoryOk, Times

\* AS OF T answers what the block held at time T, and replay_as_of never
\* panics, for any plans over any statements and any number of mutations.
THEOREM AsOfIsExact == Spec => []AsOfExact
<1>1. HistoryInv => AsOfExact
  <2> SUFFICES ASSUME HistoryInv, NEW b \in Blocks, NEW ts \in Times(b), ~HistoryPruned(Block(b), ts)
               PROVE  /\ ~ReplayAsOf(Block(b), ts).failed
                      /\ View(ReplayAsOf(Block(b), ts).store)
                            = past[b][(IF ts < Block(b).clock THEN ts ELSE Block(b).clock) + 1]
    BY DEF AsOfExact
  <2>1. HistoryOk(Block(b), deltas[b], past[b], prunedAt[b]) /\ ts \in Nat
    BY TimesAreNat DEF HistoryInv
  <2> QED BY <2>1, AnswersExact
<1> QED BY <1>1, HistoriesKept, PTL

\* HISTORY SINCE T returns the mutations after T, in order and once each.
THEOREM SinceIsExact == Spec => []SinceExact
<1>1. HistoryInv => SinceExact
  <2> SUFFICES ASSUME HistoryInv, NEW b \in Blocks, NEW ts \in Times(b), ~HistoryPruned(Block(b), ts)
               PROVE  HistorySince(Block(b), ts) = After(ts, deltas[b])
    BY SinceIsRows DEF SinceExact
  <2>1. HistoryOk(Block(b), deltas[b], past[b], prunedAt[b]) /\ ts \in Nat
    BY TimesAreNat DEF HistoryInv
  <2> QED BY <2>1, AnswersExact
<1> QED BY <1>1, HistoriesKept, PTL

\* The horizon compaction_horizon reads off a history is the time of the last
\* compaction of the block.
THEOREM HorizonIsExact == Spec => []HorizonExact
<1>1. HistoryInv => HorizonExact
  <2> SUFFICES ASSUME HistoryInv, NEW b \in Blocks, NEW ts \in Times(b)
               PROVE  HistoryPruned(Block(b), ts) <=> ts < prunedAt[b]
    BY DEF HorizonExact
  <2>1. HistoryOk(Block(b), deltas[b], past[b], prunedAt[b]) /\ ts \in Nat
    BY TimesAreNat DEF HistoryInv
  <2> QED BY <2>1, AnswersExact
<1> QED BY <1>1, HistoriesKept, PTL

\* rebuild_tables finds the tables a history declared, pruned or not.
THEOREM TablesAreRebuilt == Spec => []TablesRebuilt
<1>1. HistoryInv => TablesRebuilt
  BY DEF HistoryInv, HistoryOk, DeclaresTables, DimsOf, TablesRebuilt, RestrictValues
<1> QED BY <1>1, HistoriesKept, PTL
==============================================================================
