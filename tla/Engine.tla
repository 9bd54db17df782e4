-------------------------------- MODULE Engine --------------------------------
(***************************************************************************)
(* An in-memory Database: plans run one after the other against one store, *)
(* statement by statement (Database::execute without a file, and           *)
(* execute_plan).  Any statement may come next in a plan and a plan may    *)
(* end after any statement, so every plan over Statements is covered.      *)
(*                                                                         *)
(* Three history variables remember what the engine itself may forget:     *)
(* past[b] the state of block b at every timestamp, deltas[b] every        *)
(* mutation of b, prunedAt[b] when b was last compacted.                   *)
(***************************************************************************)
EXTENDS NqStore

CONSTANTS Statements,   \* the statements plans are made of
          MaxClock      \* bound on the mutations of all blocks together

\* A block's name is an identifier, and the root has none.
ASSUME StatementsAssumption ==
    \A stmt \in Statements : stmt.op = "memory" => stmt.name # Root

VARIABLES running,      \* a plan is being executed
          run,          \* [store, ctx, failed]: the store and the plan's context
          past, deltas, prunedAt

vars == <<running, run, past, deltas, prunedAt>>

store == run.store
Blocks == {Root} \cup DOMAIN store.memories
Block(b) == IF b = Root THEN store ELSE store.memories[b]

Never == -1

Init ==
    /\ running = FALSE
    /\ run = AtRoot(EmptyStore)
    /\ past = [b \in {Root} |-> <<View(EmptyStore)>>]
    /\ deltas = [b \in {Root} |-> <<>>]
    /\ prunedAt = [b \in {Root} |-> Never]

\* execute_plan: every plan starts at the root.
BeginPlan ==
    /\ ~running
    /\ running' = TRUE
    /\ UNCHANGED <<run, past, deltas, prunedAt>>

\* The context is a local variable of execute_plan: it ends with the plan.
LeavePlan(c) ==
    /\ running' = FALSE
    /\ run' = AtRoot(c.store)

TotalClock == SumFunction([b \in Blocks |-> Block(b).clock])

\* CREATE, INSERT, RELATE and FORGET in the current context.
Mutate(stmt) ==
    /\ running
    /\ stmt.op \in Mutations
    /\ ~Fails(Target(run), stmt)
    /\ TotalClock < MaxClock
    /\ run' = ExecuteInContext(run, stmt)
    /\ past' = [past EXCEPT ![run.ctx] = Append(@, View(Target(run')))]
    /\ deltas' = [deltas EXCEPT ![run.ctx] =
                     Append(@, DeltaRow([ts |-> Target(run').clock, stmt |-> stmt]))]
    /\ UNCHANGED <<running, prunedAt>>

\* MEMORY m: switch the context, creating the block on first use.
SwitchMemory(stmt) ==
    /\ running
    /\ stmt.op = "memory"
    /\ run' = ExecuteInContext(run, stmt)
    /\ IF stmt.name \in DOMAIN past
       THEN UNCHANGED <<past, deltas, prunedAt>>
       ELSE /\ past' = Put(past, stmt.name, <<View(EmptyStore)>>)
            /\ deltas' = Put(deltas, stmt.name, <<>>)
            /\ prunedAt' = Put(prunedAt, stmt.name, Never)
    /\ UNCHANGED running

\* PRUNE HISTORY: at the root it compacts every memory too.
Prune(stmt) ==
    /\ running
    /\ stmt.op = "prune"
    /\ run' = ExecuteInContext(run, stmt)
    /\ prunedAt' = [b \in DOMAIN prunedAt |->
                       IF run.ctx \in {Root, b} THEN Block(b).clock ELSE prunedAt[b]]
    /\ UNCHANGED <<running, past, deltas>>

\* AS OF and HISTORY SINCE leave the store alone.
Read(stmt) ==
    /\ running
    /\ stmt.op \in TemporalReads
    /\ ~Fails(Target(run), stmt)
    /\ run' = ExecuteInContext(run, stmt)
    /\ UNCHANGED <<running, past, deltas, prunedAt>>

\* A failing statement ends its plan; the statements before it stay applied.
FailPlan(stmt) ==
    /\ running
    /\ Fails(Target(run), stmt)
    /\ stmt.op # "memory"
    /\ LeavePlan(ExecuteInContext(run, stmt))
    /\ UNCHANGED <<past, deltas, prunedAt>>

EndPlan ==
    /\ running
    /\ LeavePlan(run)
    /\ UNCHANGED <<past, deltas, prunedAt>>

Next ==
    \/ BeginPlan
    \/ EndPlan
    \/ \E stmt \in Statements :
          \/ Mutate(stmt)
          \/ SwitchMemory(stmt)
          \/ Prune(stmt)
          \/ Read(stmt)
          \/ FailPlan(stmt)

Spec == Init /\ [][Next]_vars

(***************************************************************************)
(* Properties.                                                             *)
(***************************************************************************)

\* The times worth asking a block about: all its past, now, and the future.
Times(b) == 0..(Block(b).clock + 1)

\* AS OF T answers exactly what the block held at logical time T, for every T
\* that compaction has not made unanswerable, and replaying the history never
\* panics (replay_as_of's "history replay is total"), whatever was upserted,
\* forgotten, re-declared or compacted since.
AsOfExact ==
    \A b \in Blocks : \A ts \in Times(b) :
        ~HistoryPruned(Block(b), ts) =>
            LET view == ReplayAsOf(Block(b), ts)
                seen == IF ts < Block(b).clock THEN ts ELSE Block(b).clock
            IN  ~view.failed /\ View(view.store) = past[b][seen + 1]

\* HISTORY SINCE T returns every mutation of the block after T, in order and
\* once each, and no compaction bookkeeping.
SinceExact ==
    \A b \in Blocks : \A ts \in Times(b) :
        ~HistoryPruned(Block(b), ts) =>
            HistorySince(Block(b), ts) = Retain(deltas[b], LAMBDA row : row.ts > ts)

\* The retention horizon is the time of the last compaction, neither earlier
\* (a partial view answered silently) nor later (a loud error for a view that
\* could be rebuilt): compaction_horizon reads the first snapshot it meets.
HorizonExact ==
    \A b \in Blocks : \A ts \in Times(b) :
        HistoryPruned(Block(b), ts) <=> ts < prunedAt[b]

\* The table index and the dimensions can be rebuilt from the history alone,
\* pruned or not: load drops a memory's index and rebuilds it this way.
TablesRebuilt ==
    \A b \in Blocks :
        /\ DeclaredBy(Block(b).history, <<>>) = Block(b).tables
        /\ Block(b).vector_dims =
              RestrictValues(Block(b).tables, LAMBDA dim : dim # NoDim)

\* A statement changes no block but the one in context. Only a PRUNE HISTORY, and
\* only at the root, reaches another block, and there it changes nothing but the
\* history.
MemoryIsolation ==
    [][\A b \in Blocks \ {run.ctx} :
          /\ b \in Blocks'
          /\ [Block(b)' EXCEPT !.history = <<>>, !.memories = <<>>]
               = [Block(b) EXCEPT !.history = <<>>, !.memories = <<>>]
          /\ Block(b)'.history # Block(b).history =>
                run.ctx = Root /\ \E stmt \in Statements : Prune(stmt)]_vars
==============================================================================
