------------------------------- MODULE NqStore -------------------------------
(***************************************************************************)
(* The in-memory store and what one statement does to it: nql-ir's Store   *)
(* and Statement, and the engine's execute_in_context / execute_statement. *)
(*                                                                         *)
(* A record id is a pair <<table, key>>.  Bodies are opaque values; of an  *)
(* embedding only its length matters (the engine compares nothing else     *)
(* when it writes).  A partial map (BTreeMap) is a function; the empty map *)
(* is <<>>.                                                                *)
(***************************************************************************)
EXTENDS Integers, Sequences, SequencesExt

CONSTANTS NoDim,   \* Option::None for a vector dimension or an embedding
          Root     \* the context outside every MEMORY block

\* BTreeMap::insert and BTreeMap::remove.
Put(map, key, value) == [k \in DOMAIN map \cup {key} |-> IF k = key THEN value ELSE map[k]]
Drop(map, key) == Restrict(map, DOMAIN map \ {key})

\* Vec::retain and Iterator::filter, as a fold: nothing can be proved of SelectSeq.
Retain(seq, Keeps(_)) ==
    FoldLeft(LAMBDA kept, x : IF Keeps(x) THEN Append(kept, x) ELSE kept, <<>>, seq)

(***************************************************************************)
(* Stores.                                                                 *)
(***************************************************************************)

EmptyStore ==
    [records |-> <<>>, edges |-> <<>>, vector_dims |-> <<>>, clock |-> 0,
     history |-> <<>>, memories |-> <<>>, tables |-> <<>>]

\* The clock ticks once per mutation; the mutation is kept under the new time.
LogMutation(store, stmt) ==
    [store EXCEPT !.clock = @ + 1,
                  !.history = Append(@, [ts |-> store.clock + 1, stmt |-> stmt])]

\* The table index a history declares: the last CREATE of a table wins.
DeclareEntry(index, entry) ==
    IF entry.stmt.op = "create" THEN Put(index, entry.stmt.table, entry.stmt.dim) ELSE index

DeclaredBy(history, tables) == FoldLeft(DeclareEntry, tables, history)

RebuildIndex(store) == [store EXCEPT !.tables = DeclaredBy(store.history, @)]

\* Of a store and its memories, which never nest.
RebuildTables(store) ==
    [RebuildIndex(store) EXCEPT !.memories = [m \in DOMAIN @ |-> RebuildIndex(@[m])]]

(***************************************************************************)
(* History compaction.                                                     *)
(***************************************************************************)

SnapshotOf(store) == [store EXCEPT !.history = <<>>]

\* A mutant of PruneOne: the snapshot is added, the old entries stay.
PruneOneKeepsEntries(store) ==
    [store EXCEPT !.history =
        Append(@, [ts |-> store.clock, stmt |-> [op |-> "snapshot", state |-> SnapshotOf(store)]])]

PruneOne(store) ==
    [store EXCEPT !.history =
        Append(Retain(@, LAMBDA entry : entry.stmt.op = "create"),
               [ts |-> store.clock,
                stmt |-> [op |-> "snapshot", state |-> SnapshotOf(store)]])]

\* Memories first, so that the snapshot embeds them compact.  MEMORY inside a
\* memory reaches the root's memories, so memories never nest.
PruneHistory(store) ==
    PruneOne([store EXCEPT !.memories = [m \in DOMAIN @ |-> PruneOne(@[m])]])

(***************************************************************************)
(* One statement against one store.                                        *)
(***************************************************************************)

\* The queries that read the history: SELECT and MATCH (with its variants) AS OF a
\* time, and HISTORY SINCE.
TemporalReads == {"as_of", "match_as_of", "since"}

\* So does a compaction: it keeps the declarations of the whole history.
NeedsHistory(stmt) == stmt.op \in TemporalReads \cup {"prune"}
Temporal(plan) == \E i \in DOMAIN plan : NeedsHistory(plan[i])

Snapshots(store) == {i \in DOMAIN store.history : store.history[i].stmt.op = "snapshot"}

\* AS OF and HISTORY SINCE below the first snapshot answer HistoryPruned.
HistoryPruned(store, ts) ==
    Snapshots(store) # {} /\ ts < store.history[Min(Snapshots(store))].ts

WrongDim(store, stmt) ==
    /\ stmt.id[1] \in DOMAIN store.vector_dims
    /\ stmt.emb # NoDim
    /\ stmt.emb # store.vector_dims[stmt.id[1]]

\* execute_statement returns Err.
Fails(store, stmt) ==
    \/ stmt.op = "memory"
    \/ stmt.op = "insert" /\ WrongDim(store, stmt)
    \/ stmt.op \in TemporalReads /\ HistoryPruned(store, stmt.ts)

Stamp(store, stmt) == IF stmt.at = 0 THEN store.clock + 1 ELSE stmt.at

\* A mutant of Declare: a table declared again without a vector keeps its dimension.
DeclareKeepsDim(store, stmt) ==
    [store EXCEPT !.vector_dims = IF stmt.dim = NoDim THEN @ ELSE Put(@, stmt.table, stmt.dim),
                  !.tables = Put(@, stmt.table, stmt.dim)]

Declare(store, stmt) ==
    [store EXCEPT !.vector_dims = IF stmt.dim = NoDim THEN Drop(@, stmt.table)
                                                      ELSE Put(@, stmt.table, stmt.dim),
                  !.tables = Put(@, stmt.table, stmt.dim)]

Upsert(store, stmt) ==
    [store EXCEPT !.records = Put(@, stmt.id, [body |-> stmt.body, emb |-> stmt.emb,
                                               created_at |-> Stamp(store, stmt)])]

Link(store, stmt) ==
    [store EXCEPT !.edges = Append(@, [from |-> stmt.from, to |-> stmt.to,
                                       created_at |-> Stamp(store, stmt)])]

Erase(store, stmt) ==
    [store EXCEPT !.records = Drop(@, stmt.id),
                  !.edges = SelectSeq(@, LAMBDA e : e.from # stmt.id /\ e.to # stmt.id)]

\* The store after a statement that does not fail.
Execute(store, stmt) ==
    CASE stmt.op = "create"   -> LogMutation(Declare(store, stmt), stmt)
      [] stmt.op = "insert"   -> LogMutation(Upsert(store, stmt), stmt)
      [] stmt.op = "relate"   -> LogMutation(Link(store, stmt), stmt)
      [] stmt.op = "forget"   -> LogMutation(Erase(store, stmt), stmt)
      [] stmt.op = "prune"    -> PruneHistory(store)
      [] stmt.op = "snapshot" -> stmt.state
      [] OTHER                -> store

\* What a query can see of a store.
View(st) == [records |-> st.records, edges |-> st.edges, vector_dims |-> st.vector_dims]

Mutations == {"create", "insert", "relate", "forget"}

(***************************************************************************)
(* One statement in a plan's context: c.store is the root store, c.ctx the *)
(* memory the plan is in, c.failed says that a statement returned Err.     *)
(***************************************************************************)

\* ContextReset: the end of a plan in the log.
ResetStmt == [op |-> "reset"]

Target(c) == IF c.ctx = Root THEN c.store ELSE c.store.memories[c.ctx]

\* A mutant of ExecuteInContext: MEMORY recreates the block, emptying it.
ExecuteRecreatesMemory(c, stmt) ==
    CASE stmt.op = "memory" ->
            [c EXCEPT !.ctx = stmt.name, !.store.memories = Put(@, stmt.name, EmptyStore)]
      [] stmt.op = "reset" -> [c EXCEPT !.ctx = Root]
      [] OTHER ->
            IF Fails(Target(c), stmt) THEN [c EXCEPT !.failed = TRUE]
            ELSE IF c.ctx = Root THEN [c EXCEPT !.store = Execute(@, stmt)]
            ELSE [c EXCEPT !.store.memories[c.ctx] = Execute(@, stmt)]

ExecuteInContext(c, stmt) ==
    CASE stmt.op = "memory" ->
            [c EXCEPT !.ctx = stmt.name,
                      !.store.memories = IF stmt.name \in DOMAIN @ THEN @
                                         ELSE Put(@, stmt.name, EmptyStore)]
      [] stmt.op = "reset" -> [c EXCEPT !.ctx = Root]
      [] OTHER ->
            IF Fails(Target(c), stmt) THEN [c EXCEPT !.failed = TRUE]
            ELSE IF c.ctx = Root THEN [c EXCEPT !.store = Execute(@, stmt)]
            ELSE [c EXCEPT !.store.memories[c.ctx] = Execute(@, stmt)]

AtRoot(store) == [store |-> store, ctx |-> Root, failed |-> FALSE]

\* A plan runs its statements in order and stops at the first that fails; what
\* the earlier ones did stays.
ExecutePlan(store, plan) ==
    FoldLeft(LAMBDA c, stmt : IF c.failed THEN c ELSE ExecuteInContext(c, stmt),
             AtRoot(store), plan)

(***************************************************************************)
(* Temporal reads.                                                         *)
(***************************************************************************)

\* A mutant of UpTo: the entry made at the cutoff is left out.
UpToBefore(history, cutoff) ==
    LET late == {i \in DOMAIN history : history[i].ts >= cutoff}
    IN  IF late = {} THEN history ELSE SubSeq(history, 1, Min(late) - 1)

\* The entries up to the first one later than the cutoff.
UpTo(history, cutoff) ==
    LET late == {i \in DOMAIN history : history[i].ts > cutoff}
    IN  IF late = {} THEN history ELSE SubSeq(history, 1, Min(late) - 1)

\* The view AS OF reads run against; "failed" is the panic of replay_as_of.
ReplayEntry(c, entry) ==
    IF c.failed \/ Fails(c.store, entry.stmt) THEN [c EXCEPT !.failed = TRUE]
    ELSE [c EXCEPT !.store = Execute(@, entry.stmt)]

ReplayAsOf(store, cutoff) ==
    FoldLeft(ReplayEntry, AtRoot(EmptyStore), UpTo(store.history, cutoff))

\* The rows of HISTORY SINCE: one per mutation, with its kind and its subject.
DeltaRow(entry) ==
    [ts |-> entry.ts, kind |-> entry.stmt.op,
     subject |-> CASE entry.stmt.op = "create" -> <<entry.stmt.table, entry.stmt.dim>>
                   [] entry.stmt.op \in {"insert", "forget"} -> entry.stmt.id
                   [] entry.stmt.op = "relate" -> <<entry.stmt.from, entry.stmt.to>>]

\* A mutant of HistorySince: the entry made at the given time is included.
HistorySinceFrom(store, since) ==
    LET delta == Retain(store.history, LAMBDA entry : /\ entry.ts >= since
                                                      /\ entry.stmt.op # "snapshot")
    IN  [i \in DOMAIN delta |-> DeltaRow(delta[i])]

HistorySince(store, since) ==
    LET delta == Retain(store.history, LAMBDA entry : /\ entry.ts > since
                                                      /\ entry.stmt.op # "snapshot")
    IN  [i \in DOMAIN delta |-> DeltaRow(delta[i])]
==============================================================================
