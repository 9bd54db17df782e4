------------------------------- MODULE Session -------------------------------
(***************************************************************************)
(* One database file and the three programs that serve it, one at a time:  *)
(* nql-server, which analyzes every line against the tables it believes    *)
(* declared, nql-mcp, whose tools run plans as they are, and nql-cli.      *)
(*                                                                         *)
(* A line or a call is atomic: the server serves one connection at a time, *)
(* nql-mcp holds its mutex. The file is the store a reopen would find, the  *)
(* main file with the log replayed onto it, and beside it the history the   *)
(* main file ends in, which a reopen leaves where it is until a query or a  *)
(* compaction asks for it. StoreFile has the rest: crashes, failing calls,  *)
(* the bytes of the file and what serde leaves out of them.                 *)
(***************************************************************************)
EXTENDS NqStore, FiniteSetsExt

CONSTANTS
    Lines,            \* the plans clients send, as lines or to execute_nql
    Tables, Dims,     \* what the typed tools are called with
    Ids, Memories,
    Texts, Jsons,     \* their arguments: texts cut at the colon, and JSON values
    Times,            \* and the times of AS OF
    BuiltinTables,
    Decodings,        \* other histories that the bytes at a stale range may decode as
    MaxClock,         \* bound on the mutations of all blocks together
    MaxHistory        \* bound on the root's history, which stale reads add to

\* What the parser makes of a line: statements, none of which is one that only the
\* engine makes for itself (a snapshot) or the log (the end of a plan).
ASSUME LinesAssumption ==
    \A line \in Lines : /\ line \in Seq(Range(line))
                        /\ \A i \in DOMAIN line : line[i].op \notin {"snapshot", "reset"}

ASSUME DecodingsAreSequences == \A read \in Decodings : read \in Seq(Range(read))

\* The analyzer refuses an id with an empty part, the engine takes it: what is said of
\* the two is said of the others.
ASSUME IdsAssumption == \A id \in Ids : id[1] # "" /\ id[2] # ""

VARIABLES
    host,        \* the program that has the file open: "server", "mcp", "cli" or "none"
    store,       \* its Database
    disk,        \* what a reopen would load; of the root's history, what the log has
    saved,       \* there is a main file,
    tail,        \* with the root's history up to the last checkpoint at its end
    pending,     \* hist_range of the open file: "none", or a range of it that has not
                 \* been decoded yet, "fresh" or, after a checkpoint, "stale"
    declared,    \* Server::declared
    drift,       \* a line that failed has changed the root's tables
    behind,      \* a plan that failed has left what is not in the file
    misread,     \* a frame of the log has failed to replay
    garbled      \* a stale range has decoded as some history

fileVars == <<disk, saved, tail>>
vars == <<host, store, fileVars, pending, declared, drift, behind, misread, garbled>>

(***************************************************************************)
(* The analyzer.                                                           *)
(***************************************************************************)

NewCtx == [declared |-> BuiltinTables, dims |-> <<>>, refused |-> FALSE]

BadId(id) == id[1] = "" \/ id[2] = ""

RefusesInsert(ctx, stmt) ==
    \/ BadId(stmt.id)
    \/ stmt.id[1] \notin ctx.declared
    \/ stmt.id[1] \in DOMAIN ctx.dims /\ stmt.emb \notin {NoDim, ctx.dims[stmt.id[1]]}

\* Similarity asked for as an order needs a query vector.
RefusesSelect(ctx, stmt) ==
    stmt.table \notin ctx.declared \/ (stmt.order = "similarity" /\ ~stmt.knn)

Refuses(ctx, stmt) ==
    \/ stmt.op = "insert" /\ RefusesInsert(ctx, stmt)
    \/ stmt.op \in {"select", "as_of"} /\ RefusesSelect(ctx, stmt)
    \/ stmt.op = "relate" /\ (BadId(stmt.from) \/ BadId(stmt.to))
    \/ stmt.op \in {"forget", "match", "match_as_of"} /\ BadId(stmt.id)

\* A dimension is never taken back: CREATE TABLE without a vector leaves dims alone.
AnalyzeStatement(ctx, stmt) ==
    IF ctx.refused \/ Refuses(ctx, stmt) THEN [ctx EXCEPT !.refused = TRUE]
    ELSE IF stmt.op # "create" THEN ctx
    ELSE [ctx EXCEPT !.declared = @ \cup {stmt.table},
                     !.dims = IF stmt.dim = NoDim THEN @ ELSE Put(@, stmt.table, stmt.dim)]

Analyze(plan) == FoldLeft(AnalyzeStatement, NewCtx, plan)

(***************************************************************************)
(* The server's context across lines.                                      *)
(***************************************************************************)

Creates(plan) == Retain(plan, LAMBDA stmt : stmt.op = "create")
Redeclared(plan) == {stmt.table : stmt \in Range(Creates(plan))}

\* A declaration for every table known and not declared again by the line itself.
Augmented(known, plan) ==
    SetToSeq({[op |-> "create", table |-> t, dim |-> known[t]] :
                 t \in DOMAIN known \ Redeclared(plan)}) \o plan

Accepts(known, plan) == ~Analyze(Augmented(known, plan)).refused

\* A mutant of Recorded: a table declared again keeps the dimension it had.
RecordedOnce(known, plan) ==
    FoldLeft(LAMBDA map, stmt : IF stmt.table \in DOMAIN map THEN map
                                ELSE Put(map, stmt.table, stmt.dim), known, Creates(plan))

Recorded(known, plan) ==
    FoldLeft(LAMBDA map, stmt : Put(map, stmt.table, stmt.dim), known, Creates(plan))

\* A mutant of SeedDeclared: the memories' tables are forgotten.
SeedDeclaredRoot(st) == st.tables

\* The tables of the root and of every memory. Of tables with the same name the last
\* memory's is found; which memory is the last is left open.
SeedDeclared(st) ==
    LET tables(m) == st.memories[m].tables
        owners(t) == {m \in DOMAIN st.memories : t \in DOMAIN tables(m)}
    IN  [t \in DOMAIN st.tables \cup UNION {DOMAIN tables(m) : m \in DOMAIN st.memories} |->
            IF owners(t) = {} THEN st.tables[t] ELSE tables(CHOOSE m \in owners(t) : TRUE)[t]]

(***************************************************************************)
(* The database.                                                           *)
(***************************************************************************)

\* A mutant of Logged: the switch to a memory changes nothing and is not logged.
LoggedUnscoped(plan) ==
    Retain(plan, LAMBDA stmt : stmt.op \in {"create", "insert", "relate", "forget", "prune"})

Logged(plan) ==
    Retain(plan, LAMBDA stmt : stmt.op \in Mutations \cup {"prune", "memory"})

\* replay_wal executes the frames and ignores what fails: "failed" only remembers it.
\* The history in the main file is not there for a compaction in the log to keep from.
Replayed(plan) == FoldLeft(ExecuteInContext, AtRoot(disk), Logged(plan))

TotalClock(st) == st.clock + SumFunction([m \in DOMAIN st.memories |-> st.memories[m].clock])

\* ensure_history: what a plan that reads the history finds before the history in
\* memory. The range is claimed once; a stale one addresses bytes of a file that has
\* been replaced, which decode as nothing, the new file's history, some other history,
\* or not at all (ClaimFails). A new file with the old one's bytes is not told apart.
Claimed(plan) ==
    CASE ~Temporal(plan) \/ pending = "none" -> {<<>>}
      [] Temporal(plan) /\ pending = "fresh" -> {tail}
      [] OTHER                              -> Decodings \cup {<<>>, tail}

ClaimFails(plan) == Temporal(plan) /\ pending = "stale"

PendingAfter(plan) == IF Temporal(plan) THEN "none" ELSE pending

\* A mutant of Run: what has been read comes behind the history in memory.
RunReadLast(plan, read) == ExecutePlan([store EXCEPT !.history = @ \o read], plan)

Run(plan, read) == ExecutePlan([store EXCEPT !.history = read \o @], plan)

\* The store a plan leaves when it has run, or failed, with what it has read.
Applied(c, read) ==
    /\ TotalClock(c.store) <= MaxClock /\ Len(c.store.history) <= MaxHistory
    /\ store' = c.store
    /\ garbled' = (garbled \/ (pending = "stale" /\ read # <<>>))

\* StoreFile::checkpoint: the new file ends in the history in memory, without what was
\* left undecoded, and a range that is still pending is one of the old file.
Checkpoint(st, range) ==
    /\ disk' = SnapshotOf(st) /\ saved' = TRUE /\ tail' = st.history
    /\ pending' = IF range = "none" THEN "none" ELSE "stale"
    /\ behind' = FALSE

\* The plan succeeds. Its frames are logged, or a checkpoint follows.
Commit(plan) ==
    \E read \in Claimed(plan) :
        LET c == Run(plan, read)
            d == Replayed(plan)
        IN  /\ ~c.failed /\ Applied(c, read)
            /\ \/ /\ disk' = d.store /\ misread' = (misread \/ d.failed)
                  /\ pending' = PendingAfter(plan)
                  /\ UNCHANGED <<saved, tail, behind>>
               \/ Checkpoint(c.store, PendingAfter(plan)) /\ UNCHANGED misread

\* The range cannot be decoded, or a statement fails: those before it have been
\* applied, and nothing is logged.
Abort(plan) ==
    /\ \/ ClaimFails(plan) /\ UNCHANGED <<store, behind, garbled>>
       \/ \E read \in Claimed(plan) :
             LET c == Run(plan, read)
             IN  /\ c.failed /\ Applied(c, read)
                 /\ behind' = (behind \/ SnapshotOf(c.store) # SnapshotOf(store))
    /\ pending' = PendingAfter(plan)
    /\ UNCHANGED <<fileVars, misread>>

(***************************************************************************)
(* nql-server.                                                             *)
(***************************************************************************)

Init ==
    /\ host = "none"
    /\ store = EmptyStore /\ disk = EmptyStore
    /\ saved = FALSE /\ tail = <<>> /\ pending = "none"
    /\ declared = <<>>
    /\ drift = FALSE /\ behind = FALSE /\ misread = FALSE /\ garbled = FALSE

\* ERR from the analyzer.
RefuseLine(line) ==
    /\ host = "server" /\ ~Accepts(declared, line)
    /\ UNCHANGED vars

\* OK: the tables of the line are recorded.
HandleLine(line) ==
    /\ host = "server" /\ Accepts(declared, line)
    /\ Commit(line)
    /\ declared' = Recorded(declared, line)
    /\ UNCHANGED <<host, drift>>

\* ERR from the engine: nothing is recorded.
FailLine(line) ==
    /\ host = "server" /\ Accepts(declared, line)
    /\ Abort(line)
    /\ drift' = (drift \/ store'.tables # store.tables)
    /\ UNCHANGED <<host, declared>>

(***************************************************************************)
(* nql-mcp: a tool parses its arguments, and is the plan it runs. What may *)
(* be refused is a set with one plan, or none.                             *)
(***************************************************************************)

CreateTable(table, dim) == <<[op |-> "create", table |-> table, dim |-> dim]>>
InsertRecord(id, emb) ==
    <<[op |-> "insert", id |-> id, body |-> "body", emb |-> emb, at |-> 0]>>
RelateRecords(from, to) == <<[op |-> "relate", from |-> from, to |-> to, at |-> 0]>>
ForgetRecord(id) == <<[op |-> "forget", id |-> id]>>

\* What may be left out is <<>>, or the one value it has. A match, as of a time or now;
\* the closure tool is alike.
MatchPath(id, as_of) ==
    <<IF as_of = <<>> THEN [op |-> "match", id |-> id]
      ELSE [op |-> "match_as_of", id |-> id, ts |-> as_of[1]]>>

\* A select in a memory switches to it first, and so creates it.
SelectRows(table, memory, order, as_of) ==
    (IF memory = Root THEN <<>> ELSE <<[op |-> "memory", name |-> memory]>>)
    \o <<IF as_of = <<>> THEN [op |-> "select", table |-> table, order |-> order, knn |-> FALSE]
         ELSE [op |-> "as_of", table |-> table, order |-> order, knn |-> FALSE, ts |-> as_of[1]]>>

\* A JSON value is <<kind, content>>.
Absent == <<"absent">>

ParseRid(text) == IF Len(text) = 2 /\ ~BadId(text) THEN {text} ELSE {}

ParseEmbedding(json) ==
    IF json[1] = "array" /\ \A i \in DOMAIN json[2] : json[2][i][1] = "number"
    THEN {Len(json[2])} ELSE {}

ParseBody(json) == IF json[1] = "object" THEN {"body"} ELSE {}

Has(object, key, kind) == key \in DOMAIN object /\ object[key][1] = kind

ParseStep(json) ==
    /\ json[1] = "object"
    /\ Has(json[2], "direction", "string") /\ json[2].direction[2] \in {"out", "in"}
    /\ Has(json[2], "name", "string")
    /\ "where" \in DOMAIN json[2] =>
          /\ json[2].where[1] = "object"
          /\ Has(json[2].where[2], "field", "string") /\ "value" \in DOMAIN json[2].where[2]

ParseSteps(json) ==
    IF json[1] = "array" /\ json[2] # <<>> /\ \A i \in DOMAIN json[2] : ParseStep(json[2][i])
    THEN {"steps"} ELSE {}

InsertTool(id, body, embedding) ==
    {InsertRecord(r[1], r[3]) :
        r \in ParseRid(id) \X ParseBody(body)
              \X (IF embedding = Absent THEN {NoDim} ELSE ParseEmbedding(embedding))}

RelateTool(from, to, props) ==
    {RelateRecords(r[1], r[2]) :
        r \in ParseRid(from) \X ParseRid(to) \X (IF props = Absent THEN {"body"} ELSE ParseBody(props))}

ForgetTool(id) == {ForgetRecord(r) : r \in ParseRid(id)}

SelectTool(table, memory, query, order, as_of) ==
    {SelectRows(table, memory, r[2], as_of) :
        r \in (IF query = Absent THEN {NoDim} ELSE ParseEmbedding(query))
              \X ({order} \cap {"none", "similarity", "salience", "score", "votes", "feedback", "recency"})}

MatchTool(start, steps, as_of) ==
    {MatchPath(r[1], as_of) : r \in ParseRid(start) \X ParseSteps(steps)}

AsOfs == {<<>>} \cup {<<ts>> : ts \in Times}

Calls ==
    {{line} : line \in Lines}
    \cup {{CreateTable(t, dim)} : t \in Tables, dim \in Dims \cup {NoDim}}
    \cup {InsertTool(text, body, emb) : text \in Texts, body \in Jsons, emb \in Jsons \cup {Absent}}
    \cup {RelateTool(x, y, props) : x, y \in Texts, props \in Jsons \cup {Absent}}
    \cup {ForgetTool(text) : text \in Texts}
    \cup {SelectTool(t, m, q, o, as_of) : t \in Tables, m \in Memories \cup {Root},
              q \in Jsons \cup {Absent}, o \in {"none", "best"}, as_of \in AsOfs}
    \cup {MatchTool(text, steps, as_of) : text \in Texts, steps \in Jsons, as_of \in AsOfs}

CalledPlans == UNION Calls

\* ERR before the mutex is taken.
RefuseTool ==
    /\ host = "mcp" /\ {} \in Calls
    /\ UNCHANGED vars

CallTool(plan) ==
    /\ host = "mcp"
    /\ Commit(plan)
    /\ UNCHANGED <<host, declared, drift>>

FailTool(plan) ==
    /\ host = "mcp"
    /\ Abort(plan)
    /\ UNCHANGED <<host, declared, drift>>

(***************************************************************************)
(* nql-cli. A script is one input.                                         *)
(***************************************************************************)

RunInput(plan) ==
    /\ host = "cli"
    /\ Commit(plan)
    /\ UNCHANGED <<host, declared, drift>>

Close ==
    /\ host' = "none" /\ store' = EmptyStore
    /\ pending' = "none" /\ behind' = FALSE
    /\ UNCHANGED <<fileVars, declared, drift, misread, garbled>>

\* An input that fails ends the program.
FailInput(plan) ==
    /\ host = "cli"
    /\ ClaimFails(plan) \/ \E read \in Claimed(plan) : Run(plan, read).failed
    /\ Close

\* :clear puts an empty database in memory in the place of the file's, which is
\* closed. The program runs on, but as one without a file.
Clear == host = "cli" /\ Close

\* :flush
Flush ==
    /\ host = "cli"
    /\ Checkpoint(store, pending)
    /\ UNCHANGED <<host, store, declared, drift, misread, garbled>>

(***************************************************************************)

\* Server::open; the other programs have no such context.
DeclaredAtOpen(next) == IF next = "server" THEN SeedDeclared(disk) ELSE <<>>

\* The program ends, at any moment between two lines or calls, and one is started: the
\* history in the main file stays undecoded.
Reopen(next) ==
    /\ host' = next
    /\ store' = disk /\ pending' = IF saved THEN "fresh" ELSE "none"
    /\ declared' = DeclaredAtOpen(next)
    /\ drift' = FALSE /\ behind' = FALSE
    /\ UNCHANGED <<fileVars, misread, garbled>>

Serve == \E line \in Lines : RefuseLine(line) \/ HandleLine(line) \/ FailLine(line)

Tool == RefuseTool \/ \E plan \in CalledPlans : CallTool(plan) \/ FailTool(plan)

Repl == Clear \/ Flush \/ \E input \in Lines : RunInput(input) \/ FailInput(input)

Next ==
    \/ Serve \/ Tool \/ Repl
    \/ \E next \in {"server", "mcp", "cli"} : Reopen(next)

Spec == Init /\ [][Next]_vars

(***************************************************************************)
(* Properties.                                                             *)
(***************************************************************************)

\* Whichever program has the file open, and whatever was opened, cleared and flushed
\* before: unless a plan has failed since, a reopen finds the store the program works
\* on, every memory with its history; the root's history is StoreFile's matter.
FileCurrent ==
    host # "none" /\ ~behind => SnapshotOf(disk) = SnapshotOf(store)

\* While no line that failed has changed a table and there are no memories, the
\* analyzer's verdict on a line of one INSERT or SELECT is the engine's: every table
\* the engine knows is known, with its dimension, whatever was declared, by whom,
\* before or after whichever restart.
AnalyzerAgrees ==
    host = "server" /\ ~drift /\ store.memories = <<>> =>
        /\ \A id \in Ids, emb \in Dims \cup {NoDim} :
              Accepts(declared, InsertRecord(id, emb)) <=>
                  /\ id[1] \in DOMAIN store.tables \cup BuiltinTables
                  /\ ~ExecutePlan(store, InsertRecord(id, emb)).failed
        /\ \A t \in Tables :
              Accepts(declared, SelectRows(t, Root, "none", <<>>)) <=> t \in DOMAIN store.tables \cup BuiltinTables

\* A restart forgets no table: what a line has declared, at the root or in a memory,
\* is found in the file, pruned or not, whatever plans have failed in between.
RestartKeepsTables ==
    host = "server" => DOMAIN declared \subseteq DOMAIN SeedDeclared(disk)

\* The histories that can be asked for, now or after a reopen: the memories', and the
\* root's unless a stale range has decoded as something.
HistoriesOf(st) == {st.memories[m].history : m \in DOMAIN st.memories}
Undecoded == IF pending = "fresh" THEN tail ELSE <<>>

Histories ==
    HistoriesOf(store) \cup HistoriesOf(disk)
    \cup IF garbled THEN {} ELSE {Undecoded \o store.history, tail \o disk.history}

\* No record enters a block with another dimension than the block's table has at that
\* time, however wrong the analyzer's context is: by the block's own history, with a
\* part of it left in the file, lost to a checkpoint or not.
DimensionsKept ==
    \A history \in Histories : \A i \in DOMAIN history :
        LET stmt == history[i].stmt
            known == DeclaredBy(SubSeq(history, 1, i - 1), <<>>)
        IN  stmt.op = "insert" /\ stmt.id[1] \in DOMAIN known /\ known[stmt.id[1]] # NoDim
            => stmt.emb \in {NoDim, known[stmt.id[1]]}

\* What the comment in replay_wal says and the code does not keep: a logged
\* statement cannot fail when it is replayed.
LoggedReplays == ~misread
==============================================================================
