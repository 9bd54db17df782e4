# nqlite in TLA+

TLA+ models, TLC runs and machine-checked proofs for nqlite, an embedded
records-and-edges store with a small query language. The models are translated from
the Rust sources; `PROJECT.json` maps every definition to the lines it stands for.

## 1. The system

| Part | State | Operations |
| --- | --- | --- |
| `nql-ir` | `Store`: records, edges, vector dimensions, logical clock, mutation history, memory blocks (each a store), table index | the statements; `log_mutation`, `rebuild_tables`, the compaction snapshot, the value order |
| `nqlite/engine.rs`, core | none of its own; a plan's memory context is a local variable | `execute_plan`, `execute_in_context`, `execute_statement`, `replay_as_of`, `history_since`, `prune_history` |
| `nqlite/engine.rs`, retrieval | none | `run_select`: filter, rank (kNN, BM25, fusion, scores), order, offset, limit, project |
| `nqlite/engine.rs`, traversal | none | `run_match`, `run_match_count`, `run_closure` |
| `nqlite/storage.rs`, `lib.rs` | main file, temporary file, write-ahead log, lock file; per handle the store, `wal_len`, the undecoded history range | `open`, `load`, `execute`, `append`, `checkpoint`, `flush`, drop |
| `nqlite/index.rs` | vectors by id; for HNSW the graph, the live map and the tombstones | `upsert`, `remove`, `search`, `cosine_similarity` |
| `nqlite/bm25.rs` | the tokens of each text, counts over all of them; built per query | `Bm25Index::new`, `score` |
| `nql/lexer.rs`, `parser.rs` | a cursor in the text with its line and column; a position in the tokens | `next_token`, `tokenize`; `parse`, `parse_statement` |
| `nql/analyzer.rs` | the tables and dimensions declared so far in a plan | `analyze` |
| `nql-server`, `nql-mcp`, `nql-cli` | one database; the server's `declared` map; the MCP server's mutex | one plan per line, one plan per tool call, one plan per input, `:clear`, `:flush` |
| `harness.rs`, `nql-bench` | none | recall and precision of a list of rows; measure |

How they interact. Text becomes statements (`nql`), a plan is a vector of statements,
`Database::execute` runs it against the in-memory store, appends its mutating
statements to the log one frame at a time, closes it with a `ContextReset` frame, and
checkpoints when the log is long. Everything is a synchronous call under `&mut self`;
concurrency exists between processes (the lock file) and, above all, between the
program and its own crashes: what is on disk when the process stops meets a later open.

What is hard here:

* **Crash recovery.** A checkpoint is four system calls, a plan is several synced
  frames, recovery is a replay and a truncation. Any of them can be the last one.
* **Failed calls that do not stop the handle.** `execute` may return an error from the
  plan, from an append or from the checkpoint, and the same handle goes on.
* **State read once and used later.** The history tail is an offset remembered at load
  and decoded at the first temporal statement, possibly after a checkpoint.
* **Temporal reads over compacted history.** `AS OF` re-executes an arbitrary mixture of
  statements, some of which have been replaced by a snapshot, in nested memories.
* **Two processes.** With `flock` a crash frees the lock; without it, it does not.
* **Copies of one fact.** The analyzer's tables, the engine's dimensions, the table index
  and the history say the same in four places, and restarts rebuild some from others.
* **A language without separators.** Semicolons are optional, keywords are names, clauses
  come in any order: where one statement ends is decided by lookahead.
* **Numbers.** Integers beside floats, saturating counts, and similarities that are NaN.

Per component, what makes it correct: temporal reads are exact or refused (engine);
memories are isolated (engine); what was acknowledged survives and is found as it was
(storage); one writer (storage); a text means what the grammar says, however it is spaced
(lexer, parser); rows are a deterministic function of store and query,
in the documented order and number (retrieval); walks are exactly the paths of the graph
(traversal); an index returns live vectors, each once (index); the server accepts what
the engine would accept (analyzer, server).

## 2. Modules

    NqStore                  the store and what a statement does to it: pure operators
      StoreProofs            the shape of stores, folds over histories, declared tables,
                             stores that differ in the root's history only
      Engine                 plans running against an in-memory database
        MCEngine             its TLC instance
        EngineProofs         isolation of the blocks, the histories, the temporal reads
      Session                server, MCP tools and command line over one file
        MCSession            its TLC instance (MCSession, MCLogReplays)
        SessionProofs        the file is the store, tables survive, the analyzer is right
      StoreFile              a database on disk: handles, files, crashes
        MCStoreFile          its TLC instance (MCStoreFile, MCStoreFileIo, MCHistoryLost,
                             MCContextLeak, MCAckedLost)
        StoreFileProofs      types, the lock, the main file, the order of the log's frames,
                             what survives; StoreFile implements DurableLog; what a load
                             finds, and the history read late
    Folding                  induction over the naturals and over sequences; folds of any
                             operator, finite sums, orders and ranks (for proofs, no code)
    DurableLog               what a file-backed database promises: abstract, no files
    Traversal                MATCH, MATCH COUNT and CLOSURE over a graph
      MCTraversal            its TLC instance
      TraversalProofs        the walks of MATCH and their scores, the counts of MATCH COUNT,
                             soundness, completeness and distances of CLOSURE
    NqValue                  values, and comparing numbers
      ValueOrder             the total order of all values, and their equality, by depth
    Collections              what Rust's maps, sums and sorts do (external)
      Bm25                   tokens and lexical scores
      Retrieval              SELECT, over ValueOrder and Bm25
        MCRetrieval          its TLC instance
        RetrievalProofs      the order of values; pages and rows, for any stores and queries
      VectorIndex            the exact and the approximate vector index
        MCVectorIndex        its TLC instance
        VectorIndexProofs    both searches, for any vectors and any number of calls
    Lexer                    characters to tokens
      Parser                 tokens to statements
        Grammar              statements to tokens: the reference, no code
          Language           a call of parse or parse_statement
            MCLanguage       its TLC instance: the texts

**NqStore** (`nql-ir/src/lib.rs`, `engine.rs` 83-287 and 456-612). `Execute` is
`execute_statement` on a statement that does not fail, `Fails` its error paths,
`ExecuteInContext` the memory routing, `ExecutePlan` a whole plan, `ReplayAsOf` and
`HistorySince` the two temporal reads, `PruneHistory` the compaction, `NeedsHistory` which
statements make a handle decode its tail. Ids are pairs,
bodies are opaque, of a vector only its length is kept. Everything is a function or a
fold, so that theorems may use it; `Retain`, the filter of a sequence, is a fold too,
because the `SelectSeq` of the standard module is recursive.

**Engine** has one action per kind of statement (`Mutate`, `SwitchMemory`, `Prune`,
`Read`, `FailPlan`) between `BeginPlan` and `EndPlan`. Three history variables remember
what the engine may forget: every past state of every block (`past`), every mutation
(`deltas`), the time of the last compaction (`prunedAt`).

**StoreFile** has one action per system call that may be the last before a crash. Disk:
`lock`, `main`, `tmp`, `wal`. Per handle: `pc`, `mem` (store and replay context), `tail`
(`hist_range`, as the image it points into), `walLen`, and the plan being logged. A log
frame is a statement, whole or torn; a main file is a core frame and a history tail. The
log loop of `execute` is `LogStatement`, once per frame in statement order, then
`FinishPlan` or `AutoCheckpoint` and `WriteTmp`, `SyncTmp`, `Rename`, `TruncateWal`. An
open is `Open`, `LoadMain`, `ReplayFrame`..., `EndReplay`. Failures are actions of their
own: `ExecuteFails` (the plan), `AppendFails`, `CheckpointFails`, `ClaimFails` (the tail
cannot be read, or its bytes have been replaced and do not decode; the range is gone either way),
`LoadFails`, `Crash` at any point, with whatever an append in progress
may leave. An open that finds the lock taken changes nothing and is not an action.

**DurableLog** is the promise without the files: a handle enters, submits plans, parts of
plans are kept, a plan all of whose parts are kept is acknowledged, a handle leaves. What
is kept stays kept and is a beginning of every plan. `Promised` in StoreFile is its
instance: `inside` is whoever has not `closed`, `plans` are the positions that a plan logs,
`kept` is `KeptTags`, the tags that an open would find now, in the main file or in the
readable part of the log. A crash is a `Leave`, and may keep one part more: the frame that
was being appended. A checkpoint, which takes the tags from the log into the main file in
four calls, is four stutters.

The other variables of StoreFile carry no code. `issued` and `acked` record what clients
sent and were told; frames and images carry tags saying which statement of which plan
they hold; `done` is the tags in a handle's memory; `eager` is the history a handle
would have had without lazy decoding; `expected` is what the next open must find when
that is determined; `dirty` marks memory that holds effects never logged.

**Traversal** (`engine.rs` 614-811) is the three loops as they are: `Follow...` and
`Skip...` look at one edge, `Step...` ends a step of the path, and for CLOSURE
`VertexClosure` and `RoundClosure` are the turns of the two loops around the edges. The
adjacency lists of `run_closure` are the edges in append order with the frontier's
vertex at their near end. A step's filter is the set of edge properties it accepts;
`weight.unwrap_or(0.0)` is a natural number. The module takes the graph as given: with
`AS OF` it is the graph of the store that `ReplayAsOf` (NqStore) rebuilds.

**NqValue** and **ValueOrder** (`nql-ir/src/lib.rs` 61-193) are `Value`, `Value::cmp_total` and the
derived `PartialEq`, which differ on purpose: `1` and `1.0` are unequal and neither is below the
other. Integers have a width (`MaxInt`); floats are counted in halves, which is enough to
lie between two integers, on one, or at and beyond the ends of `i64`; zeros have a sign.
On arrays and documents the code recurses. `CmpNested` and `SameNested` are functions of how deep
a value is nested (`Within(d)` has the values up to depth `d`), each level with the one below as
an argument; no value of a store is deeper than `MaxDepth`, which may be any number.

**Retrieval** (`engine.rs` 298-455 and 855-1269) is `run_select`, one action per stage:
`Scan`, then `CountRow` or `ScoreRows`, `RefuseOrder` or `OrderRows`, `SkipRows`,
`CapRows`, `Project`. `pc` is the place in the function, `candidates` and `rows` its
locals. Filters are sequences of terms (a nested `AND` is flat) or, like `Filter::Bm25`, a text and nothing else; `MatchesTerm` and `ComputeScore`
are `matches_filter` and `compute_score`. A record comes with its cosine
similarity (how it is computed is VectorIndex's subject) and with its text. What is computed
from votes, ages and ranks is a multiple of `1 / Unit` or `1 / RankUnit`, rounded down, instead
of an `f32`: how an `f32` rounds is outside the model. `Unit` is a constant, 120 in the run.
With `AS OF` the store is that of `ReplayAsOf` (NqStore).

**Collections** is what the code has from Rust's library: `BTreeMap::insert`, iteration in the order
of the keys, `Iterator::sum`, and `slice::sort_by` as what it promises, an arrangement without
neighbours the wrong way round (one, if the comparison is a total order).

**Bm25** (`bm25.rs` 43-207) is `tokenize`, `Bm25Index::new` as a fold over the records, and
`bm25_score`. The logarithm is a table, `Idf`, in thousandths; the rest is exact fractions.

**VectorIndex** (`index.rs` 74-222, `cosine_similarity`) gives both indexes the same calls.
Cosine is squared with its sign, which keeps its order; a sum above `MaxFloat` is infinite, and
so the result may be NaN. `Sorts` may then be several arrangements. The graph behind the HNSW
wrapper is external: `GraphSearch` returns any of its entries.

**Lexer** and **Parser** (`lexer.rs`, `parser.rs`) are recursive operators with the names and
the structure of the functions. A text is a sequence of characters and of words that the
lexer treats alike (`Letters`: a keyword is one element and not seven); `Wide` is a character
of two bytes, because columns count bytes, and `Huge` digits too many for an `i64`. A cursor
is `[src, pos, line, col]`; what a function returns is the rest and a value, or an error with
its place. **Grammar** is the reference: `Program` writes statements as tokens after
`spec/nql.md`, `Spelling` tokens as characters. **Language** runs `tokenize` and `parse`, one
token or statement per step.

**Session** (`nql-server/src/lib.rs` 26-139, `analyzer.rs` 56-199, the tools of
`nql-mcp/src/lib.rs`, `nql-cli`) puts the programs on top. `host` is the program that has the
file open, `store` the engine's store, `disk` what a reopen would find: a plan that succeeds is
replayed onto it (`Replayed`, which goes on after an error like `replay_wal`) or replaced by a
checkpoint. As in the code, the root's history in the main file (`tail`, once the file is `saved`) is not
loaded: `Reopen` leaves it where it is and remembers the range (`pending`), the frames of the log are
replayed without it, the first plan that reads the history claims it (`Claimed`), and `Checkpoint`
writes the history in memory, which is without it if nobody has asked. After a
checkpoint the range is `"stale"` and decodes as nothing, as the new tail, as a member of
`Decodings`, or not at all (`ClaimFails`). `declared` is the server's context; `Accepts` is the analyzer's verdict on a line
with the synthetic declarations in front. `HandleLine`, `FailLine` and `RefuseLine` are the
three outcomes of a line; `CallTool`, `FailTool` and `RefuseTool` those of a tool, whose
arguments are parsed from JSON first (`ParseRid`, `ParseEmbedding`, `ParseSteps`) and which is
the plan it runs, as of a time if it is given one; `RunInput`, `FailInput`, `Flush` and `Clear` those of the command line. After
`Clear` the file is closed and nobody serves it (`host` is `"none"`). `Reopen` ends the program
in charge and starts one; the lock keeps them apart. `drift`, `behind`, `misread` and `garbled`
carry no code: a failed line has changed a table, memory holds what the file has not, a frame has
failed to replay, a stale range has decoded as a history.

## 3. Runs

Each run is one question. The 300-second budget of a run bounds the sizes; all bounds
are constants: `MaxClock` (mutations of all blocks together), `MaxHistory` (in Session the root's
history, which grows by what a stale range decodes as), `MaxPlans`, `MaxStops`
(closes, crashes and failed calls together), `MaxFlushes`, and `Threshold`, the
checkpoint threshold counted in frames instead of bytes; `Decodings`, the histories that the
bytes at a stale range may decode as; in Traversal `MaxEdges`, and
`MaxCount`, the largest `u64`, so small that it is reached; in Retrieval `MaxInt`, the
largest `i64`, `MaxDepth`, how deep values are nested (two: arrays and documents with one in the
other), and `Families`, the queries asked; in VectorIndex `MaxUpserts`, `MaxRemoves`
and `MaxFloat`, the largest `f32`; in Language `Sources`, the texts. `CHECK_DEADLOCK` is off
because a system that has used up its bounds stops, and so does a query that returned.

| Run | Shows | Size |
| --- | --- | --- |
| `engine` | `AsOfExact`, `SinceExact`, `HorizonExact`, `TablesRebuilt`, `MemoryIsolation` | 4 mutations, 2 blocks, about 570 000 states |
| `storefile` | `RecoveryInv`, `LogInOrder`, `ReopenRestores`, `CounterCoversLog`, `LazyTailExact` | 2 handles, 3 plans, 3 stops, about 1.6 million states |
| `storefile_io` | `SingleWriter`, `MainWhole`, `AckedDurable`, `StoresDurably` (the refinement) with failing calls and a lock file that outlives a crash | 2 plans, 3 stops, about 210 000 states |
| `history_lost` | a checkpoint forgets the history that was never decoded | violation |
| `context_leak` | a lost `ContextReset` moves later plans into a memory block | violation |
| `acked_lost` | frames acknowledged behind a torn one are cut off | violation |
| `traversal` | `MatchExact`, `MatchScore`, `CountExact`, `ClosureExact`, `ClosureSound`, `ClosureDepth`, `Terminates` | 3 ids, 3 edges, 2 steps, about 560 000 states |
| `retrieval` | `OrderTotal`, `PredicatesPartition`, `VotesAgree`, `PageExact`, `RowsShown`, `LexicalMonotone` | 3 records, 20 values, 7 texts, 3 votes, about 295 000 states |
| `session` | `FileCurrent`, `AnalyzerAgrees`, `RestartKeepsTables`, `DimensionsKept` | 2 mutations, 8 lines, all tools and commands, about 367 000 states |
| `log_replays` | an acknowledged insert that cannot be replayed after a failed plan | violation |
| `language` | `Located`, `Respelled`, `RoundTrip`, `Canonical`, `Splits` | about 15 000 texts, about 212 000 states |
| `index` | `ExactSearch`, `HnswSound` | 3 upserts, 2 removes, 5 vectors, about 9 000 states |

Why the bounds are enough. Four mutations make every ordered pair of create / insert /
relate / forget with a compaction before, between and after, at the root and in a
memory, and every time from before the first entry to after the last is asked of every
block in every state. On disk, three plans with a threshold of three frames give a log
over several plans, an automatic checkpoint in the middle, and plans after it; three
stops give a crash, a crash during the recovery from it, and another one. Plans cover
the root and a memory, a compaction, a temporal read that claims the tail, and a plan
whose last statement fails after the first took effect. Handles are symmetric; nothing
else is treated as a symmetry. Three edges make a cycle with an exit, a pair of parallel
edges with a way back, a self-loop followed by a step, a dangling end and a filtered
edge, in every append order; a pair of parallel edges and a self-loop, walked out and
in, make more walks than `MaxCount`. Distances reach two, where breadth-first and
depth-first orders differ.

A `SELECT` is deterministic, so `retrieval` is a check over inputs, in five families:
every triple of twenty values (three is what transitivity needs; the values are one of
each type and the neighbours of every boundary of `cmp_int_float`) sorted up and down;
every pair of filter terms; every mode (scan, kNN, BM25, both, with caps below, at and
above the number of rows) with every kind of order, an offset and a limit, over every
assignment of tied and untied scores; unknown sort fields; every list of up to three
votes with weights, values, both or neither. `PageExact` and `RowsShown` compare the
pipeline with counting: the `r`-th row is the record that `offset + r - 1` others come
before, in the order the documentation's table gives; no sorting is involved.

A text is parsed in one way, so `language` is a check over texts too: every string of up to three or four of
the characters that make tokens, strings and numbers; every form of every statement in five
spacings (`Gaps`: blanks, both comments, nothing where nothing is needed), with every clause
and option present and absent; every pair of fifteen statements with nothing between them; any
three clauses of `SELECT` in any order; every single-token edit of fifteen statements; every
two of some thirty texts joined. `RoundTrip` and `Canonical` compare with `Grammar` in both
directions: what can be said is understood, and what is understood can be said.

In `index` every search, with every vector as a query and every `k`, is asked in every
state; for the approximate index with whatever the graph may find. Three upserts over two ids
give an id that is replaced, removed and inserted again, and a vector whose norm overflows.

In `session` two mutations are a declaration and another one that fails half-way or is made in a
memory, or a declaration and an insert, with reopens, checkpoints, compactions and temporal reads
anywhere between them; lines declare in front of and behind a statement that fails once the
history has been pruned, and in the memory. A history of three entries is a declaration, an insert
and a snapshot, or a snapshot that a stale range has decoded as in front of two entries.
`log_replays` has one more of each: its insert comes after two declarations.

What the properties leave out, and why:

* `ReopenRestores` speaks of the states in which the next load is determined: not in the
  middle of logging a plan, not between rename and truncation, and not while memory
  holds effects that were never logged: a crash there leaves half a plan, or a log that is
  replayed onto an image that contains it (findings without a run).
* `AckedDurable`, `RecoveryInv` and `StoresDurably` follow statements, not their effects: what has been
  acknowledged is replayed. That a replayed statement has the effect it had is
  `ReopenRestores`; where it has not, because an earlier plan failed, is `log_replays`.
* `AnalyzerAgrees` speaks of lines of one statement, without memories and failed
  declarations: within a line, after a restart with memories, and after such a failure
  the analyzer and the engine differ (findings without a run).
* `OrderTotal` speaks of values with the one NaN that the property tests of the code
  use. With its sign set, the order has a cycle (a finding without a run). Its last part,
  that equal values are equal in the order, is not true of vectors with zeros of both
  signs: `=` takes the two zeros for one, `f32::total_cmp` puts one below the other.
* `FileCurrent` stops at a failed plan, whose effects are in memory only, and starts again at
  the next checkpoint or restart. It speaks of records, edges, dimensions, tables, clock and
  memories, with their histories, and not of the root's history, which the file keeps apart and a
  checkpoint may lose (`history_lost`); when it is exact is `LazyTailExact`.
* `DimensionsKept` asks nothing of a root's history that a stale range has been read into: what
  bytes decode as need not be anybody's history.
* `Respelled` takes its texts from `Spelling`, which puts a space between `<` and a minus sign
  or a comment (a finding without a run).
* `ExactSearch` asks for the right rows in the right order as long as no similarity is NaN,
  and for the right number of different records with their scores in any case. `HnswSound` does
  not say that an id is there once: one that was upserted again may be there twice (a finding).
* `LexicalMonotone` takes the logarithm's table as given: that it is positive is the library's
  part. Rounded down to too coarse a unit the score of a token may be 0; `IdfFine` says how fine
  the unit has to be, and MCRetrieval assumes of its stores and its table that it is.
* `VotesAgree` compares scores rounded down to `1 / Unit`, which must be fine enough for them not
  to become equal: `UnitFine` says how fine, and MCRetrieval assumes it of its stores.
* `LazyTailExact` stops at a handle's own checkpoint (`history_lost`) and at a log with
  a `PRUNE` (a finding without a run so far: the replayed compaction does not see the
  tail, and the merged history then has an older snapshot in front).
* `ClosureExact` and the distances of `ClosureDepth` speak of one step. With several
  steps the depth goes on counting, so a score is a number of rounds and no distance,
  and the result may be too small: the second step is not expanded from the start. `ClosureSound` and the order
  of the rows hold for any path.
* `MatchScore` leaves out the start, whose score is 0 even if an edge leads back to it.
* A failed append leaves nothing or the whole frame in `storefile_io`; the third
  outcome, a torn frame, is the subject of `acked_lost`, and the theorems about
  durability and about the refinement name it as their assumption.

**Fairness.** Engine, StoreFile, DurableLog, Retrieval, Language, VectorIndex and Session assume none and claim no liveness: every operation is
a synchronous call that returns, and nothing in the code retries or waits. A second
opener fails at once with `Locked`. Traversal is where a call might not return, because
CLOSURE loops until nothing new is found. It assumes weak fairness of `Next`: the three
functions run in one thread and wait for nothing, so a loop that has a next turn takes
it.

## 4. Proofs

Eight modules hold theorems, each for every value of its constants: any statements, plans and
inputs, any number of handles, mutations, compactions, crashes and failed calls. The bounds of
section 3 are TLC's and no hypothesis of a theorem. The proofs have one lemma per group of
actions and one step per conjunct that the action can disturb.

The constants are assumed to be what the parser and the callers make them, with one restriction:

| Assumption | Module | Why the code justifies it |
| --- | --- | --- |
| `StatementsAssumption` | Engine | a memory's name is an identifier, which is never empty; the empty name stands for the root |
| `FreeIsNoHandle` | StoreFile | the value for "nobody holds the lock" is no handle |
| `PlansAreSequences`, `PlansAreParsed` | StoreFile | a plan is a vector; no text parses as the snapshot that a compaction makes or the `ContextReset` that `Database::execute` appends |
| `LinesAssumption` | Session | the same of the server's lines |
| `DecodingsAreHistories`, `DecodingsAreSequences` | StoreFile, Session | what `postcard` decodes as a history is a vector; of what, nothing is assumed |
| `IdsAssumption` | Session | a restriction: the analyzer refuses an id with an empty part and the engine takes it, so what is said of the two is said of the other ids |
| `GraphsTyped`, `PathsTyped`, `PathsNotEmpty` | Traversal | types, and "at least one step" in the parser |
| `MaxCountAssumption` | Traversal | the largest `u64` is a natural number; no theorem needs how large |
| `MaxIntAssumption`, `MaxDepthAssumption` | NqValue, ValueOrder | the largest `i64` and the depth of the deepest value are natural numbers; no theorem needs how large |
| `VectorsAssumption` | VectorIndex | a vector is a sequence of numbers, here of integers |
| `UnitAssumption` | Retrieval | the model's unit can be halved; the code has none |
| `StoresTyped`, `SelectsTyped` | Retrieval | types: a body has values, none deeper than `MaxDepth`; a text is a sequence of characters, a limit a natural number, four weights or none; similarities and weights are integers because the model counts in fractions |

Five theorems have hypotheses of their own. `IdfTyped` says that the logarithm's table holds
numbers. `StoresHold(Ordinary)` says that no store holds a NaN with its sign set: it is needed, for
where the order has a cycle (the finding about NaN) there is no page that is sorted. `StoresHold(Plain)`
leaves out the zeros with a sign in vectors too, for the last part of `OrderTotal`. Both hold of
the run's stores; the property tests of the code generate no such NaN either. `IdfFine` and
`UnitFine` are about the model's rounding and not about the code: the logarithm of a token, counted
in the unit, is at least the number of documents, and `Unit` exceeds the number of edges by two
and the difference of any two times. For every store there are units so fine (the logarithm is at
least `ln((n + 1) / (n + 1/2))`, which is not 0), and TLC evaluates both for the run's.

### Histories and temporal reads (StoreProofs, EngineProofs)

What a history replays to is a fold over a sequence of any length, so the proofs need induction.
The library's induction theorems take an operator as a parameter, which no installed prover can
instantiate. `Folding` states induction once with the *set* of the naturals, or of the sequences,
for which the formula holds; a proof defines that set, hides its definition, and cites the lemma.
The equations of a fold, at the empty sequence and at one element more, are proved there for a
constant operator `Op`; a module that folds its own operator takes them by an `INSTANCE`.
Beside folds it holds what the proofs about indexes and retrieval share: finite sums do not
depend on an order (`Rearranging`), and in a strict total order of a finite set, a list whose neighbours are
in order has at place `r` the element of rank `r - 1`.

* `BlocksExist`: `Spec => []BlocksTyped`. A plan's context names a block that exists, which
  `execute_in_context` takes for granted when it indexes the map.
* `BlocksIsolated`: `Spec => MemoryIsolation`: no step changes another block, but for its history, and
  that only a `PRUNE HISTORY` at the root. The invariant is the shape of the stores;
  `SameIsReflexive` and `MemoryReplaced` carry the argument, that replacing one memory, or
  compacting all of them, leaves every other part as it is.
* `HistoriesKept`: `Spec => []HistoryInv`, the invariant behind the next four. `AsOfExact` says
  what a read answers now, from the whole history up to a time; what keeps it true is what *every*
  prefix replays to. `HistoryOk` says of each block: its history is declarations, then at most
  one snapshot, then one entry for each mutation since (`SnapshotAt`, `EntriesAfter`); each
  prefix from the snapshot on replays without an error to what the block was then
  (`PrefixesReplay`); the rows behind any time are those of the mutations (`RowsAgree`); the
  history declares the block's tables. A mutation adds an entry and a prefix (`MutationOk`); a
  compaction replaces the front, and what must be shown is that the declarations it keeps replay
  without an error and that the snapshot restores the state whatever came before
  (`DeclarationsReplay` is the reason that keeping them is harmless).
* `AsOfIsExact`, `SinceIsExact`, `HorizonIsExact`, `TablesAreRebuilt`: the four properties of the
  run `engine`. AS OF answers what was there, and its replay never fails; HISTORY SINCE returns the
  mutations after the time; both are refused below the last compaction and nowhere else; a
  load finds the table index in the history.

### One file, and what survives (StoreFileProofs)

* `TypeCorrect`: `Spec => []TypeOK`. `TypeOK` is not inductive alone: a replay position
  stays inside the log only because nobody else shortens the log, so it is proved
  together with `LockHeld` (a handle inside the store holds the lock).
* `OneWriter`: `Spec => []SingleWriter`, from `LockHeld`.
* `MainFileWhole`: `Spec => []MainWhole`, from "whoever is about to rename has a
  complete temporary file", which again needs the lock: another handle would otherwise
  overwrite it.
* `LogIsInOrder`: `Spec => []LogInOrder`, under no assumption about faults. The invariant
  (`InPlace`, `LoggedUpTo`) says that a frame is behind everything that ran before it, with
  the earlier frames of its plan, and how far the plan being logged has got: nobody else
  appends meanwhile, and the log is cut at its end or altogether.
* `LogIsCounted`: if no append fails, `Spec => []CounterCoversLog`. An opener counts what it
  finds, and each frame it appends; what a failed append leaves is not counted, hence the
  assumption.
* `Recovers` and `Durable`: if no failed append leaves a torn frame behind a live
  handle, `Spec => []RecoveryInv` and `Spec => []AckedDurable`. The inductive invariant
  follows a plan through the system: what is in the main file or the log is in the
  memory of whoever has recovered (`MemoryCovers`), what was logged of the current plan
  is kept (`CurrentKept`), a checkpoint's image contains the whole log before the log is
  cut (`CheckpointCovers`), and a torn frame is last and is cut before anything follows
  it (`TornOnlyLast`).
* `Implements`: under the same assumption, `Spec => StoresDurably`. Initial states map to
  initial states; every action maps to one of `DurableLog`'s or to a stutter. Beside the
  invariant of `Durable` this needs `OrderInv`: what is kept, and what a handle inside has in
  memory, is a beginning of every plan. Without it a checkpoint could keep the third statement
  of a plan and not the second, which `DurableLog` does not allow. A crash is a `Leave` that keeps
  whatever the append in progress has left (`LeavingLeaves`).

The assumption of the last two is needed: `acked_lost` is the counterexample without it.

### What a load finds (StoreFileProofs)

* `RecoveryRestores`: `Spec => []ReopenRestores`, under no assumption about faults. `ReopenRestores`
  speaks of a handle that has just loaded; the invariant, `RestoreInv`, speaks of the files at every
  moment. `Recover(main, wal)` is what a recovery would find if it ran now, and the conjuncts say how it
  relates to memory in each place of the code: between plans it is the memory (`Settled`); while a plan
  is logged, there is a store with which the plan began such that memory is that store after the whole
  plan and the recovery is that store after the statements logged so far (`Logging`); behind a rename
  the new main file loads to the memory (`Imaged`); a replay in progress is the recovery from the
  frames it has passed (`ReplayOk`). `FrameTells` says that a frame's tag is the truth about its
  statement, `Foretold` and `Expecting` that the expected store is what this recovery finds.
  The lemmas under it: a replayed frame does what the statement did, though the root's history
  differs (`Twins` are stores that agree in all but that); the statements that are not logged
  change nothing; the frame of the `ContextReset` ends a plan at the root, where it began; a
  checkpoint's image, with the skipped table index, loads to the store (`RebuildTables` after
  `CoreFrame`, which needs that every memory's history declares its tables: `BlockOk`).
* `LateReadIsExact`: `Spec => []LazyTailExact`. The history read late is the history an eager load
  would have. The invariant `LazyInv` compares two runs, with the tail in front of the history and
  without it: statements that read no history do the same to both (`Shifted`, `ShiftPlan`), as
  long as none of them is a compaction. That the image is still the handle's is
  decided by its generation: a new main file is one later than every tail (`RenameLazy`).

### The programs around it (SessionProofs)

* `SessionSafe`: `Spec => []SessionInv`. Store and file are in order (in every memory the inserts
  of its history have the dimension declared by then), the file is the store unless a failed plan left
  effects in memory only, and every table the server has declared is in both; without memories and
  failed lines, what it has declared is the table index itself. Of the root's history a part may be
  in the file, lost, or somebody else's, so that its declarations do not give the table index.
  What remains true is that *some* tables declared before it do: `Told(t, st)` says that from the
  tables `t` on the history leads to the index and that no insert in it contradicts it, and
  `ToldBehind` the same of a history with the tail in front. Claiming the tail joins the two
  (`ExplainedTogether`), and losing it only takes other tables for `t` (`KeepsDimFromLess`).
* `FileIsCurrent`: `Spec => []FileCurrent`. `execute` runs a plan and logs its mutating statements;
  a reopen runs what was logged, and goes on after an error, on a store without the history in the
  main file. Store and file are `Twins`, alike in all but the root's history, and no statement that is
  logged tells twins apart. `PlanRuns` and `FramesRun` are what the two
  do, proved by induction over the plan: if the plan has not failed, the same.
* `NoTableIsForgotten`, `DimensionsAreKept`, `AnalyzerIsRight`: `RestartKeepsTables`, `DimensionsKept` and
  `AnalyzerAgrees` of the run `session`. The last compares two functions, what the analyzer
  says of an INSERT or a SELECT behind the declarations the server puts in front, and what the engine does.

### Walks (TraversalProofs)

* `TraversalTyped`: `Spec => []TypeOK`. It needs that a closure's `visited` begins with
  the start: `StepClosure` takes its tail.
* `ClosureReachesNoMore`: `Spec => []ClosureSound`. The invariant says that every closed
  set with the start in it contains whatever has been visited, and that the records
  visited are different.
* `ClosureReachesAll`: `Spec => []ClosureExact`. By the invariant behind it a visited
  record is in `next`, or it is in the frontier with the edges still to be looked at, or
  all its edges have been followed. When a round has reached nothing, only the last case
  is left. That the result is the *least* closed set keeps these two first-order: "reachable
  by a path" would need an induction over the path.
* `MatchReturnsEnds`: `Spec => []MatchExact`. The reference is the set of all walks along the
  path; its members of `n + 1` edges are those of `n` edges with one edge behind (lemmas on the
  recursive functions, by the induction of `Folding`). `MatchInv` says that the frontier is
  the ends of the walks so far and `next` the ends over the edges already looked at, in the order
  of the edges that reached them first.
* `MatchScoresFirst`: `Spec => []MatchScore`. `ScoreInv`: a score, once given, is the weight of
  the first edge, in append order, of the first step that reaches the record.
* `ClosureIsBreadthFirst`: `Spec => []ClosureDepth`. `DepthInv` says, for any path,
  that scores rise along `visited` and stay below the position; `BallInv`, for a path of one step,
  that a score is the distance: the record is in the ball of that radius and in no smaller one, and the
  rounds so far have visited every ball of a smaller radius than theirs. A ball is the value of a
  recursive function over its radius.
* `CountIsExact`: `Spec => []CountExact`. The reference is the number of walks to each record, capped
  at `MaxCount`; the code caps every partial sum. `CountInv` carries, for each record, the
  capped sum over the edges looked at. That capping early and capping at the end agree is an
  argument about finite sums of natural numbers, in any order.

### Two indexes (VectorIndexProofs)

* `HnswIsSound`: `Spec => []HnswSound`, whatever the graph returns. `LiveInv` says that the
  live map knows every entry's id and points at an entry of it, that what is not removed is what the exact
  index holds, and that its entry has the same vector.
* `ExactIsRanked`: `Spec => []ExactSearch`, for every query and every `k`. Sorting is specified by what it returns
  (`Sorts`: an arrangement without neighbours the wrong way round), and the property by
  counting: the `r`-th hit is the row that `r - 1` others come before. Between the two are the
  lemmas on strict total orders of `Folding`. The order of rows is total only as long as no
  similarity is NaN (`BeforeIsOrder`); with one, what remains proved is the number of hits, that
  they are different, and their scores. `Cosine` is shown to be an integer or NaN for any vectors
  (`CosineTyped`: sums of squares are natural numbers).

### The order of values, and one page (RetrievalProofs)

* `OrderIsTotal`: if `StoresHold(Plain)`, `Spec => []OrderTotal`, for values of any depth. The induction is
  over the depth (`NestedOrdered`): if what is inside is ordered (`Ordered`), so are sequences of it
  (`ArrOrdered`), pairs of a key and a value of it (`PairsOrdered`), and so the documents, which are
  sequences of such pairs. That the first difference decides is no help for transitivity, where
  three sequences have three first differences; `AtMost` says the same without looking for it, and
  `AtMostChains` is an induction over the common beginning. Integers and floats
  are compared by five cases of code; `IntFloatIs` shows that they are one comparison of halves.
* `PageIsExact`: if `IdfTyped` and `StoresHold(Ordinary)`, `Spec => []PageExact`, for any query. The property
  counts, the code sorts, skips and cuts. `PipelineInv` says what each stage has made: behind
  `Scan` the candidates are the matching records by id; behind `OrderRows` the rows are a
  page from position 0 (`IsPage`: the row at place `r` is the record that `r - 1` others come
  before); behind `SkipRows` one from the offset, behind `CapRows` cut at the smallest cap. That
  the comparison of `order_rows`, with its reversed keys and its tie-break, is the order of the
  documentation's table is `PrecedesIsBefore`; that this is a strict total order of the matching
  records is `EarlierIsOrder`, which is where the order of values is used.
* `RowsAreShown`: under the same hypotheses, `[]RowsShown`. `compute_score` reads an index built from the
  candidates one after the other, and ranks taken from two sorted lists; `ModeScore`
  reads the texts, and counts. `IndexIsExact` (an induction over the fold) says what the
  index holds: of each document its counts, of each token the number of documents that
  have it, and the totals. From it follow `LexicalIsRelevance` and, for the fused mode,
  `RankInIsRankBy`: the place in the sorted list is the rank. Projection comes last and
  must not change what the score was computed from.
* `PredicatesArePartitioned`: `Spec => []PredicatesPartition`. That BETWEEN is `>=` and `<=` is a
  fact about the code's filters; the proof uses none about the order.
* `LexicalIsMonotone`: if `IdfFine`, `Spec => []LexicalMonotone`, for texts and queries of any length.
  By `LexicalIsRelevance` a score is a sum over terms that the texts give. A term's score is a rounded
  fraction in which both what is divided and the divisor grow with the occurrences; the proof
  multiplies crosswise (`Quotients`, `TermDominates`). A record with more of each term has no fewer
  terms either, and the sum of more and no smaller terms is no smaller (`TotalsRelated`, an induction
  over finite sums of which `SumDominates` is an instance).
* `VotesDoAgree`: if `UnitFine`, `Spec => []VotesAgree`, for any number of votes. Three sums over the
  same edges with three weights: where the weights are multiples of one another so are the sums
  (`SumOfMultiples`), and a difference of one net vote is more than rounding takes away (`QuotientsApart`).

### Only model-checked

* `Terminates`, the one liveness property: temporal proofs under fairness need ENABLED, which the
  installed provers do not have.
* `Language`: the lexer and the parser are RECURSIVE operators.
* What the runs with a violation refute, naturally, and the findings without a run.

## 5. Disagreements between code and documentation

Listed under `findings` with the quoted lines. Four have a run (section 3). The others are
visible in the models as they stand:

* StoreFile: a crash between rename and truncation replays the log onto an image that holds it;
  a crash between two frames leaves half a plan; a plan that fails keeps the effects of its
  earlier statements (also `FailPlan` and `Abort`; the documentation calls plans atomic); a
  `PRUNE HISTORY` replayed from the log does not see the undecoded tail.
* Traversal: the second step of a CLOSURE is not expanded from the start; a MATCH that comes
  back to its start gives it the score 0 instead of the edge's weight.
* Retrieval and VectorIndex: kNN's `k` caps the page after order and offset and does not select
  the nearest candidates first; a cosine similarity that overflows is NaN; of two vectors the
  longer is cut and the shorter not padded; an id that is upserted again is found twice.
* Lexer and Parser: `<` with a comment or a minus sign directly behind it is an arrow; `IS NOT
  NULL` is accepted behind any name and in a step of MATCH, where it accepts no edge; some errors
  name the token behind the offending one.
* Session: the server's context after a restart is the memories' (`SeedDeclared`); a line that
  declares a table it has used before is refused (`Augmented`); the analyzer keeps a dimension
  that the engine clears (`AnalyzeStatement`); `:clear` detaches a session from its file.
* Beyond the models: a NaN with its sign set makes the value order cyclic, and the `relate` tool
  takes a weight outside the documented range.

The parser also takes clauses in any order and given twice, which the grammar of `spec/nql.md`
does not: `Canonical` shows that nothing can be said that way that the grammar could not say.

## 6. Not modelled

* The retrieval metrics (`harness.rs`), three pure functions that only tests call, and the
  benchmarks, which measure time.
* The graph of the HNSW index: fast_hnsw's, from outside the repository; of its search
  `GraphSearch` assumes nothing but that it returns entries.
* Rounding in `f32` and `f64`, and the logarithm of BM25.
* JSON-RPC and line framing, the TCP loop, the wording of responses and errors, how rows are
  printed.
* The version-2 file layout and header errors: states this version never writes.
* A directory that forgets a file or a rename that was synced. The code ignores the result of
  the one directory sync it makes and makes none for the log, so nothing it does afterwards
  depends on it; the models take a synced file to be found again.

## 7. Plan

The order was that of what is hardest to test: `NqStore` and `Engine`, `StoreFile`, `Traversal`,
`Retrieval`, `Session`, then the language, the indexes, the refinement, and the theorems about
histories, recovery and sessions. What could follow:

1. A disk under `StoreFile` whose directory entries are lost unless synced, once the code syncs
   them.
2. Rows of MATCH with their bodies, and `AS OF` inside `Traversal`, which now starts from the
   graph that NqStore's `ReplayAsOf` rebuilds.
