------------------------------ MODULE StoreFile ------------------------------
(***************************************************************************)
(* A file-backed Database (nqlite/src/lib.rs) over a StoreFile             *)
(* (nqlite/src/storage.rs): the main file, its temporary, the write-ahead  *)
(* log and the lock file, and the handles that open, execute, flush, close *)
(* and crash.  One action per system call that can be the last one before  *)
(* a crash.                                                                *)
(*                                                                         *)
(* A main file is an image: the core frame and the history tail, with two  *)
(* history variables, the tags of the logged statements it contains and a  *)
(* generation number.  A WAL frame is the statement, with its tag (which   *)
(* statement of which plan) and the memory context the plan ran it in.     *)
(***************************************************************************)
EXTENDS NqStore

CONSTANTS
    Handles,      \* processes, or handles of one process
    Plans,        \* the plans clients execute
    Threshold,    \* CHECKPOINT_THRESHOLD, in frames
    Flock,        \* TRUE: flock(2), FALSE: a create_new lock file
    IoErrors,     \* which calls may fail: "append" (leaving nothing or the frame),
                  \* "torn" (leaving part of it), "checkpoint", "load" (or the tail's)
    Decodings,    \* other histories that the bytes at a stale range may decode as
    Free,         \* nobody holds the lock
    Unknown,      \* nothing is said about what the next load finds
    MaxPlans,     \* bound on plans executed
    MaxStops,     \* bound on closes, crashes and failed calls
    MaxFlushes    \* bound on flush() calls

ASSUME FreeIsNoHandle == Free \notin Handles
ASSUME DecodingsAreHistories == \A read \in Decodings : read \in Seq(Range(read))
ASSUME PlansAreSequences == \A plan \in Plans : plan \in Seq(Range(plan))
\* Only a compaction makes a snapshot, only Database::execute a ContextReset: no
\* statement is parsed as one.
ASSUME PlansAreParsed ==
    \A plan \in Plans : \A i \in DOMAIN plan : plan[i].op \notin {"snapshot", "reset"}

VARIABLES
    lock, main, tmp, wal,   \* on disk; lock is kept by the kernel under Flock
    pc,                     \* what each handle is doing
    mem,                    \* [store, ctx, failed] of each handle
    tail,                   \* hist_range: the image whose tail is not decoded yet
    walLen,                 \* wal_len, in frames
    pos,                    \* frames replayed
    cur, at,                \* plan being logged (0: none), last statement logged
    planCtx,                \* the memory context the plan had after that statement
    issued,                 \* every plan executed, in order
    acked,                  \* tags of the plans that returned Ok
    done,                   \* tags whose effect is in a handle's memory
    eager,                  \* history a handle would have, had it read the tail at load
    dirty,                  \* memory holds effects that were never logged
    expected,               \* what the next load must find, when that is determined
    stops, flushes

diskVars  == <<lock, main, tmp, wal>>
handleVars == <<pc, mem, tail, walLen, pos, cur, at, planCtx>>
ghostVars == <<issued, acked, done, eager, dirty, expected, stops, flushes>>
vars == <<diskVars, handleVars, ghostVars>>

IsMutating(stmt) == stmt.op \notin TemporalReads \cup {"select", "match", "snapshot", "reset"}

(***************************************************************************)
(* Images.  Postcard skips the table index of a nested memory; the loader  *)
(* rebuilds it from the memory's inline history.                           *)
(***************************************************************************)

NoImage == [kind |-> "none", core |-> EmptyStore, history |-> <<>>, tags |-> {}, gen |-> 0]
Torn == [NoImage EXCEPT !.kind = "torn"]

SkipTables(memories) == [m \in DOMAIN memories |-> [memories[m] EXCEPT !.tables = <<>>]]

CoreFrame(store) == [store EXCEPT !.history = <<>>, !.memories = SkipTables(@)]

HistoryTail(history) ==
    [i \in DOMAIN history |->
        IF history[i].stmt.op = "snapshot"
        THEN [history[i] EXCEPT !.stmt.state.memories = SkipTables(@)]
        ELSE history[i]]

ImageOf(h) ==
    [kind |-> "image", core |-> CoreFrame(mem[h].store),
     history |-> HistoryTail(mem[h].store.history), tags |-> done[h], gen |-> main.gen + 1]

\* A mutant of LoadedStore: the tail is decoded at load, and again when claimed.
LoadedWithTail(image) == RebuildTables([image.core EXCEPT !.history = image.history])

\* What load_main decodes: no history, and the empty store of a missing file.
LoadedStore(image) == RebuildTables(image.core)

(***************************************************************************)
(* The statements of a plan that reach the log, by position; the position  *)
(* after the last is the ContextReset that closes the plan.                *)
(***************************************************************************)

Logged(plan) == {i \in DOMAIN plan : IsMutating(plan[i])}

\* A mutant of Positions: no marker closes the plan in the log.
PositionsUnclosed(plan) == Logged(plan)

Positions(plan) == IF Logged(plan) = {} THEN {} ELSE Logged(plan) \cup {Len(plan) + 1}
PlanTags(n) == {[plan |-> n, i |-> i] : i \in Positions(issued[n])}

Frame(h, i) ==
    LET plan == issued[cur[h]]
    IN  [stmt |-> IF i <= Len(plan) THEN plan[i] ELSE ResetStmt,
         tag  |-> [plan |-> cur[h], i |-> i],
         ctx  |-> planCtx[h],
         torn |-> FALSE]

TornFrame(frame) == [frame EXCEPT !.torn = TRUE]

\* What a write cut short, or a write whose caller never learned that it
\* succeeded, may leave at the end of the log.
AfterFailedAppend(frame) ==
    {wal, Append(wal, frame), Append(wal, TornFrame(frame))}

AfterFailedCall(frame) ==
    IF "torn" \in IoErrors THEN AfterFailedAppend(frame) ELSE {wal, Append(wal, frame)}

\* A mutant of NextPosition: the statements are logged in any order.
NextPositionAny(h, i) ==
    /\ i \in Positions(issued[cur[h]])
    /\ i > at[h]

\* The frame the log loop of Database::execute writes next is at position i.
NextPosition(h, i) ==
    /\ i \in Positions(issued[cur[h]])
    /\ i > at[h]
    /\ \A j \in Positions(issued[cur[h]]) : j > at[h] => i <= j

LogComplete(h) == \A i \in Positions(issued[cur[h]]) : i <= at[h]

Init ==
    /\ lock = Free /\ main = NoImage /\ tmp = NoImage /\ wal = <<>>
    /\ pc = [h \in Handles |-> "closed"]
    /\ mem = [h \in Handles |-> AtRoot(EmptyStore)]
    /\ tail = [h \in Handles |-> NoImage]
    /\ walLen = [h \in Handles |-> 0]
    /\ pos = [h \in Handles |-> 0]
    /\ cur = [h \in Handles |-> 0]
    /\ at = [h \in Handles |-> 0]
    /\ planCtx = [h \in Handles |-> Root]
    /\ issued = <<>> /\ acked = {}
    /\ done = [h \in Handles |-> {}]
    /\ eager = [h \in Handles |-> <<>>]
    /\ dirty = FALSE
    /\ expected = EmptyStore
    /\ stops = 0 /\ flushes = 0

(***************************************************************************)
(* Opening: take the lock, read the main file, replay the log frame by     *)
(* frame, cut the torn tail.  An open that finds the lock taken returns    *)
(* Locked and changes nothing.                                             *)
(***************************************************************************)

\* Mutants of Open: the size of the log is taken one frame short, or not at all,
\* or the lock is not looked at.
OpenMiscounts(h) ==
    /\ pc[h] = "closed" /\ lock = Free
    /\ lock' = h
    /\ pc' = [pc EXCEPT ![h] = "load"]
    /\ walLen' = [walLen EXCEPT ![h] = Len(wal) - 1]
    /\ UNCHANGED <<main, tmp, wal, mem, tail, pos, cur, at, planCtx, ghostVars>>

OpenCountsFromZero(h) ==
    /\ pc[h] = "closed" /\ lock = Free
    /\ lock' = h
    /\ pc' = [pc EXCEPT ![h] = "load"]
    /\ walLen' = [walLen EXCEPT ![h] = 0]
    /\ UNCHANGED <<main, tmp, wal, mem, tail, pos, cur, at, planCtx, ghostVars>>

OpenUnlocked(h) ==
    /\ pc[h] = "closed"
    /\ lock' = h
    /\ pc' = [pc EXCEPT ![h] = "load"]
    /\ walLen' = [walLen EXCEPT ![h] = Len(wal)]
    /\ UNCHANGED <<main, tmp, wal, mem, tail, pos, cur, at, planCtx, ghostVars>>

Open(h) ==
    /\ pc[h] = "closed" /\ lock = Free
    /\ lock' = h
    /\ pc' = [pc EXCEPT ![h] = "load"]
    /\ walLen' = [walLen EXCEPT ![h] = Len(wal)]
    /\ UNCHANGED <<main, tmp, wal, mem, tail, pos, cur, at, planCtx, ghostVars>>

LoadMain(h) ==
    /\ pc[h] = "load"
    /\ pc' = [pc EXCEPT ![h] = "replay"]
    /\ mem' = [mem EXCEPT ![h] = AtRoot(LoadedStore(main))]
    /\ tail' = [tail EXCEPT ![h] = main]
    /\ pos' = [pos EXCEPT ![h] = 0]
    /\ done' = [done EXCEPT ![h] = main.tags]
    /\ eager' = [eager EXCEPT ![h] = main.history]
    /\ UNCHANGED <<diskVars, walLen, cur, at, planCtx, issued, acked, dirty, expected,
                   stops, flushes>>

\* Replay ignores the error of a statement and carries on.
Replayed(c, stmt) == [ExecuteInContext(c, stmt) EXCEPT !.failed = FALSE]

WithHistory(c, history) == [c EXCEPT !.store.history = history]

NextFrameIntact(h) == pos[h] < Len(wal) /\ ~wal[pos[h] + 1].torn

ReplayFrame(h) ==
    /\ pc[h] = "replay" /\ NextFrameIntact(h)
    /\ LET frame == wal[pos[h] + 1] IN
       /\ mem' = [mem EXCEPT ![h] = Replayed(@, frame.stmt)]
       /\ eager' = [eager EXCEPT ![h] =
                       Replayed(WithHistory(mem[h], @), frame.stmt).store.history]
       /\ done' = [done EXCEPT ![h] = @ \cup {frame.tag}]
    /\ pos' = [pos EXCEPT ![h] = @ + 1]
    /\ UNCHANGED <<diskVars, pc, tail, walLen, cur, at, planCtx, issued, acked, dirty, expected,
                   stops, flushes>>

\* A mutant of EndReplay: the torn tail stays in the log.
EndReplayUncut(h) ==
    /\ pc[h] = "replay" /\ ~NextFrameIntact(h)
    /\ pc' = [pc EXCEPT ![h] = "idle"]
    /\ UNCHANGED <<diskVars, mem, tail, walLen, pos, cur, at, planCtx, ghostVars>>

EndReplay(h) ==
    /\ pc[h] = "replay" /\ ~NextFrameIntact(h)
    /\ wal' = SubSeq(wal, 1, pos[h])
    /\ pc' = [pc EXCEPT ![h] = "idle"]
    /\ UNCHANGED <<lock, main, tmp, mem, tail, walLen, pos, cur, at, planCtx, ghostVars>>

(***************************************************************************)
(* Executing a plan.                                                       *)
(***************************************************************************)

SameBytes(image, other) ==
    /\ image.kind = other.kind
    /\ image.core = other.core /\ image.history = other.history

TailIsStale(h) == tail[h] # NoImage /\ ~SameBytes(tail[h], main)

\* ensure_history: what store.history may be after the tail is claimed.  A stale
\* range addresses bytes of a file that a checkpoint has replaced: they decode as
\* no entries, as the new tail, as anything else, or not at all (ClaimFails).
ClaimedHistory(h) ==
    LET kept == mem[h].store.history IN
    CASE tail[h] = NoImage -> {kept}
      [] TailIsStale(h)    -> {read \o kept : read \in Decodings \cup {<<>>, main.history}}
      [] OTHER             -> {tail[h].history \o kept}

ClaimTail(h, plan) ==
    tail' = IF Temporal(plan) THEN [tail EXCEPT ![h] = NoImage] ELSE tail

Runs(h, plan) ==
    {ExecutePlan([mem[h].store EXCEPT !.history = history], plan) :
        history \in IF Temporal(plan) THEN ClaimedHistory(h) ELSE {mem[h].store.history}}

EagerRun(h, plan) == ExecutePlan([mem[h].store EXCEPT !.history = eager[h]], plan)

\* The range is taken before the file is read: a tail that cannot be read or
\* decoded, the first time it is asked for, is not asked for again.
ClaimFails(h, plan) ==
    /\ pc[h] = "idle" /\ stops < MaxStops
    /\ Temporal(plan) /\ tail[h] # NoImage
    /\ TailIsStale(h) \/ "load" \in IoErrors
    /\ ClaimTail(h, plan)
    /\ stops' = stops + 1
    /\ UNCHANGED <<diskVars, pc, mem, walLen, pos, cur, at, planCtx, issued, acked, done, eager,
                   dirty, expected, flushes>>

RunPlan(h, plan) ==
    /\ pc[h] = "idle" /\ Len(issued) < MaxPlans
    /\ \E run \in Runs(h, plan) : ~run.failed /\ mem' = [mem EXCEPT ![h] = run]
    /\ ClaimTail(h, plan)
    /\ eager' = [eager EXCEPT ![h] = EagerRun(h, plan).store.history]
    /\ issued' = Append(issued, plan)
    /\ cur' = [cur EXCEPT ![h] = Len(issued) + 1]
    /\ at' = [at EXCEPT ![h] = 0]
    /\ planCtx' = [planCtx EXCEPT ![h] = Root]
    /\ done' = [done EXCEPT ![h] =
                   @ \cup {[plan |-> Len(issued) + 1, i |-> i] : i \in Positions(plan)}]
    /\ expected' = Unknown
    /\ pc' = [pc EXCEPT ![h] = "log"]
    /\ UNCHANGED <<diskVars, walLen, pos, acked, dirty, stops, flushes>>

\* execute_plan returned Err: nothing is logged, but the statements before the
\* failing one stay applied in memory.
ExecuteFails(h, plan) ==
    /\ pc[h] = "idle" /\ stops < MaxStops
    /\ \E run \in Runs(h, plan) :
          /\ run.failed
          /\ mem' = [mem EXCEPT ![h] = [run EXCEPT !.failed = FALSE]]
          /\ dirty' = (dirty \/ SnapshotOf(run.store) # SnapshotOf(mem[h].store))
    /\ ClaimTail(h, plan)
    /\ eager' = [eager EXCEPT ![h] = EagerRun(h, plan).store.history]
    /\ expected' = Unknown
    /\ stops' = stops + 1
    /\ UNCHANGED <<diskVars, pc, walLen, pos, cur, at, planCtx, issued, acked, done, flushes>>

\* StoreFile::append: one frame, written and synced.
LogStatement(h) ==
    /\ pc[h] = "log"
    /\ \E i \in Positions(issued[cur[h]]) :
          /\ NextPosition(h, i)
          /\ wal' = Append(wal, Frame(h, i))
          /\ at' = [at EXCEPT ![h] = i]
          /\ planCtx' = [planCtx EXCEPT ![h] = LET stmt == Frame(h, i).stmt IN
                            IF stmt.op = "memory" THEN stmt.name ELSE @]
    /\ walLen' = [walLen EXCEPT ![h] = @ + 1]
    /\ UNCHANGED <<lock, main, tmp, pc, mem, tail, pos, cur, ghostVars>>

\* execute or flush returns: no plan is current any more.
StopPlan(h) ==
    /\ pc' = [pc EXCEPT ![h] = "idle"]
    /\ cur' = [cur EXCEPT ![h] = 0]
    /\ at' = [at EXCEPT ![h] = 0]
    /\ planCtx' = [planCtx EXCEPT ![h] = Root]

\* A write or the sync failed: execute returns Err and logs no more of the plan.
AppendFails(h) ==
    /\ "append" \in IoErrors /\ stops < MaxStops
    /\ pc[h] = "log"
    /\ \E i \in Positions(issued[cur[h]]) :
          NextPosition(h, i) /\ wal' \in AfterFailedCall(Frame(h, i))
    /\ StopPlan(h)
    /\ dirty' = TRUE
    /\ stops' = stops + 1
    /\ UNCHANGED <<lock, main, tmp, mem, tail, walLen, pos, issued, acked, done, eager,
                   expected, flushes>>

\* execute (or flush, when no plan is current) returns Ok.
ReturnOk(h) ==
    /\ StopPlan(h)
    /\ acked' = IF cur[h] = 0 THEN acked ELSE acked \cup PlanTags(cur[h])

\* A mutant of FinishPlan: Ok before the last frame is written.
FinishPlanEarly(h) ==
    /\ pc[h] = "log" /\ walLen[h] < Threshold
    /\ ReturnOk(h)
    /\ UNCHANGED <<diskVars, mem, tail, walLen, pos, issued, done, eager, dirty,
                   expected, stops, flushes>>

FinishPlan(h) ==
    /\ pc[h] = "log" /\ LogComplete(h) /\ walLen[h] < Threshold
    /\ ReturnOk(h)
    /\ UNCHANGED <<diskVars, mem, tail, walLen, pos, issued, done, eager, dirty,
                   expected, stops, flushes>>

(***************************************************************************)
(* Checkpoint: write the temporary file, sync it, rename it over the main  *)
(* file, truncate the log.                                                 *)
(***************************************************************************)

BeginCheckpoint(h) ==
    /\ pc' = [pc EXCEPT ![h] = "write"]
    /\ UNCHANGED <<diskVars, mem, tail, walLen, pos, cur, at, planCtx, issued, acked, done, eager,
                   dirty, stops>>

AutoCheckpoint(h) ==
    /\ pc[h] = "log" /\ LogComplete(h) /\ walLen[h] >= Threshold
    /\ BeginCheckpoint(h)
    /\ UNCHANGED <<expected, flushes>>

Flush(h) ==
    /\ pc[h] = "idle" /\ flushes < MaxFlushes
    /\ BeginCheckpoint(h)
    /\ flushes' = flushes + 1
    /\ expected' = Unknown

\* A mutant of WriteTmp: the temporary file is renamed without having been synced.
WriteTmpUnsynced(h) ==
    /\ pc[h] = "write"
    /\ tmp' = Torn
    /\ pc' = [pc EXCEPT ![h] = "rename"]
    /\ UNCHANGED <<lock, main, wal, mem, tail, walLen, pos, cur, at, planCtx, ghostVars>>

\* Another: the log is cut as soon as the new file is being written.
WriteTmpCutsLog(h) ==
    /\ pc[h] = "write"
    /\ tmp' = Torn
    /\ wal' = <<>>
    /\ pc' = [pc EXCEPT ![h] = "sync"]
    /\ UNCHANGED <<lock, main, mem, tail, walLen, pos, cur, at, planCtx, ghostVars>>

WriteTmp(h) ==
    /\ pc[h] = "write"
    /\ tmp' = Torn
    /\ pc' = [pc EXCEPT ![h] = "sync"]
    /\ UNCHANGED <<lock, main, wal, mem, tail, walLen, pos, cur, at, planCtx, ghostVars>>

SyncTmp(h) ==
    /\ pc[h] = "sync"
    /\ tmp' = ImageOf(h)
    /\ pc' = [pc EXCEPT ![h] = "rename"]
    /\ UNCHANGED <<lock, main, wal, mem, tail, walLen, pos, cur, at, planCtx, ghostVars>>

Rename(h) ==
    /\ pc[h] = "rename"
    /\ main' = tmp
    /\ tmp' = NoImage
    /\ pc' = [pc EXCEPT ![h] = "truncate"]
    /\ UNCHANGED <<lock, wal, mem, tail, walLen, pos, cur, at, planCtx, ghostVars>>

TruncateWal(h) ==
    /\ pc[h] = "truncate"
    /\ wal' = <<>>
    /\ walLen' = [walLen EXCEPT ![h] = 0]
    /\ ReturnOk(h)
    /\ dirty' = FALSE
    /\ UNCHANGED <<lock, main, tmp, mem, tail, pos, issued, done, eager, expected,
                   stops, flushes>>

\* One of the calls fails and checkpoint returns Err; when it is the sync after
\* the truncation, the log is already empty.
CheckpointFails(h) ==
    /\ "checkpoint" \in IoErrors /\ stops < MaxStops
    /\ pc[h] \in {"write", "sync", "rename", "truncate"}
    /\ wal' \in IF pc[h] = "truncate" THEN {wal, <<>>} ELSE {wal}
    /\ dirty' = (dirty \/ pc[h] = "truncate")
    /\ StopPlan(h)
    /\ stops' = stops + 1
    /\ UNCHANGED <<lock, main, tmp, mem, tail, walLen, pos, issued, acked, done, eager,
                   expected, flushes>>

(***************************************************************************)
(* Leaving: close, crash, an open that fails, and the user's removal of a  *)
(* lock file that a crash left behind where there is no flock.             *)
(***************************************************************************)

Leave(h) ==
    /\ pc' = [pc EXCEPT ![h] = "closed"]
    /\ mem' = [mem EXCEPT ![h] = AtRoot(EmptyStore)]
    /\ tail' = [tail EXCEPT ![h] = NoImage]
    /\ walLen' = [walLen EXCEPT ![h] = 0]
    /\ pos' = [pos EXCEPT ![h] = 0]
    /\ cur' = [cur EXCEPT ![h] = 0]
    /\ at' = [at EXCEPT ![h] = 0]
    /\ planCtx' = [planCtx EXCEPT ![h] = Root]
    /\ done' = [done EXCEPT ![h] = {}]
    /\ eager' = [eager EXCEPT ![h] = <<>>]
    /\ dirty' = FALSE
    /\ stops < MaxStops
    /\ stops' = stops + 1
    /\ UNCHANGED <<main, tmp, issued, acked, flushes>>

TagsInWal == {wal[i].tag : i \in {j \in DOMAIN wal : ~wal[j].torn}}

\* Every plan with a frame in the log has all its frames there.
WholePlansInWal == \A tag \in TagsInWal : PlanTags(tag.plan) \subseteq TagsInWal

\* A handle that is not in the middle of logging a plan, and whose memory holds
\* nothing but logged effects, must be found again as it was.
Expect(h) ==
    CASE pc[h] \in {"load", "replay"} -> expected
      [] /\ pc[h] \in {"idle", "write", "sync", "rename"}
         /\ ~dirty /\ WholePlansInWal -> SnapshotOf(mem[h].store)
      [] OTHER -> Unknown

Close(h) ==
    /\ pc[h] = "idle"
    /\ lock' = Free
    /\ expected' = Expect(h)
    /\ Leave(h)
    /\ UNCHANGED wal

Crash(h) ==
    /\ pc[h] # "closed"
    /\ lock' = IF Flock THEN Free ELSE h
    /\ IF pc[h] = "log"
       THEN \/ \E i \in Positions(issued[cur[h]]) :
                   NextPosition(h, i) /\ wal' \in AfterFailedAppend(Frame(h, i))
            \/ LogComplete(h) /\ wal' = wal
       ELSE wal' = wal
    /\ expected' = Expect(h)
    /\ Leave(h)

LoadFails(h) ==
    /\ "load" \in IoErrors
    /\ pc[h] \in {"load", "replay"}
    /\ lock' = Free
    /\ expected' = expected
    /\ Leave(h)
    /\ UNCHANGED wal

ClearStaleLock(h) ==
    /\ lock = h /\ pc[h] = "closed"
    /\ lock' = Free
    /\ UNCHANGED <<main, tmp, wal, handleVars, ghostVars>>

Next ==
    \E h \in Handles :
        \/ Open(h) \/ LoadMain(h) \/ ReplayFrame(h) \/ EndReplay(h) \/ LoadFails(h)
        \/ \E plan \in Plans : RunPlan(h, plan) \/ ExecuteFails(h, plan) \/ ClaimFails(h, plan)
        \/ LogStatement(h) \/ AppendFails(h) \/ FinishPlan(h)
        \/ AutoCheckpoint(h) \/ Flush(h)
        \/ WriteTmp(h) \/ SyncTmp(h) \/ Rename(h) \/ TruncateWal(h) \/ CheckpointFails(h)
        \/ Close(h) \/ Crash(h) \/ ClearStaleLock(h)

Spec == Init /\ [][Next]_vars

(***************************************************************************)
(* Properties.                                                             *)
(***************************************************************************)

Steps == {"closed", "load", "replay", "idle", "log", "write", "sync", "rename", "truncate"}

Tags == [plan : Nat, i : Nat]
LoggedStmts == {ResetStmt} \cup UNION {{plan[i] : i \in Logged(plan)} : plan \in Plans}
Contexts == {Root} \cup {stmt.name : stmt \in {s \in LoggedStmts : s.op = "memory"}}
Frames == [stmt : LoggedStmts, tag : Tags, ctx : Contexts, torn : BOOLEAN]

Kinds == {"none", "torn", "image"}

DiskTyped ==
    /\ lock \in Handles \cup {Free}
    /\ wal \in Seq(Frames)
    /\ main.kind \in Kinds /\ main.tags \subseteq Tags
    /\ tmp.kind \in Kinds /\ tmp.tags \subseteq Tags

ControlTyped ==
    /\ pc \in [Handles -> Steps]
    /\ walLen \in [Handles -> Nat] /\ pos \in [Handles -> Nat]
    /\ cur \in [Handles -> Nat] /\ at \in [Handles -> Nat]
    /\ planCtx \in [Handles -> Contexts]

\* A plan is current from its first frame to its return, and during the
\* checkpoint it triggers; flush checkpoints without one.
PlanTyped ==
    /\ issued \in Seq(Plans)
    /\ \A h \in Handles :
          /\ cur[h] \in 0..Len(issued)
          /\ pc[h] = "log" => cur[h] # 0
          /\ pc[h] \in {"closed", "load", "replay", "idle"} => cur[h] = 0

GhostTyped ==
    /\ acked \subseteq Tags
    /\ done \in [Handles -> SUBSET Tags]
    /\ dirty \in BOOLEAN
    /\ stops \in Nat /\ flushes \in Nat

\* Types of the lock, the files and the control state of every handle; the
\* position of a replay is inside the log, which nobody else shortens.
TypeOK ==
    /\ DiskTyped /\ ControlTyped /\ PlanTyped /\ GhostTyped
    /\ \A h \in Handles : pc[h] = "replay" => pos[h] <= Len(wal)

\* A handle inside the store holds the lock.
LockHeld == \A h \in Handles : pc[h] # "closed" => lock = h

\* Never two handles inside the store at once, through every crash, failed open
\* and cleared stale lock: a second writer would race the first to a checkpoint.
SingleWriter ==
    \A h1, h2 \in Handles : pc[h1] # "closed" /\ pc[h2] # "closed" => h1 = h2

\* Whatever crash comes next, open() meets a main file that was written in full.
MainWhole == main.kind # "torn"

\* Every statement of every plan that returned Ok is in the main file, or in the
\* log before any torn frame, at every moment: also between the steps of a
\* checkpoint, and while another handle is recovering.
Readable(i) == i \in DOMAIN wal /\ \A j \in 1..i : ~wal[j].torn
Kept(tag) == tag \in main.tags \/ \E i \in DOMAIN wal : Readable(i) /\ wal[i].tag = tag
AckedDurable == \A tag \in acked : Kept(tag)

Inside == {"idle", "log", "write", "sync", "rename", "truncate"}

\* A torn frame is the last of the log, and recovery cuts it before anything is
\* appended behind it.
TornOnlyLast ==
    \A i \in DOMAIN wal :
        wal[i].torn => i = Len(wal) /\ \A h \in Handles : pc[h] \notin Inside

\* The memory of a recovering handle has what the main file and the frames it
\* has passed hold, and afterwards what the main file and the whole log hold: a
\* checkpoint of that memory loses nothing.
MemoryCovers(h) ==
    /\ pc[h] \in Inside \cup {"replay"} => main.tags \subseteq done[h]
    /\ pc[h] = "replay" =>
          \A i \in 1..pos[h] : ~wal[i].torn /\ wal[i].tag \in done[h]
    /\ pc[h] \in Inside => \A i \in DOMAIN wal : wal[i].tag \in done[h]

\* What has been logged of the current plan, all of it after its last frame, is kept.
CurrentKept(h) ==
    cur[h] # 0 =>
        \A tag \in PlanTags(cur[h]) :
            /\ tag \in done[h]
            /\ (pc[h] = "log" => tag.i <= at[h]) => Kept(tag)

\* The new main file is complete before it takes the old one's place, and holds
\* the whole log before the log is cut.
CheckpointCovers(h) ==
    /\ pc[h] = "rename" => tmp.kind = "image" /\ tmp.tags = done[h]
    /\ pc[h] = "truncate" => \A i \in DOMAIN wal : wal[i].tag \in main.tags

\* Why acknowledged plans survive: the invariant behind AckedDurable and MainWhole.
RecoveryInv ==
    /\ TornOnlyLast /\ AckedDurable /\ MainWhole
    /\ \A h \in Handles : MemoryCovers(h) /\ CurrentKept(h) /\ CheckpointCovers(h)

\* The readable frames of the log are in the order in which they were executed,
\* and no frame is there without the earlier frames of its plan.
LogInOrder ==
    \A i \in DOMAIN wal : Readable(i) =>
        /\ \A j \in 1..(i - 1) :
              \/ wal[j].tag.plan < wal[i].tag.plan
              \/ wal[j].tag.plan = wal[i].tag.plan /\ wal[j].tag.i < wal[i].tag.i
        /\ \A k \in Positions(issued[wal[i].tag.plan]) :
              k < wal[i].tag.i => \E j \in 1..i : wal[j].tag = [plan |-> wal[i].tag.plan, i |-> k]

\* Recovery finds the store as it was: records, edges, dimensions, clock, table
\* index, and every memory with its history and its rebuilt index; also when the
\* recovery itself is interrupted by another crash.
ReopenRestores ==
    \A h \in Handles :
        pc[h] = "idle" /\ expected # Unknown => SnapshotOf(mem[h].store) = expected

\* The byte counter that triggers checkpoints never falls below the log's size,
\* so the log cannot outgrow the threshold unnoticed.
CounterCoversLog ==
    \A h \in Handles : pc[h] \in {"idle", "log"} => walLen[h] >= Len(wal)

\* Until this handle checkpoints or replays a PRUNE, reading the tail lazily
\* gives the history an eager load would have given.
LazyTailExact ==
    \A h \in Handles :
        /\ pc[h] = "idle" /\ tail[h] # NoImage /\ tail[h] = main
        /\ \A i \in DOMAIN wal : wal[i].stmt.op # "prune"
        => tail[h].history \o mem[h].store.history = eager[h]

(***************************************************************************)
(* The files and the handles, seen as the log they implement.              *)
(***************************************************************************)

KeptTags == main.tags \cup {wal[i].tag : i \in {j \in DOMAIN wal : Readable(j)}}

Promised ==
    INSTANCE DurableLog WITH
        Shapes <- {Positions(plan) : plan \in Plans},
        inside <- {h \in Handles : pc[h] # "closed"},
        plans <- [n \in DOMAIN issued |-> Positions(issued[n])],
        kept <- KeptTags

\* The file-backed database implements DurableLog: seen through crashes, failed
\* calls, checkpoints and recoveries, one handle works at a time, what is kept is
\* never lost and is a beginning of each plan, and Ok means all of the plan is kept.
StoresDurably == Promised!Spec

\* What docs and comments promise and the code does not keep.

\* nql-ir, Store::history: "time-travel survives checkpoints and WAL replay".
HistorySurvivesCheckpoint ==
    \A h \in Handles : pc[h] = "truncate" => main.history = HistoryTail(eager[h])

\* lib.rs: replay resets the memory context "exactly where the runtime did".
ContextFaithful ==
    \A h \in Handles :
        pc[h] = "replay" /\ NextFrameIntact(h) => mem[h].ctx = wal[pos[h] + 1].ctx
==============================================================================
