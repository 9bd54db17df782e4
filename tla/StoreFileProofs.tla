--------------------------- MODULE StoreFileProofs ---------------------------
(***************************************************************************)
(* StoreFile for any handles, plans, threshold and faults: its types, the  *)
(* lock that only one handle holds, the order of the log, that what is     *)
(* acknowledged survives, and that a recovery finds the store as it was.   *)
(***************************************************************************)
EXTENDS StoreFile, StoreProofs, SequenceTheorems, TLAPS

\* Positions of a plan are positive numbers.
LEMMA PositionsAreNats ==
    ASSUME NEW plan \in Plans
    PROVE  /\ Positions(plan) \subseteq Nat
           /\ Logged(plan) \subseteq 1..Len(plan)
           /\ Len(plan) \in Nat
<1>1. plan \in Seq(Range(plan))
  BY PlansAreSequences
<1>2. Len(plan) \in Nat /\ DOMAIN plan = 1..Len(plan)
  BY <1>1
<1> QED
  BY <1>2 DEF Positions, Logged

\* Tearing a frame changes nothing but its mark.
LEMMA TornFrameTyped ==
    ASSUME NEW frame \in Frames
    PROVE  /\ TornFrame(frame) \in Frames
           /\ TornFrame(frame).torn
           /\ TornFrame(frame).tag = frame.tag
BY DEF TornFrame, Frames

\* A frame written for a plan that was issued is well formed.
LEMMA FrameTyped ==
    ASSUME TypeOK, NEW h \in Handles, pc[h] = "log",
           NEW i \in Positions(issued[cur[h]])
    PROVE  /\ Frame(h, i) \in Frames
           /\ ~Frame(h, i).torn
           /\ Frame(h, i).tag = [plan |-> cur[h], i |-> i]
           /\ i \in Nat
<1> DEFINE plan == issued[cur[h]]
<1>1. cur[h] \in 0..Len(issued) /\ cur[h] # 0
  BY DEF TypeOK, PlanTyped
<1>2. plan \in Plans /\ cur[h] \in Nat
  BY <1>1 DEF TypeOK, PlanTyped
<1>3. i \in Nat
  BY <1>2, PositionsAreNats
<1>4. (IF i <= Len(plan) THEN plan[i] ELSE ResetStmt) \in LoggedStmts
  <2>1. CASE i <= Len(plan)
    <3>1. i \in Logged(plan)
      BY <2>1, <1>2, <1>3, PositionsAreNats DEF Positions
    <3> QED
      BY <3>1, <2>1, <1>2 DEF LoggedStmts
  <2>2. CASE ~(i <= Len(plan))
    BY <2>2 DEF LoggedStmts
  <2> QED
    BY <2>1, <2>2
<1>5. planCtx[h] \in Contexts
  BY DEF TypeOK, ControlTyped
<1> QED
  BY <1>2, <1>3, <1>4, <1>5 DEF Frame, Frames, Tags

\* The tags of an issued plan are tags.
LEMMA PlanTagsTyped ==
    ASSUME TypeOK, NEW n \in 1..Len(issued)
    PROVE  PlanTags(n) \subseteq Tags
<1>1. issued[n] \in Plans /\ n \in Nat
  BY DEF TypeOK, PlanTyped
<1> QED
  BY <1>1, PositionsAreNats DEF PlanTags, Tags

\* The root is a context.
LEMMA RootIsContext == Root \in Contexts
BY DEF Contexts

\* Everyone but the handle that holds the lock is out of the store.
LEMMA Alone ==
    ASSUME TypeOK, LockHeld, NEW h \in Handles, pc[h] # "closed",
           NEW g \in Handles, g # h
    PROVE  pc[g] = "closed" /\ cur[g] = 0
BY DEF TypeOK, PlanTyped, LockHeld

\* What the empty log and the missing file look like.
LEMMA Empties ==
    /\ <<>> \in Seq(Frames) /\ <<>> \in Seq(Plans) /\ Len(<<>>) = 0
    /\ NoImage.kind = "none" /\ NoImage.tags = {}
    /\ Torn.kind = "torn" /\ Torn.tags = {}
<1>1. NoImage.kind = "none" /\ NoImage.tags = {}
  BY DEF NoImage
<1>2. Torn.kind = "torn" /\ Torn.tags = {}
  BY DEF Torn, NoImage
<1> QED
  BY <1>1, <1>2

(***************************************************************************)
(* Types, together with the lock: a replay stays inside the log because    *)
(* nobody but the handle that holds the lock touches the log.              *)
(***************************************************************************)

\* The initial state is typed and nobody holds the lock.
LEMMA InitTyped == Init => TypeOK /\ LockHeld
<1> SUFFICES ASSUME Init PROVE TypeOK /\ LockHeld
  OBVIOUS
<1>1. DiskTyped
  BY Empties DEF Init, DiskTyped, Kinds
<1>2. ControlTyped
  BY RootIsContext DEF Init, ControlTyped, Steps
<1>3. PlanTyped
  BY Empties DEF Init, PlanTyped
<1>4. GhostTyped
  BY DEF Init, GhostTyped
<1>5. \A h \in Handles : pc[h] = "closed"
  BY DEF Init
<1> QED
  BY <1>1, <1>2, <1>3, <1>4, <1>5 DEF TypeOK, LockHeld

\* Only Open takes the lock, and only from nobody.
LEMMA NextLockHeld == TypeOK /\ LockHeld /\ [Next]_vars => LockHeld'
<1> SUFFICES ASSUME TypeOK, LockHeld, [Next]_vars
             PROVE  LockHeld'
  OBVIOUS
<1> USE DEF diskVars, handleVars, ghostVars
<1>1. pc \in [Handles -> Steps] /\ Free \notin Handles
  BY FreeIsNoHandle DEF TypeOK, ControlTyped
<1>2. ASSUME NEW h \in Handles, Open(h)
      PROVE  LockHeld'
  BY <1>1, <1>2 DEF Open, LockHeld
<1>3. ASSUME NEW h \in Handles, pc[h] # "closed", lock' = lock,
             NEW step \in Steps, pc' = [pc EXCEPT ![h] = step]
      PROVE  LockHeld'
  BY <1>1, <1>3 DEF LockHeld
<1>4. ASSUME NEW h \in Handles, pc[h] # "closed", Leave(h)
      PROVE  LockHeld'
  BY <1>1, <1>4 DEF Leave, LockHeld
<1>5. ASSUME NEW h \in Handles, ClearStaleLock(h)
      PROVE  LockHeld'
  BY <1>1, <1>5 DEF ClearStaleLock, LockHeld
<1>6. ASSUME UNCHANGED <<lock, pc>>
      PROVE  LockHeld'
  BY <1>6 DEF LockHeld
<1>7. CASE UNCHANGED vars
  BY <1>7, <1>6 DEF vars
<1>8. ASSUME NEW h \in Handles, LoadMain(h) \/ ReplayFrame(h) \/ EndReplay(h)
      PROVE  LockHeld'
  BY <1>8, <1>3, <1>6 DEF LoadMain, ReplayFrame, EndReplay, Steps
<1>9. ASSUME NEW h \in Handles, NEW plan \in Plans,
             RunPlan(h, plan) \/ ExecuteFails(h, plan) \/ ClaimFails(h, plan)
      PROVE  LockHeld'
  BY <1>9, <1>3, <1>6 DEF RunPlan, ExecuteFails, ClaimFails, Steps
<1>10. ASSUME NEW h \in Handles, LogStatement(h) \/ AppendFails(h) \/ FinishPlan(h)
       PROVE  LockHeld'
  BY <1>10, <1>3, <1>6 DEF LogStatement, AppendFails, FinishPlan, ReturnOk, StopPlan, Steps
<1>11. ASSUME NEW h \in Handles,
              AutoCheckpoint(h) \/ Flush(h) \/ WriteTmp(h) \/ SyncTmp(h) \/ Rename(h)
       PROVE  LockHeld'
  BY <1>11, <1>3
  DEF AutoCheckpoint, Flush, BeginCheckpoint, WriteTmp, SyncTmp, Rename, Steps
<1>12. ASSUME NEW h \in Handles, TruncateWal(h) \/ CheckpointFails(h)
       PROVE  LockHeld'
  BY <1>12, <1>3 DEF TruncateWal, CheckpointFails, ReturnOk, StopPlan, Steps
<1>13. ASSUME NEW h \in Handles, Close(h) \/ Crash(h) \/ LoadFails(h)
       PROVE  LockHeld'
  BY <1>13, <1>4 DEF Close, Crash, LoadFails
<1> QED
  BY <1>2, <1>5, <1>7, <1>8, <1>9, <1>10, <1>11, <1>12, <1>13 DEF Next

\* A handle that leaves the store does so in a typed state.
LEMMA LeaveTyped ==
    ASSUME TypeOK, LockHeld, NEW h \in Handles, pc[h] # "closed", Leave(h),
           lock' \in Handles \cup {Free}, wal' \in Seq(Frames)
    PROVE  TypeOK'
<1>1. DiskTyped'
  BY DEF Leave, TypeOK, DiskTyped
<1>2. ControlTyped'
  BY RootIsContext DEF Leave, TypeOK, ControlTyped, Steps
<1>3. PlanTyped'
  BY DEF Leave, TypeOK, PlanTyped, ControlTyped
<1>4. GhostTyped'
  <2>1. done' \in [Handles -> SUBSET Tags]
    BY DEF Leave, TypeOK, GhostTyped
  <2>2. stops \in Nat /\ stops' = stops + 1 /\ dirty' = FALSE
    BY DEF Leave, TypeOK, GhostTyped
  <2>3. stops' \in Nat
    BY <2>2
  <2>4. dirty' \in BOOLEAN
    BY <2>2, Zenon
  <2>5. UNCHANGED <<acked, flushes>>
    BY DEF Leave
  <2> QED
    BY <2>1, <2>3, <2>4, <2>5 DEF TypeOK, GhostTyped
<1>5. \A g \in Handles : pc'[g] # "replay"
  BY DEF Leave, TypeOK, ControlTyped, LockHeld
<1> QED
  BY <1>1, <1>2, <1>3, <1>4, <1>5 DEF TypeOK

\* Returning keeps the types of everything a return changes.
LEMMA StopPlanTyped ==
    ASSUME TypeOK, LockHeld, NEW h \in Handles, pc[h] # "closed", StopPlan(h),
           UNCHANGED <<walLen, pos, issued>>
    PROVE  /\ ControlTyped' /\ PlanTyped'
           /\ \A g \in Handles : pc'[g] # "replay"
           /\ cur[h] # 0 => PlanTags(cur[h]) \subseteq Tags
<1>1. ControlTyped'
  BY RootIsContext DEF StopPlan, TypeOK, ControlTyped, Steps
<1>2. PlanTyped'
  BY DEF StopPlan, TypeOK, PlanTyped, ControlTyped
<1>3. cur[h] # 0 => cur[h] \in 1..Len(issued)
  BY DEF TypeOK, PlanTyped
<1>4. \A g \in Handles : pc'[g] # "replay"
  BY DEF StopPlan, TypeOK, ControlTyped, LockHeld
<1> QED
  BY <1>1, <1>2, <1>3, <1>4, PlanTagsTyped

\* A step that leaves the files and the control state alone keeps their types.
LEMMA StillTyped ==
    ASSUME TypeOK,
           UNCHANGED <<diskVars, pc, walLen, pos, cur, at, planCtx, issued, acked, done>>,
           dirty' \in BOOLEAN, stops' \in Nat, flushes' \in Nat
    PROVE  TypeOK'
<1>1. DiskTyped'
  BY DEF TypeOK, DiskTyped, diskVars
<1>2. ControlTyped'
  BY DEF TypeOK, ControlTyped
<1>3. PlanTyped'
  BY DEF TypeOK, PlanTyped
<1>4. GhostTyped'
  BY DEF TypeOK, GhostTyped
<1>5. \A g \in Handles : pc'[g] = "replay" => pos'[g] <= Len(wal')
  BY DEF TypeOK, diskVars
<1> QED
  BY <1>1, <1>2, <1>3, <1>4, <1>5 DEF TypeOK

\* Every step keeps the types.
LEMMA NextTyped == TypeOK /\ LockHeld /\ [Next]_vars => TypeOK'
<1> SUFFICES ASSUME TypeOK, LockHeld, [Next]_vars
             PROVE  TypeOK'
  OBVIOUS
<1> USE DEF diskVars, handleVars, ghostVars
<1>1. CASE UNCHANGED vars
  <2>1. dirty' \in BOOLEAN /\ stops' \in Nat /\ flushes' \in Nat
    BY <1>1 DEF vars, TypeOK, GhostTyped
  <2> QED
    BY <1>1, <2>1, StillTyped DEF vars
<1>2. ASSUME NEW h \in Handles, Open(h)
      PROVE  TypeOK'
  <2>1. DiskTyped'
    BY <1>2 DEF Open, TypeOK, DiskTyped
  <2>2. ControlTyped' /\ PlanTyped'
    BY <1>2 DEF Open, TypeOK, ControlTyped, PlanTyped, Steps
  <2>3. GhostTyped'
    BY <1>2 DEF Open, TypeOK, GhostTyped
  <2>4. \A g \in Handles : pc'[g] = "replay" => pos'[g] <= Len(wal')
    BY <1>2 DEF Open, TypeOK, DiskTyped, ControlTyped
  <2> QED
    BY <2>1, <2>2, <2>3, <2>4 DEF TypeOK
<1>3. ASSUME NEW h \in Handles, LoadMain(h)
      PROVE  TypeOK'
  <2>1. DiskTyped'
    BY <1>3 DEF LoadMain, TypeOK, DiskTyped
  <2>2. ControlTyped' /\ PlanTyped'
    BY <1>3 DEF LoadMain, TypeOK, ControlTyped, PlanTyped, Steps
  <2>3. GhostTyped'
    BY <1>3 DEF LoadMain, TypeOK, GhostTyped, DiskTyped
  <2>4. \A g \in Handles : pc'[g] = "replay" => pos'[g] <= Len(wal')
    BY <1>3 DEF LoadMain, TypeOK, DiskTyped, ControlTyped
  <2> QED
    BY <2>1, <2>2, <2>3, <2>4 DEF TypeOK
<1>4. ASSUME NEW h \in Handles, ReplayFrame(h)
      PROVE  TypeOK'
  <2>1. wal[pos[h] + 1] \in Frames /\ pos[h] + 1 <= Len(wal)
    BY <1>4 DEF ReplayFrame, NextFrameIntact, TypeOK, DiskTyped, ControlTyped
  <2>2. wal[pos[h] + 1].tag \in Tags
    BY <2>1 DEF Frames
  <2>3. GhostTyped'
    BY <1>4, <2>2 DEF ReplayFrame, TypeOK, GhostTyped
  <2>4. DiskTyped' /\ ControlTyped' /\ PlanTyped'
    BY SMTT(30), <1>4 DEF ReplayFrame, TypeOK, DiskTyped, ControlTyped, PlanTyped
  <2>5. \A g \in Handles : pc'[g] = "replay" => pos'[g] <= Len(wal')
    BY <1>4, <2>1 DEF ReplayFrame, TypeOK, ControlTyped
  <2> QED
    BY <2>3, <2>4, <2>5 DEF TypeOK
<1>5. ASSUME NEW h \in Handles, EndReplay(h)
      PROVE  TypeOK'
  <2>1. wal' \in Seq(Frames)
    BY <1>5 DEF EndReplay, TypeOK, DiskTyped, ControlTyped
  <2>2. \A g \in Handles : pc'[g] # "replay"
    BY <1>5 DEF EndReplay, TypeOK, ControlTyped, LockHeld
  <2>3. DiskTyped' /\ GhostTyped'
    BY <1>5, <2>1 DEF EndReplay, TypeOK, DiskTyped, GhostTyped
  <2>4. ControlTyped' /\ PlanTyped'
    BY <1>5 DEF EndReplay, TypeOK, ControlTyped, PlanTyped, Steps
  <2> QED
    BY <2>2, <2>3, <2>4 DEF TypeOK
<1>6. ASSUME NEW h \in Handles, NEW plan \in Plans, RunPlan(h, plan)
      PROVE  TypeOK'
  <2>1. done' \in [Handles -> SUBSET Tags]
    BY <1>6, PositionsAreNats DEF RunPlan, TypeOK, GhostTyped, PlanTyped, Tags
  <2>2. ControlTyped'
    BY <1>6, RootIsContext DEF RunPlan, TypeOK, ControlTyped, PlanTyped, Steps
  <2>3. PlanTyped'
    BY <1>6 DEF RunPlan, TypeOK, ControlTyped, PlanTyped
  <2>4. DiskTyped' /\ GhostTyped'
    BY <1>6, <2>1 DEF RunPlan, TypeOK, DiskTyped, GhostTyped
  <2>5. \A g \in Handles : pc'[g] # "replay"
    BY <1>6 DEF RunPlan, TypeOK, ControlTyped, LockHeld
  <2> QED
    BY <2>2, <2>3, <2>4, <2>5 DEF TypeOK
<1>7. ASSUME NEW h \in Handles, NEW plan \in Plans, ExecuteFails(h, plan)
      PROVE  TypeOK'
  <2>1. PICK run \in Runs(h, plan) :
            dirty' = (dirty \/ SnapshotOf(run.store) # SnapshotOf(mem[h].store))
    BY <1>7 DEF ExecuteFails
  <2>2. dirty' \in BOOLEAN
    BY <2>1
  <2>3. stops' \in Nat /\ flushes' \in Nat
    BY <1>7 DEF ExecuteFails, TypeOK, GhostTyped
  <2> QED
    BY <1>7, <2>2, <2>3, StillTyped DEF ExecuteFails
<1>8. ASSUME NEW h \in Handles, NEW plan \in Plans, ClaimFails(h, plan)
      PROVE  TypeOK'
  <2>1. dirty' \in BOOLEAN /\ stops' \in Nat /\ flushes' \in Nat
    BY <1>8 DEF ClaimFails, TypeOK, GhostTyped
  <2> QED
    BY <1>8, <2>1, StillTyped DEF ClaimFails
<1>9. ASSUME NEW h \in Handles, LogStatement(h)
      PROVE  TypeOK'
  <2>1. PICK i \in Positions(issued[cur[h]]) :
            /\ wal' = Append(wal, Frame(h, i))
            /\ at' = [at EXCEPT ![h] = i]
            /\ planCtx' = [planCtx EXCEPT ![h] = LET stmt == Frame(h, i).stmt IN
                                IF stmt.op = "memory" THEN stmt.name ELSE @]
    BY <1>9 DEF LogStatement
  <2>2. Frame(h, i) \in Frames /\ i \in Nat
    BY <1>9, FrameTyped DEF LogStatement
  <2>3. Frame(h, i).stmt.op = "memory" => Frame(h, i).stmt.name \in Contexts
    BY <2>2 DEF Frames, Contexts
  <2>4. ControlTyped'
    BY <1>9, <2>1, <2>2, <2>3 DEF LogStatement, TypeOK, ControlTyped
  <2>5. wal' \in Seq(Frames) /\ Len(wal') = Len(wal) + 1
    BY <2>1, <2>2 DEF TypeOK, DiskTyped
  <2>6. DiskTyped' /\ PlanTyped' /\ GhostTyped'
    BY <1>9, <2>5 DEF LogStatement, TypeOK, DiskTyped, PlanTyped, GhostTyped
  <2>7. \A g \in Handles : pc'[g] # "replay"
    BY <1>9 DEF LogStatement, LockHeld
  <2> QED
    BY <2>4, <2>6, <2>7 DEF TypeOK
<1>10. ASSUME NEW h \in Handles, AppendFails(h)
       PROVE  TypeOK'
  <2>1. PICK i \in Positions(issued[cur[h]]) : wal' \in AfterFailedCall(Frame(h, i))
    BY <1>10 DEF AppendFails
  <2>2. Frame(h, i) \in Frames /\ TornFrame(Frame(h, i)) \in Frames
    BY <1>10, FrameTyped, TornFrameTyped DEF AppendFails
  <2>3. wal' \in Seq(Frames)
    BY <2>1, <2>2 DEF AfterFailedCall, AfterFailedAppend, TypeOK, DiskTyped
  <2> QED
    BY <1>10, <2>3, StopPlanTyped DEF AppendFails, TypeOK, DiskTyped, GhostTyped
<1>11. ASSUME NEW h \in Handles, FinishPlan(h)
       PROVE  TypeOK'
  BY <1>11, StopPlanTyped DEF FinishPlan, ReturnOk, TypeOK, DiskTyped, GhostTyped
<1>12. ASSUME NEW h \in Handles, AutoCheckpoint(h) \/ Flush(h)
       PROVE  TypeOK'
  <2>1. ControlTyped' /\ PlanTyped'
    BY <1>12
    DEF AutoCheckpoint, Flush, BeginCheckpoint, TypeOK, ControlTyped, PlanTyped, Steps
  <2>2. DiskTyped' /\ GhostTyped'
    BY <1>12 DEF AutoCheckpoint, Flush, BeginCheckpoint, TypeOK, DiskTyped, GhostTyped
  <2>3. \A g \in Handles : pc'[g] # "replay"
    BY <1>12 DEF AutoCheckpoint, Flush, BeginCheckpoint, TypeOK, ControlTyped, LockHeld
  <2> QED
    BY <2>1, <2>2, <2>3 DEF TypeOK
<1>13. ASSUME NEW h \in Handles, WriteTmp(h)
       PROVE  TypeOK'
  <2>1. DiskTyped'
    BY <1>13, Empties DEF WriteTmp, TypeOK, DiskTyped, Kinds
  <2>2. ControlTyped' /\ PlanTyped'
    BY <1>13 DEF WriteTmp, TypeOK, ControlTyped, PlanTyped, Steps
  <2>3. GhostTyped'
    BY <1>13 DEF WriteTmp, TypeOK, GhostTyped
  <2>4. \A g \in Handles : pc'[g] = "replay" => pos'[g] <= Len(wal')
    BY <1>13 DEF WriteTmp, TypeOK, DiskTyped, ControlTyped
  <2> QED
    BY <2>1, <2>2, <2>3, <2>4 DEF TypeOK
<1>14. ASSUME NEW h \in Handles, SyncTmp(h)
       PROVE  TypeOK'
  <2>0. ImageOf(h).kind = "image" /\ ImageOf(h).tags \subseteq Tags
    BY DEF ImageOf, TypeOK, GhostTyped
  <2>1. DiskTyped'
    BY <1>14, <2>0 DEF SyncTmp, TypeOK, DiskTyped, Kinds
  <2>2. ControlTyped' /\ PlanTyped'
    BY <1>14 DEF SyncTmp, TypeOK, ControlTyped, PlanTyped, Steps
  <2>3. GhostTyped'
    BY <1>14 DEF SyncTmp, TypeOK, GhostTyped
  <2>4. \A g \in Handles : pc'[g] = "replay" => pos'[g] <= Len(wal')
    BY <1>14 DEF SyncTmp, TypeOK, DiskTyped, ControlTyped
  <2> QED
    BY <2>1, <2>2, <2>3, <2>4 DEF TypeOK
<1>15. ASSUME NEW h \in Handles, Rename(h)
       PROVE  TypeOK'
  <2>1. DiskTyped'
    BY <1>15, Empties DEF Rename, TypeOK, DiskTyped, Kinds
  <2>2. ControlTyped' /\ PlanTyped'
    BY <1>15 DEF Rename, TypeOK, ControlTyped, PlanTyped, Steps
  <2>3. GhostTyped'
    BY <1>15 DEF Rename, TypeOK, GhostTyped
  <2>4. \A g \in Handles : pc'[g] = "replay" => pos'[g] <= Len(wal')
    BY <1>15 DEF Rename, TypeOK, DiskTyped, ControlTyped
  <2> QED
    BY <2>1, <2>2, <2>3, <2>4 DEF TypeOK
<1>16. ASSUME NEW h \in Handles, TruncateWal(h)
       PROVE  TypeOK'
  <2>1. [walLen EXCEPT ![h] = 0] \in [Handles -> Nat]
    BY DEF TypeOK, ControlTyped
  <2>2. /\ ControlTyped' /\ PlanTyped'
        /\ \A g \in Handles : pc'[g] # "replay"
        /\ cur[h] # 0 => PlanTags(cur[h]) \subseteq Tags
    BY SMTT(30), <1>16, <2>1, RootIsContext, PlanTagsTyped
    DEF TruncateWal, ReturnOk, StopPlan, TypeOK, ControlTyped, PlanTyped, LockHeld, Steps
  <2> QED
    BY <1>16, <2>2, Empties DEF TruncateWal, ReturnOk, TypeOK, DiskTyped, GhostTyped
<1>17. ASSUME NEW h \in Handles, CheckpointFails(h)
       PROVE  TypeOK'
  <2>1. wal' \in Seq(Frames)
    BY <1>17, Empties DEF CheckpointFails, TypeOK, DiskTyped
  <2>2. dirty' \in BOOLEAN
    BY <1>17 DEF CheckpointFails
  <2> QED
    BY <1>17, <2>1, <2>2, StopPlanTyped DEF CheckpointFails, TypeOK, DiskTyped, GhostTyped
<1>18. ASSUME NEW h \in Handles, Close(h)
       PROVE  TypeOK'
  BY <1>18, LeaveTyped DEF Close, TypeOK, DiskTyped
<1>19. ASSUME NEW h \in Handles, Crash(h)
       PROVE  TypeOK'
  <2>1. wal' \in Seq(Frames)
    <3>1. ASSUME NEW i \in Positions(issued[cur[h]]), pc[h] = "log",
                 wal' \in AfterFailedAppend(Frame(h, i))
          PROVE  wal' \in Seq(Frames)
      <4>1. Frame(h, i) \in Frames /\ TornFrame(Frame(h, i)) \in Frames
        BY <3>1, FrameTyped, TornFrameTyped
      <4> QED
        BY <3>1, <4>1 DEF AfterFailedAppend, TypeOK, DiskTyped
    <3> QED
      BY <1>19, <3>1 DEF Crash, TypeOK, DiskTyped
  <2> QED
    BY <1>19, <2>1, LeaveTyped DEF Crash
<1>20. ASSUME NEW h \in Handles, LoadFails(h)
       PROVE  TypeOK'
  BY <1>20, LeaveTyped DEF LoadFails, TypeOK, DiskTyped
<1>21. ASSUME NEW h \in Handles, ClearStaleLock(h)
       PROVE  TypeOK'
  <2>1. DiskTyped'
    BY <1>21 DEF ClearStaleLock, TypeOK, DiskTyped
  <2>2. ControlTyped' /\ PlanTyped' /\ GhostTyped'
    BY <1>21 DEF ClearStaleLock, TypeOK, ControlTyped, PlanTyped, GhostTyped
  <2>3. \A g \in Handles : pc'[g] = "replay" => pos'[g] <= Len(wal')
    BY <1>21 DEF ClearStaleLock, TypeOK
  <2> QED
    BY <2>1, <2>2, <2>3 DEF TypeOK
<1> QED
  BY <1>1, <1>2, <1>3, <1>4, <1>5, <1>6, <1>7, <1>8, <1>9, <1>10, <1>11, <1>12, <1>13, <1>14,
     <1>15, <1>16, <1>17, <1>18, <1>19, <1>20, <1>21 DEF Next

\* Types hold throughout: for any plans, whatever fails and whenever it crashes.
THEOREM TypeCorrect == Spec => []TypeOK
<1>1. Spec => [](TypeOK /\ LockHeld)
  BY InitTyped, NextTyped, NextLockHeld, PTL DEF Spec
<1> QED
  BY <1>1, PTL

\* A handle inside the store holds the lock, so there is at most one of them.
THEOREM OneWriter == Spec => []SingleWriter
<1>1. Spec => [](TypeOK /\ LockHeld)
  BY InitTyped, NextTyped, NextLockHeld, PTL DEF Spec
<1>2. LockHeld => SingleWriter
  BY DEF LockHeld, SingleWriter
<1> QED
  BY <1>1, <1>2, PTL

(***************************************************************************)
(* The main file, whatever fails: it is replaced in one step, by a file    *)
(* that has been written in full.                                          *)
(***************************************************************************)

RenameWhole == MainWhole /\ \A h \in Handles : pc[h] = "rename" => tmp.kind = "image"

\* Every step keeps the temporary file whole where it is about to be renamed.
LEMMA NextRenameWhole ==
    ASSUME TypeOK, LockHeld, RenameWhole, [Next]_vars
    PROVE  RenameWhole'
<1> USE DEF diskVars, handleVars, ghostVars
<1>t. pc \in [Handles -> Steps]
  BY DEF TypeOK, ControlTyped
<1>1. ASSUME UNCHANGED <<main, tmp>>,
             \A g \in Handles : pc'[g] = "rename" => pc[g] = "rename"
      PROVE  RenameWhole'
  BY <1>1 DEF RenameWhole, MainWhole
<1>2. CASE UNCHANGED vars
  BY <1>1, <1>2 DEF vars
<1>3. ASSUME NEW h \in Handles,
             Open(h) \/ LoadMain(h) \/ ReplayFrame(h) \/ EndReplay(h) \/ ClearStaleLock(h)
      PROVE  RenameWhole'
  BY <1>1, <1>3, <1>t DEF Open, LoadMain, ReplayFrame, EndReplay, ClearStaleLock
<1>4. ASSUME NEW h \in Handles, NEW plan \in Plans,
             RunPlan(h, plan) \/ ExecuteFails(h, plan) \/ ClaimFails(h, plan)
      PROVE  RenameWhole'
  BY <1>1, <1>4, <1>t DEF RunPlan, ExecuteFails, ClaimFails
<1>5. ASSUME NEW h \in Handles, LogStatement(h) \/ AppendFails(h) \/ FinishPlan(h)
      PROVE  RenameWhole'
  BY <1>1, <1>5, <1>t DEF LogStatement, AppendFails, FinishPlan, ReturnOk, StopPlan
<1>6. ASSUME NEW h \in Handles, AutoCheckpoint(h) \/ Flush(h)
      PROVE  RenameWhole'
  BY <1>1, <1>6, <1>t DEF AutoCheckpoint, Flush, BeginCheckpoint
<1>7. ASSUME NEW h \in Handles, WriteTmp(h)
      PROVE  RenameWhole'
  BY <1>7, <1>t DEF WriteTmp, RenameWhole, MainWhole, LockHeld
<1>8. ASSUME NEW h \in Handles, SyncTmp(h)
      PROVE  RenameWhole'
  <2>1. tmp'.kind = "image"
    BY <1>8 DEF SyncTmp, ImageOf
  <2> QED
    BY <1>8, <2>1 DEF SyncTmp, RenameWhole, MainWhole
<1>9. ASSUME NEW h \in Handles, Rename(h)
      PROVE  RenameWhole'
  <2>1. main'.kind = "image"
    BY <1>9 DEF Rename, RenameWhole
  <2>2. \A g \in Handles : pc'[g] # "rename"
    BY <1>9, <1>t DEF Rename, LockHeld
  <2> QED
    BY <2>1, <2>2 DEF RenameWhole, MainWhole
<1>10. ASSUME NEW h \in Handles, TruncateWal(h) \/ CheckpointFails(h)
       PROVE  RenameWhole'
  BY <1>1, <1>10, <1>t DEF TruncateWal, CheckpointFails, ReturnOk, StopPlan
<1>11. ASSUME NEW h \in Handles, Close(h) \/ Crash(h) \/ LoadFails(h)
       PROVE  RenameWhole'
  BY <1>1, <1>11, <1>t DEF Close, Crash, LoadFails, Leave
<1> QED
  BY <1>2, <1>3, <1>4, <1>5, <1>6, <1>7, <1>8, <1>9, <1>10, <1>11 DEF Next

\* No open ever meets a main file written in part.
THEOREM MainFileWhole == Spec => []MainWhole
<1>1. Init => TypeOK /\ LockHeld /\ RenameWhole
  <2>1. Init => RenameWhole
    BY Empties DEF Init, RenameWhole, MainWhole
  <2> QED
    BY <2>1, InitTyped
<1>2. TypeOK /\ LockHeld /\ RenameWhole /\ [Next]_vars => (TypeOK /\ LockHeld /\ RenameWhole)'
  BY NextTyped, NextLockHeld, NextRenameWhole
<1>3. RenameWhole => MainWhole
  BY DEF RenameWhole
<1> QED
  BY <1>1, <1>2, <1>3, PTL DEF Spec

(***************************************************************************)
(* The write-ahead log, for any handles, plans, threshold and faults: its  *)
(* frames are in the order in which the statements ran, none without the   *)
(* earlier ones of its plan, and the counter that triggers checkpoints     *)
(* covers it as long as an append either succeeds or leaves nothing.       *)
(***************************************************************************)

\* A handle in the store counts at least the frames that are there.
CounterCovers == \A h \in Handles : pc[h] # "closed" => walLen[h] >= Len(wal)

\* Every step keeps the counter at or above the length of the log, if a failed
\* append leaves nothing behind the counter.
LEMMA NextCounterCovers ==
    ASSUME TypeOK, LockHeld, CounterCovers, "append" \notin IoErrors, [Next]_vars
    PROVE  CounterCovers'
<1> USE DEF diskVars, handleVars, ghostVars
<1>t. /\ pc \in [Handles -> Steps] /\ walLen \in [Handles -> Nat] /\ pos \in [Handles -> Nat]
      /\ wal \in Seq(Frames) /\ Len(wal) \in Nat
  BY DEF TypeOK, ControlTyped, DiskTyped
<1>1. ASSUME UNCHANGED walLen, Len(wal') <= Len(wal), Len(wal') \in Nat,
             \A g \in Handles : pc'[g] # "closed" => pc[g] # "closed"
      PROVE  CounterCovers'
  BY <1>1, <1>t DEF CounterCovers
<1>2. CASE UNCHANGED vars
  BY <1>1, <1>2, <1>t DEF vars
<1>3. ASSUME NEW h \in Handles, Open(h)
      PROVE  CounterCovers'
  <2>1. \A g \in Handles \ {h} : pc'[g] = "closed"
    BY <1>3, <1>t, FreeIsNoHandle DEF Open, LockHeld
  <2>2. walLen'[h] = Len(wal) /\ wal' = wal
    BY <1>3, <1>t DEF Open
  <2> QED
    BY <2>1, <2>2, <1>t DEF CounterCovers
<1>4. ASSUME NEW h \in Handles, LoadMain(h) \/ ReplayFrame(h) \/ EndReplay(h) \/ ClearStaleLock(h)
      PROVE  CounterCovers'
  <2>1. EndReplay(h) => Len(wal') <= Len(wal) /\ Len(wal') \in Nat
    BY <1>t DEF EndReplay, TypeOK
  <2> QED
    BY <1>1, <1>4, <1>t, <2>1 DEF LoadMain, ReplayFrame, EndReplay, ClearStaleLock
<1>5. ASSUME NEW h \in Handles, NEW plan \in Plans,
             RunPlan(h, plan) \/ ExecuteFails(h, plan) \/ ClaimFails(h, plan)
      PROVE  CounterCovers'
  BY <1>1, <1>5, <1>t DEF RunPlan, ExecuteFails, ClaimFails
<1>6. ASSUME NEW h \in Handles, LogStatement(h)
      PROVE  CounterCovers'
  <2>1. PICK i \in Positions(issued[cur[h]]) : wal' = Append(wal, Frame(h, i))
    BY <1>6 DEF LogStatement
  <2>2. Frame(h, i) \in Frames
    BY <1>6, FrameTyped DEF LogStatement
  <2>3. Len(wal') = Len(wal) + 1
    BY <2>1, <2>2, <1>t
  <2>4. walLen' = [walLen EXCEPT ![h] = @ + 1] /\ pc' = pc /\ pc[h] = "log"
    BY <1>6 DEF LogStatement
  <2>5. \A g \in Handles \ {h} : pc[g] = "closed"
    BY <2>4 DEF LockHeld
  <2> QED
    BY <2>3, <2>4, <2>5, <1>t DEF CounterCovers
<1>7. ASSUME NEW h \in Handles, FinishPlan(h) \/ AutoCheckpoint(h) \/ Flush(h)
      PROVE  CounterCovers'
  BY <1>1, <1>7, <1>t DEF FinishPlan, AutoCheckpoint, Flush, BeginCheckpoint, ReturnOk, StopPlan
<1>8. ASSUME NEW h \in Handles, WriteTmp(h) \/ SyncTmp(h) \/ Rename(h)
      PROVE  CounterCovers'
  BY <1>1, <1>8, <1>t DEF WriteTmp, SyncTmp, Rename
<1>9. ASSUME NEW h \in Handles, TruncateWal(h) \/ CheckpointFails(h)
      PROVE  CounterCovers'
  <2>1. /\ wal' = wal \/ (wal' = <<>> /\ Len(wal') = 0)
        /\ walLen' = walLen \/ (walLen' = [walLen EXCEPT ![h] = 0] /\ wal' = <<>>)
    BY <1>9 DEF TruncateWal, CheckpointFails
  <2>2. pc[h] # "closed" /\ pc' = [pc EXCEPT ![h] = "idle"]
    BY <1>9 DEF TruncateWal, CheckpointFails, ReturnOk, StopPlan
  <2> QED
    BY <2>1, <2>2, <1>t DEF CounterCovers
<1>10. ASSUME NEW h \in Handles, Close(h) \/ Crash(h) \/ LoadFails(h)
       PROVE  CounterCovers'
  <2>1. pc[h] # "closed" /\ pc' = [pc EXCEPT ![h] = "closed"]
    BY <1>10 DEF Close, Crash, LoadFails, Leave
  <2>2. \A g \in Handles : pc'[g] = "closed"
    BY <2>1, <1>t DEF LockHeld
  <2> QED
    BY <2>2 DEF CounterCovers
<1>11. \A h \in Handles : ~AppendFails(h)
  BY DEF AppendFails
<1> QED
  BY <1>2, <1>3, <1>4, <1>5, <1>6, <1>7, <1>8, <1>9, <1>10, <1>11 DEF Next

\* As long as no append fails, the log never outgrows the counter that triggers
\* checkpoints, through recoveries, torn tails and failed checkpoints.
THEOREM LogIsCounted == "append" \notin IoErrors => (Spec => []CounterCoversLog)
<1> SUFFICES ASSUME "append" \notin IoErrors PROVE Spec => []CounterCoversLog
  OBVIOUS
<1>1. Init => TypeOK /\ LockHeld /\ CounterCovers
  <2>1. Init => CounterCovers
    BY DEF Init, CounterCovers
  <2> QED
    BY <2>1, InitTyped
<1>2. TypeOK /\ LockHeld /\ CounterCovers /\ [Next]_vars => (TypeOK /\ LockHeld /\ CounterCovers)'
  BY NextTyped, NextLockHeld, NextCounterCovers
<1>3. CounterCovers => CounterCoversLog
  BY DEF CounterCovers, CounterCoversLog
<1> QED
  BY <1>1, <1>2, <1>3, PTL DEF Spec

(***************************************************************************)
(* The order of the log.                                                   *)
(***************************************************************************)

Before(tag, later) == tag.plan < later.plan \/ (tag.plan = later.plan /\ tag.i < later.i)

\* A frame is behind everything that ran before it, and the statements of its
\* plan before it are there.
InPlace(i) ==
    /\ wal[i].tag.plan \in 1..Len(issued)
    /\ \A j \in 1..(i - 1) : Before(wal[j].tag, wal[i].tag)
    /\ \A k \in Positions(issued[wal[i].tag.plan]) :
          k < wal[i].tag.i => \E j \in 1..i : wal[j].tag = [plan |-> wal[i].tag.plan, i |-> k]

\* The plan being logged is the last one, and the log has it up to at[h].
LoggedUpTo(h) ==
    pc[h] = "log" =>
        /\ cur[h] = Len(issued)
        /\ \A i \in DOMAIN wal : wal[i].tag.plan = cur[h] => wal[i].tag.i <= at[h]
        /\ \A k \in Positions(issued[cur[h]]) :
              k <= at[h] => \E j \in DOMAIN wal : wal[j].tag = [plan |-> cur[h], i |-> k]

LogOrdered == (\A i \in DOMAIN wal : InPlace(i)) /\ \A h \in Handles : LoggedUpTo(h)

\* A frame stays in its place when what is before it stays.
LEMMA StaysInPlace ==
    ASSUME TypeOK, NEW i \in DOMAIN wal, InPlace(i),
           \A j \in 1..i : wal'[j] = wal[j],
           issued' = issued \/ \E plan \in Plans : issued' = Append(issued, plan)
    PROVE  InPlace(i)'
<1>1. i \in 1..Len(wal) /\ Len(wal) \in Nat /\ Len(issued) \in Nat
  BY DEF TypeOK, DiskTyped, PlanTyped
<1>2. Len(issued') >= Len(issued) /\ Len(issued') \in Nat
  BY <1>1 DEF TypeOK, PlanTyped
<1>3. \A n \in 1..Len(issued) : issued'[n] = issued[n]
  BY <1>1 DEF TypeOK, PlanTyped
<1>4. wal'[i] = wal[i] /\ \A j \in 1..(i - 1) : wal'[j] = wal[j]
  BY <1>1
<1>5. wal'[i].tag.plan \in 1..Len(issued')
  BY <1>1, <1>2, <1>4 DEF InPlace
<1>6. issued'[wal'[i].tag.plan] = issued[wal[i].tag.plan]
  BY <1>3, <1>4 DEF InPlace
<1> QED
  BY <1>4, <1>5, <1>6 DEF InPlace

\* Nobody else is logging.
LEMMA OthersDoNotLog ==
    ASSUME TypeOK, LockHeld, NEW h \in Handles, pc[h] # "closed",
           \A g \in Handles \ {h} : pc'[g] = pc[g],
           LoggedUpTo(h)', \A i \in DOMAIN wal' : InPlace(i)'
    PROVE  LogOrdered'
<1>1. \A g \in Handles \ {h} : pc'[g] # "log"
  BY DEF LockHeld
<1> QED
  BY <1>1 DEF LogOrdered, LoggedUpTo

\* The log as it was, cut behind some frame, or emptied.
LEMMA CutInPlace ==
    ASSUME TypeOK, LogOrdered, NEW n \in 0..Len(wal), wal' = SubSeq(wal, 1, n),
           issued' = issued
    PROVE  \A i \in DOMAIN wal' : InPlace(i)'
<1>1. /\ DOMAIN wal' = 1..n /\ DOMAIN wal = 1..Len(wal) /\ Len(wal) \in Nat /\ n \in Nat
      /\ \A i \in 1..n : wal'[i] = wal[i]
  BY DEF TypeOK, DiskTyped
<1>2. ASSUME NEW i \in DOMAIN wal'
      PROVE  InPlace(i)'
  <2>1. i \in DOMAIN wal /\ \A j \in 1..i : wal'[j] = wal[j]
    BY <1>1
  <2> QED
    BY <2>1, StaysInPlace DEF LogOrdered
<1> QED
  BY <1>2

\* A log that is left alone stays in order.
LEMMA SameInPlace ==
    ASSUME TypeOK, LogOrdered, wal' = wal,
           issued' = issued \/ \E plan \in Plans : issued' = Append(issued, plan)
    PROVE  \A i \in DOMAIN wal' : InPlace(i)'
BY StaysInPlace DEF LogOrdered

\* A frame of the next position goes behind what is there, torn or not.
LEMMA AppendInPlace ==
    ASSUME TypeOK, LogOrdered, NEW h \in Handles, pc[h] = "log",
           NEW i \in Positions(issued[cur[h]]), NextPosition(h, i),
           NEW f \in Frames, f.tag = [plan |-> cur[h], i |-> i],
           wal' = Append(wal, f), issued' = issued
    PROVE  \A k \in DOMAIN wal' : InPlace(k)'
<1>n. PICK n : n = Len(wal) + 1
  OBVIOUS
<1>1. /\ wal \in Seq(Frames) /\ n \in Nat \ {0} /\ DOMAIN wal = 1..(n - 1) /\ DOMAIN wal' = 1..n
      /\ wal'[n] = f /\ \A k \in 1..(n - 1) : wal'[k] = wal[k]
  BY <1>n DEF TypeOK, DiskTyped
<1>2. /\ cur[h] \in 1..Len(issued) /\ cur[h] = Len(issued) /\ issued[cur[h]] \in Plans
      /\ cur[h] \in Nat /\ at[h] \in Nat
  BY DEF TypeOK, PlanTyped, ControlTyped, LogOrdered, LoggedUpTo
<1>3. i \in Nat /\ i > at[h] /\ \A k \in Positions(issued[cur[h]]) : k \in Nat /\ (k < i => k <= at[h])
  BY <1>2, PositionsAreNats DEF NextPosition
<1>4. ASSUME NEW k \in 1..(n - 1)
      PROVE  InPlace(k)'
  <2>1. k \in DOMAIN wal /\ \A j \in 1..k : wal'[j] = wal[j]
    BY <1>1
  <2> QED
    BY <2>1, StaysInPlace DEF LogOrdered
<1>5. ASSUME NEW j \in 1..(n - 1)
      PROVE  Before(wal'[j].tag, f.tag)
  <2>0. j \in DOMAIN wal /\ wal[j] \in Frames
    BY <1>1
  <2>1. wal[j] \in Frames /\ wal[j].tag.plan \in 1..Len(issued)
    BY <2>0 DEF LogOrdered, InPlace
  <2>2. wal[j].tag.i \in Nat /\ wal[j].tag.plan \in Nat
    BY <2>1 DEF Frames, Tags
  <2>3. wal[j].tag.plan = cur[h] => wal[j].tag.i <= at[h]
    BY <1>1 DEF LogOrdered, LoggedUpTo
  <2>4. wal[j].tag.plan < cur[h] \/ wal[j].tag.plan = cur[h]
    BY <1>2, <2>1, <2>2
  <2> QED
    BY <1>1, <1>2, <1>3, <2>2, <2>3, <2>4 DEF Before
<1>6. ASSUME NEW k \in Positions(issued[cur[h]]), k < i
      PROVE  \E j \in 1..n : wal'[j].tag = [plan |-> cur[h], i |-> k]
  <2>1. PICK j \in DOMAIN wal : wal[j].tag = [plan |-> cur[h], i |-> k]
    BY <1>3, <1>6 DEF LogOrdered, LoggedUpTo
  <2> QED
    BY <2>1, <1>1
<1>7. wal'[n].tag.plan = cur[h] /\ wal'[n].tag.i = i /\ wal'[n].tag = f.tag
  BY <1>1
<1>8. InPlace(n)'
  <2>1. wal'[n].tag.plan \in 1..Len(issued')
    BY <1>2, <1>7
  <2>2. \A j \in 1..(n - 1) : Before(wal'[j].tag, wal'[n].tag)
    BY <1>5, <1>7
  <2>3. \A k \in Positions(issued'[wal'[n].tag.plan]) :
            k < wal'[n].tag.i => \E j \in 1..n : wal'[j].tag = [plan |-> wal'[n].tag.plan, i |-> k]
    BY ZenonT(30), <1>6, <1>7
  <2> QED
    BY <2>1, <2>2, <2>3 DEF InPlace
<1> QED
  BY <1>1, <1>4, <1>8

\* Every step keeps the log in order.
LEMMA NextLogOrdered ==
    ASSUME TypeOK, LockHeld, LogOrdered, [Next]_vars
    PROVE  LogOrdered'
<1> USE DEF diskVars, handleVars, ghostVars
<1>t. /\ pc \in [Handles -> Steps] /\ wal \in Seq(Frames) /\ Len(wal) \in Nat
      /\ wal = SubSeq(wal, 1, Len(wal)) /\ <<>> = SubSeq(wal, 1, 0)
  BY DEF TypeOK, ControlTyped, DiskTyped
<1>1. ASSUME NEW h \in Handles, pc[h] # "closed", \A g \in Handles \ {h} : pc'[g] = pc[g],
             pc'[h] # "log", issued' = issued,
             wal' = wal \/ wal' = <<>> \/ \E n \in 0..Len(wal) : wal' = SubSeq(wal, 1, n)
      PROVE  LogOrdered'
  <2>1. PICK n \in 0..Len(wal) : wal' = SubSeq(wal, 1, n)
    <3>1. Len(wal) \in 0..Len(wal) /\ 0 \in 0..Len(wal)
      BY <1>t
    <3> QED
      BY <1>1, <1>t, <3>1
  <2>2. \A i \in DOMAIN wal' : InPlace(i)'
    BY <1>1, <2>1, CutInPlace
  <2>3. LoggedUpTo(h)'
    BY <1>1 DEF LoggedUpTo
  <2> QED
    BY <1>1, <2>2, <2>3, OthersDoNotLog
<1>2. ASSUME UNCHANGED <<wal, issued, cur, at>>, \A g \in Handles : pc'[g] = "log" => pc[g] = "log"
      PROVE  LogOrdered'
  <2>1. \A i \in DOMAIN wal' : InPlace(i)'
    BY <1>2, SameInPlace
  <2>2. \A g \in Handles : LoggedUpTo(g)'
    BY <1>2 DEF LogOrdered, LoggedUpTo
  <2> QED
    BY <2>1, <2>2 DEF LogOrdered
<1>3. CASE UNCHANGED vars
  BY <1>2, <1>3 DEF vars
<1>4. ASSUME NEW h \in Handles, Open(h) \/ ClearStaleLock(h)
      PROVE  LogOrdered'
  BY <1>2, <1>4, <1>t DEF Open, ClearStaleLock
<1>5. ASSUME NEW h \in Handles, LoadMain(h) \/ ReplayFrame(h) \/ EndReplay(h)
      PROVE  LogOrdered'
  <2>1. EndReplay(h) => \E n \in 0..Len(wal) : wal' = SubSeq(wal, 1, n)
    <3>1. EndReplay(h) => pos[h] \in 0..Len(wal)
      BY <1>t DEF EndReplay, TypeOK, ControlTyped
    <3> QED
      BY <3>1 DEF EndReplay
  <2> QED
    BY <1>1, <1>5, <1>t, <2>1 DEF LoadMain, ReplayFrame, EndReplay
<1>6. ASSUME NEW h \in Handles, NEW plan \in Plans, RunPlan(h, plan)
      PROVE  LogOrdered'
  <2>n. PICK n : n = Len(issued) + 1
    OBVIOUS
  <2>1. /\ pc[h] = "idle" /\ \A g \in Handles \ {h} : pc'[g] = pc[g]
        /\ cur'[h] = n /\ at'[h] = 0 /\ wal' = wal /\ issued' = Append(issued, plan)
        /\ n \in Nat /\ Len(issued') = n /\ issued'[n] = plan
    BY <1>6, <2>n DEF RunPlan, TypeOK, ControlTyped, PlanTyped
  <2>2. \A i \in DOMAIN wal' : InPlace(i)'
    BY <2>1, SameInPlace
  <2>3. \A i \in DOMAIN wal : wal[i].tag.plan # n
    BY <2>n, <2>1 DEF LogOrdered, InPlace, TypeOK, PlanTyped
  <2>4. \A k \in Positions(plan) : ~(k <= 0)
    BY PositionsAreNats DEF Positions
  <2>5. LoggedUpTo(h)'
    BY <2>1, <2>3, <2>4 DEF LoggedUpTo
  <2> QED
    BY <2>1, <2>2, <2>5, OthersDoNotLog
<1>7. ASSUME NEW h \in Handles, NEW plan \in Plans, ExecuteFails(h, plan) \/ ClaimFails(h, plan)
      PROVE  LogOrdered'
  BY <1>2, <1>7 DEF ExecuteFails, ClaimFails
<1>8. ASSUME NEW h \in Handles, NEW i \in Positions(issued[cur[h]]), pc[h] = "log",
             NextPosition(h, i), wal' \in AfterFailedAppend(Frame(h, i)), issued' = issued
      PROVE  \A k \in DOMAIN wal' : InPlace(k)'
  <2>1. PICK f : f = Frame(h, i)
    OBVIOUS
  <2>2. /\ f \in Frames /\ f.tag = [plan |-> cur[h], i |-> i]
        /\ TornFrame(f) \in Frames /\ TornFrame(f).tag = f.tag
    BY <1>8, <2>1, FrameTyped, TornFrameTyped
  <2>3. wal' = wal \/ wal' = Append(wal, f) \/ wal' = Append(wal, TornFrame(f))
    BY <1>8, <2>1 DEF AfterFailedAppend
  <2> QED
    BY <1>8, <2>2, <2>3, SameInPlace, AppendInPlace
<1>9. ASSUME NEW h \in Handles, LogStatement(h)
      PROVE  LogOrdered'
  <2>1. PICK i \in Positions(issued[cur[h]]) :
            NextPosition(h, i) /\ wal' = Append(wal, Frame(h, i)) /\ at' = [at EXCEPT ![h] = i]
    BY <1>9 DEF LogStatement
  <2>2. /\ pc[h] = "log" /\ UNCHANGED <<pc, cur, issued>> /\ at'[h] = i /\ at[h] \in Nat
        /\ cur[h] = Len(issued) /\ cur[h] \in Nat /\ issued[cur[h]] \in Plans
    BY <1>9, <2>1 DEF LogStatement, TypeOK, ControlTyped, PlanTyped, LogOrdered, LoggedUpTo
  <2>3. \A k \in DOMAIN wal' : InPlace(k)'
    BY <1>8, <2>1, <2>2 DEF AfterFailedAppend
  <2>4. PICK n, f : n = Len(wal) + 1 /\ f = Frame(h, i)
    OBVIOUS
  <2>5. /\ f \in Frames /\ f.tag = [plan |-> cur[h], i |-> i] /\ i \in Nat
    BY <2>2, <2>4, FrameTyped
  <2>6. /\ DOMAIN wal = 1..(n - 1) /\ DOMAIN wal' = 1..n /\ n \in Nat \ {0} /\ wal'[n] = f
        /\ \A k \in 1..(n - 1) : wal'[k] = wal[k]
    BY <2>1, <2>4, <2>5, <1>t
  <2>7. ASSUME NEW k \in DOMAIN wal', wal'[k].tag.plan = cur[h]
        PROVE  wal'[k].tag.i <= i
    <3>1. CASE k = n
      BY <3>1, <2>5, <2>6
    <3>2. CASE k # n
      <4>1. k \in DOMAIN wal /\ wal'[k] = wal[k] /\ wal[k] \in Frames
        BY <3>2, <2>6, <1>t
      <4>2. wal[k].tag.i <= at[h] /\ wal[k].tag.i \in Nat
        BY <4>1, <2>2, <2>7 DEF LogOrdered, LoggedUpTo, Frames, Tags
      <4> QED
        BY <4>1, <4>2, <2>1, <2>2, <2>5 DEF NextPosition
    <3> QED
      BY <3>1, <3>2
  <2>8. ASSUME NEW k \in Positions(issued[cur[h]]), k <= i
        PROVE  \E j \in DOMAIN wal' : wal'[j].tag = [plan |-> cur[h], i |-> k]
    <3>1. k \in Nat
      BY <2>2, PositionsAreNats
    <3>2. CASE k <= at[h]
      <4>1. PICK j \in DOMAIN wal : wal[j].tag = [plan |-> cur[h], i |-> k]
        BY <3>2, <2>2 DEF LogOrdered, LoggedUpTo
      <4> QED
        BY <4>1, <2>6
    <3>3. CASE k > at[h]
      <4>1. k = i
        BY <3>1, <3>3, <2>1, <2>5, <2>8 DEF NextPosition
      <4> QED
        BY <4>1, <2>5, <2>6
    <3> QED
      BY <3>1, <3>2, <3>3, <2>2
  <2>9. LoggedUpTo(h)'
    BY <2>2, <2>7, <2>8 DEF LoggedUpTo
  <2> QED
    BY <2>2, <2>3, <2>9, OthersDoNotLog
<1>10. ASSUME NEW h \in Handles, AppendFails(h)
       PROVE  LogOrdered'
  <2>1. PICK i \in Positions(issued[cur[h]]) :
            NextPosition(h, i) /\ wal' \in AfterFailedAppend(Frame(h, i))
    BY <1>10 DEF AppendFails, AfterFailedCall, AfterFailedAppend
  <2>2. /\ pc[h] = "log" /\ pc'[h] = "idle" /\ issued' = issued
        /\ \A g \in Handles \ {h} : pc'[g] = pc[g]
    BY <1>10, <1>t DEF AppendFails, StopPlan
  <2>3. \A k \in DOMAIN wal' : InPlace(k)'
    BY <1>8, <2>1, <2>2
  <2>4. LoggedUpTo(h)'
    BY <2>2 DEF LoggedUpTo
  <2> QED
    BY <2>2, <2>3, <2>4, OthersDoNotLog
<1>11. ASSUME NEW h \in Handles,
              FinishPlan(h) \/ AutoCheckpoint(h) \/ Flush(h) \/ TruncateWal(h) \/ CheckpointFails(h)
       PROVE  LogOrdered'
  BY <1>1, <1>11, <1>t
  DEF FinishPlan, AutoCheckpoint, Flush, BeginCheckpoint, TruncateWal, CheckpointFails, ReturnOk, StopPlan
<1>12. ASSUME NEW h \in Handles, WriteTmp(h) \/ SyncTmp(h) \/ Rename(h)
       PROVE  LogOrdered'
  BY <1>1, <1>12, <1>t DEF WriteTmp, SyncTmp, Rename
<1>13. ASSUME NEW h \in Handles, Close(h) \/ Crash(h) \/ LoadFails(h)
       PROVE  LogOrdered'
  <2>1. /\ pc[h] # "closed" /\ pc'[h] = "closed" /\ issued' = issued
        /\ \A g \in Handles \ {h} : pc'[g] = pc[g]
    BY <1>13, <1>t DEF Close, Crash, LoadFails, Leave
  <2>2. \A k \in DOMAIN wal' : InPlace(k)'
    <3>1. CASE wal' = wal
      BY <3>1, <2>1, SameInPlace
    <3>2. CASE wal' # wal
      <4>1. PICK i \in Positions(issued[cur[h]]) :
                NextPosition(h, i) /\ wal' \in AfterFailedAppend(Frame(h, i)) /\ pc[h] = "log"
        BY <1>13, <3>2 DEF Close, Crash, LoadFails
      <4> QED
        BY <1>8, <2>1, <4>1
    <3> QED
      BY <3>1, <3>2
  <2>3. LoggedUpTo(h)'
    BY <2>1 DEF LoggedUpTo
  <2> QED
    BY <2>1, <2>2, <2>3, OthersDoNotLog
<1> QED
  BY <1>3, <1>4, <1>5, <1>6, <1>7, <1>9, <1>10, <1>11, <1>12, <1>13 DEF Next

\* Whatever fails and whenever it crashes, the log is in the order in which the
\* statements ran and holds no statement without the earlier ones of its plan.
THEOREM LogIsInOrder == Spec => []LogInOrder
<1>1. Init => TypeOK /\ LockHeld /\ LogOrdered
  <2>1. Init => LogOrdered
    BY DEF Init, LogOrdered, LoggedUpTo
  <2> QED
    BY <2>1, InitTyped
<1>2. TypeOK /\ LockHeld /\ LogOrdered /\ [Next]_vars => (TypeOK /\ LockHeld /\ LogOrdered)'
  BY NextTyped, NextLockHeld, NextLogOrdered
<1>3. LogOrdered => LogInOrder
  BY DEF LogOrdered, InPlace, Before, LogInOrder
<1> QED
  BY <1>1, <1>2, <1>3, PTL DEF Spec

(***************************************************************************)
(* An acknowledged plan is never lost, for any plans, threshold and faults *)
(* but a write that is cut short under a living process, and StoreFile     *)
(* implements DurableLog.  The invariant is RecoveryInv of StoreFile.      *)
(***************************************************************************)

\* Positions start at 1: with nothing logged, no position is behind.
LEMMA PositionsArePositive ==
    ASSUME NEW plan \in Plans, NEW i \in Positions(plan)
    PROVE  i \in Nat /\ i > 0
BY PositionsAreNats DEF Positions

\* A step of the lock holder has to be examined at that handle only.
LEMMA OnlyTheHolder ==
    ASSUME TypeOK, LockHeld, NEW h \in Handles, pc[h] # "closed",
           \A g \in Handles \ {h} : pc'[g] = pc[g] /\ cur'[g] = cur[g],
           TornOnlyLast', AckedDurable', MainWhole',
           MemoryCovers(h)', CurrentKept(h)', CheckpointCovers(h)'
    PROVE  RecoveryInv'
<1>1. ASSUME NEW g \in Handles, g # h
      PROVE  MemoryCovers(g)' /\ CurrentKept(g)' /\ CheckpointCovers(g)'
  <2>1. pc'[g] = "closed" /\ cur'[g] = 0
    BY <1>1, Alone
  <2> QED
    BY <2>1 DEF MemoryCovers, CurrentKept, CheckpointCovers, Inside
<1> QED
  BY <1>1 DEF RecoveryInv

\* While a handle is inside the store, the log has no torn frame.
LEMMA InsideIntact ==
    ASSUME RecoveryInv, NEW h \in Handles, pc[h] \in Inside
    PROVE  \A i \in DOMAIN wal : ~wal[i].torn
BY DEF RecoveryInv, TornOnlyLast

\* What is kept stays kept while the files are left alone.
LEMMA KeptUntouched ==
    ASSUME UNCHANGED <<main, wal>>, NEW tag
    PROVE  Kept(tag) <=> Kept(tag)'
BY DEF Kept, Readable

\* Appending to the log loses nothing, and keeps the new frame if no frame is torn.
LEMMA AppendKeeps ==
    ASSUME wal \in Seq(Frames), NEW f \in Frames, main' = main, wal' = Append(wal, f)
    PROVE  /\ \A tag : Kept(tag) => Kept(tag)'
           /\ (\A i \in DOMAIN wal : ~wal[i].torn) /\ ~f.torn => Kept(f.tag)'
           /\ Len(wal') = Len(wal) + 1 /\ wal'[Len(wal) + 1] = f
           /\ \A i \in DOMAIN wal' : i # Len(wal) + 1 => i \in DOMAIN wal /\ wal'[i] = wal[i]
<1>1. /\ Len(wal') = Len(wal) + 1 /\ wal'[Len(wal) + 1] = f /\ Len(wal) \in Nat
      /\ DOMAIN wal = 1..Len(wal) /\ DOMAIN wal' = 1..(Len(wal) + 1)
      /\ \A i \in 1..Len(wal) : wal'[i] = wal[i]
  OBVIOUS
<1>2. \A i \in DOMAIN wal : Readable(i) => Readable(i)'
  BY <1>1 DEF Readable
<1>3. \A tag : Kept(tag) => Kept(tag)'
  <2> SUFFICES ASSUME NEW tag, Kept(tag) PROVE Kept(tag)'
    OBVIOUS
  <2>1. CASE tag \in main.tags
    BY <2>1 DEF Kept
  <2>2. CASE tag \notin main.tags
    <3>1. PICK i \in DOMAIN wal : Readable(i) /\ wal[i].tag = tag
      BY <2>2 DEF Kept
    <3>2. i \in DOMAIN wal' /\ Readable(i)' /\ wal'[i].tag = tag
      BY <3>1, <1>1, <1>2
    <3> QED
      BY <3>2 DEF Kept
  <2> QED
    BY <2>1, <2>2
<1>4. ASSUME \A i \in DOMAIN wal : ~wal[i].torn, ~f.torn
      PROVE  Kept(f.tag)'
  <2> DEFINE n == Len(wal) + 1
  <2>1. \A j \in 1..n : ~wal'[j].torn
    BY <1>1, <1>4
  <2>2. n \in DOMAIN wal' /\ wal'[n].tag = f.tag
    BY <1>1
  <2>3. \E i \in DOMAIN wal' :
            (i \in DOMAIN wal' /\ \A j \in 1..i : ~wal'[j].torn) /\ wal'[i].tag = f.tag
    BY <2>1, <2>2
  <2> QED
    BY <2>3 DEF Kept, Readable
<1> QED
  BY <1>1, <1>3, <1>4

\* A step that leaves the files, the logging and the ghosts alone.
LEMMA RecoveryUntouched ==
    ASSUME RecoveryInv, UNCHANGED <<main, tmp, wal, pc, pos, cur, at, issued, acked, done>>
    PROVE  RecoveryInv'
<1>1. \A tag : Kept(tag) <=> Kept(tag)'
  BY KeptUntouched
<1>2. TornOnlyLast' /\ AckedDurable' /\ MainWhole'
  BY <1>1 DEF RecoveryInv, TornOnlyLast, AckedDurable, MainWhole
<1>3. ASSUME NEW h \in Handles
      PROVE  MemoryCovers(h)' /\ CurrentKept(h)' /\ CheckpointCovers(h)'
  <2>1. MemoryCovers(h)' /\ CheckpointCovers(h)'
    BY DEF RecoveryInv, MemoryCovers, CheckpointCovers
  <2>2. CurrentKept(h)'
    BY <1>1 DEF RecoveryInv, CurrentKept, PlanTags
  <2> QED
    BY <2>1, <2>2
<1> QED
  BY <1>2, <1>3 DEF RecoveryInv

\* A handle may leave the store, however it does, if the log keeps what it held
\* and is torn at most at its end.
LEMMA LeaveKeeps ==
    ASSUME TypeOK, LockHeld, RecoveryInv, NEW h \in Handles, pc[h] # "closed", Leave(h),
           \A tag : Kept(tag) => Kept(tag)',
           \A i \in DOMAIN wal' : wal'[i].torn => i = Len(wal')
    PROVE  RecoveryInv'
<1>1. \A g \in Handles : pc'[g] = "closed" /\ cur'[g] = 0
  BY Alone DEF Leave, TypeOK, ControlTyped
<1>2. TornOnlyLast'
  BY <1>1 DEF TornOnlyLast, Inside
<1>3. AckedDurable' /\ MainWhole'
  BY DEF Leave, RecoveryInv, AckedDurable, MainWhole
<1>4. \A g \in Handles : MemoryCovers(g)' /\ CurrentKept(g)' /\ CheckpointCovers(g)'
  BY <1>1 DEF MemoryCovers, CurrentKept, CheckpointCovers, Inside
<1> QED
  BY <1>2, <1>3, <1>4 DEF RecoveryInv

(***************************************************************************)
(* The initial state and every step.                                       *)
(***************************************************************************)

\* There is nothing to lose at first.
LEMMA InitRecovers == Init => RecoveryInv
<1> SUFFICES ASSUME Init PROVE RecoveryInv
  OBVIOUS
<1>1. TornOnlyLast /\ AckedDurable
  BY DEF Init, TornOnlyLast, AckedDurable
<1>2. MainWhole
  BY Empties DEF Init, MainWhole
<1>3. \A h \in Handles : MemoryCovers(h) /\ CurrentKept(h) /\ CheckpointCovers(h)
  BY DEF Init, MemoryCovers, CurrentKept, CheckpointCovers, Inside
<1> QED
  BY <1>1, <1>2, <1>3 DEF RecoveryInv

\* Recovery: the memory comes to hold the image and every frame that is kept;
\* only a torn frame is cut.
LEMMA OpeningRecovers ==
    ASSUME TypeOK, LockHeld, RecoveryInv, NEW h \in Handles,
           Open(h) \/ LoadMain(h) \/ ReplayFrame(h) \/ EndReplay(h)
    PROVE  RecoveryInv'
<1> USE DEF diskVars, handleVars, ghostVars
<1>t. /\ pc \in [Handles -> Steps] /\ done \in [Handles -> SUBSET Tags]
      /\ pos \in [Handles -> Nat] /\ wal \in Seq(Frames)
  BY DEF TypeOK, ControlTyped, GhostTyped, DiskTyped
<1>1. CASE Open(h)
  <2>1. \A tag : Kept(tag) <=> Kept(tag)'
    BY <1>1, KeptUntouched DEF Open
  <2>2. \A g \in Handles : pc'[g] \in {"closed", "load"} /\ cur'[g] = 0
    BY <1>1, <1>t, FreeIsNoHandle DEF Open, LockHeld, TypeOK, PlanTyped
  <2>3. TornOnlyLast'
    BY <1>1, <2>2 DEF Open, RecoveryInv, TornOnlyLast, Inside
  <2>4. AckedDurable' /\ MainWhole'
    BY <1>1, <2>1 DEF Open, RecoveryInv, AckedDurable, MainWhole
  <2>5. \A g \in Handles : MemoryCovers(g)' /\ CurrentKept(g)' /\ CheckpointCovers(g)'
    BY <2>2 DEF MemoryCovers, CurrentKept, CheckpointCovers, Inside
  <2> QED
    BY <2>3, <2>4, <2>5 DEF RecoveryInv
<1>2. CASE LoadMain(h)
  <2>1. \A tag : Kept(tag) <=> Kept(tag)'
    BY <1>2, KeptUntouched DEF LoadMain
  <2>2. /\ pc[h] = "load" /\ pc'[h] = "replay" /\ done'[h] = main.tags /\ pos'[h] = 0
        /\ \A g \in Handles \ {h} : pc'[g] = pc[g] /\ cur'[g] = cur[g]
    BY <1>2, <1>t DEF LoadMain
  <2>3. TornOnlyLast'
    BY <1>2, <2>2 DEF LoadMain, RecoveryInv, TornOnlyLast, Inside
  <2>4. AckedDurable' /\ MainWhole'
    BY <1>2, <2>1 DEF LoadMain, RecoveryInv, AckedDurable, MainWhole
  <2>5. MemoryCovers(h)' /\ CheckpointCovers(h)'
    BY <1>2, <2>2 DEF LoadMain, MemoryCovers, CheckpointCovers, Inside
  <2>6. CurrentKept(h)'
    BY <1>2 DEF LoadMain, CurrentKept, TypeOK, PlanTyped
  <2> QED
    BY <2>2, <2>3, <2>4, <2>5, <2>6, OnlyTheHolder
<1>3. CASE ReplayFrame(h)
  <2>1. \A tag : Kept(tag) <=> Kept(tag)'
    BY <1>3, KeptUntouched DEF ReplayFrame
  <2>2. /\ pc[h] = "replay" /\ pc' = pc /\ pos'[h] = pos[h] + 1
        /\ done'[h] = done[h] \cup {wal[pos[h] + 1].tag} /\ ~wal[pos[h] + 1].torn
        /\ UNCHANGED <<main, tmp, wal, cur, acked>>
    BY <1>3, <1>t DEF ReplayFrame, NextFrameIntact
  <2>3. TornOnlyLast' /\ AckedDurable' /\ MainWhole'
    BY <2>1, <2>2 DEF RecoveryInv, TornOnlyLast, AckedDurable, MainWhole
  <2>4. MemoryCovers(h)'
    <3>1. \A i \in 1..(pos[h] + 1) : i \in 1..pos[h] \/ i = pos[h] + 1
      BY <1>t
    <3> QED
      BY <2>2, <3>1 DEF RecoveryInv, MemoryCovers, Inside
  <2>5. CurrentKept(h)' /\ CheckpointCovers(h)'
    BY <2>2 DEF CurrentKept, CheckpointCovers, TypeOK, PlanTyped
  <2> QED
    BY <2>2, <2>3, <2>4, <2>5, OnlyTheHolder
<1>4. CASE EndReplay(h)
  <2>1. /\ pc[h] = "replay" /\ pc'[h] = "idle" /\ wal' = SubSeq(wal, 1, pos[h])
        /\ \A g \in Handles \ {h} : pc'[g] = pc[g] /\ cur'[g] = cur[g]
        /\ UNCHANGED <<main, tmp, pos, cur, issued, acked, done>>
    BY <1>4, <1>t DEF EndReplay
  <2>2. pos[h] \in Nat /\ pos[h] <= Len(wal) /\ Len(wal) \in Nat
    BY <2>1, <1>t DEF TypeOK
  <2>3. DOMAIN wal' = 1..pos[h] /\ \A i \in 1..pos[h] : wal'[i] = wal[i] /\ i \in DOMAIN wal
    BY <2>1, <2>2, <1>t
  <2>4. \A i \in 1..pos[h] : ~wal[i].torn /\ wal[i].tag \in done[h]
    BY <2>1 DEF RecoveryInv, MemoryCovers
  <2>5. \A i \in DOMAIN wal : Readable(i) => i \in 1..pos[h]
    <3> SUFFICES ASSUME NEW i \in DOMAIN wal, Readable(i), i > pos[h] PROVE FALSE
      BY <2>2, <1>t
    <3>1. pos[h] + 1 \in 1..i /\ pos[h] < Len(wal)
      BY <2>2, <1>t
    <3>2. ~wal[pos[h] + 1].torn
      BY <3>1 DEF Readable
    <3> QED
      BY <1>4, <3>1, <3>2 DEF EndReplay, NextFrameIntact
  <2>6. \A i \in 1..pos[h] : Readable(i)'
    BY <2>2, <2>3, <2>4 DEF Readable
  <2>7. \A tag : Kept(tag) => Kept(tag)'
    BY <2>1, <2>3, <2>5, <2>6 DEF Kept
  <2>8. TornOnlyLast' /\ AckedDurable' /\ MainWhole'
    BY <2>1, <2>3, <2>4, <2>7 DEF RecoveryInv, TornOnlyLast, AckedDurable, MainWhole
  <2>9. MemoryCovers(h)'
    BY <2>1, <2>3, <2>4 DEF RecoveryInv, MemoryCovers
  <2>10. CurrentKept(h)' /\ CheckpointCovers(h)'
    BY <2>1 DEF CurrentKept, CheckpointCovers, TypeOK, PlanTyped
  <2> QED
    BY <2>1, <2>8, <2>9, <2>10, OnlyTheHolder
<1> QED
  BY <1>1, <1>2, <1>3, <1>4

\* Running a plan only adds tags to the memory; none of the new plan is logged.
LEMMA RunPlanRecovers ==
    ASSUME TypeOK, LockHeld, RecoveryInv, NEW h \in Handles, NEW plan \in Plans,
           RunPlan(h, plan)
    PROVE  RecoveryInv'
<1>n. PICK n : n = Len(issued) + 1
  OBVIOUS
<1>1. /\ pc[h] = "idle" /\ pc'[h] = "log" /\ cur'[h] = n /\ at'[h] = 0
      /\ issued' = Append(issued, plan)
      /\ done'[h] = done[h] \cup {[plan |-> n, i |-> i] : i \in Positions(plan)}
      /\ \A g \in Handles \ {h} : pc'[g] = pc[g] /\ cur'[g] = cur[g]
      /\ UNCHANGED <<main, tmp, wal, acked>>
  BY <1>n DEF RunPlan, diskVars, TypeOK, ControlTyped, PlanTyped, GhostTyped
<1>2. \A tag : Kept(tag) <=> Kept(tag)'
  BY <1>1, KeptUntouched
<1>3. AckedDurable' /\ MainWhole'
  BY <1>1, <1>2 DEF RecoveryInv, AckedDurable, MainWhole
<1>4. TornOnlyLast'
  BY <1>1, InsideIntact DEF TornOnlyLast, Inside
<1>5. MemoryCovers(h)' /\ CheckpointCovers(h)'
  BY <1>1 DEF RecoveryInv, MemoryCovers, CheckpointCovers, Inside
<1>6. CurrentKept(h)'
  <2>1. issued'[n] = plan
    BY <1>n, <1>1 DEF TypeOK, PlanTyped
  <2>2. PlanTags(n)' = {[plan |-> n, i |-> i] : i \in Positions(plan)}
    BY <2>1 DEF PlanTags
  <2>3. \A tag \in PlanTags(n)' : tag \in done'[h] /\ ~(tag.i <= 0)
    BY <2>2, <1>1, PositionsArePositive
  <2> QED
    BY <1>1, <2>3 DEF CurrentKept
<1> QED
  BY <1>1, <1>3, <1>4, <1>5, <1>6, OnlyTheHolder

\* Logging a statement: the frame goes behind intact frames, and its tag was in
\* the memory already.
LEMMA LogStatementRecovers ==
    ASSUME TypeOK, LockHeld, RecoveryInv, NEW h \in Handles, LogStatement(h)
    PROVE  RecoveryInv'
<1>1. PICK i \in Positions(issued[cur[h]]) :
          /\ NextPosition(h, i)
          /\ wal' = Append(wal, Frame(h, i))
          /\ at' = [at EXCEPT ![h] = i]
  BY DEF LogStatement
<1>f. PICK f : f = Frame(h, i)
  OBVIOUS
<1>2. /\ pc[h] = "log" /\ pc' = pc /\ at'[h] = i /\ cur[h] # 0
      /\ UNCHANGED <<main, tmp, pos, cur, issued, acked, done>>
  BY <1>1 DEF LogStatement, ghostVars, TypeOK, ControlTyped, PlanTyped
<1>3. f \in Frames /\ ~f.torn /\ f.tag = [plan |-> cur[h], i |-> i]
  BY <1>f, <1>2, FrameTyped
<1>4. \A k \in DOMAIN wal : ~wal[k].torn
  BY <1>2, InsideIntact DEF Inside
<1>5. /\ \A tag : Kept(tag) => Kept(tag)'
      /\ Kept(f.tag)'
      /\ Len(wal') = Len(wal) + 1 /\ wal'[Len(wal) + 1] = f
      /\ \A k \in DOMAIN wal' : k # Len(wal) + 1 => k \in DOMAIN wal /\ wal'[k] = wal[k]
  <2>1. wal \in Seq(Frames) /\ wal' = Append(wal, f)
    BY <1>f, <1>1 DEF TypeOK, DiskTyped
  <2> QED
    BY <1>2, <1>3, <1>4, <2>1, AppendKeeps
<1>6. f.tag \in PlanTags(cur[h])
  BY <1>1, <1>3 DEF PlanTags
<1>7. f.tag \in done[h]
  BY <1>2, <1>6 DEF RecoveryInv, CurrentKept
<1>8. TornOnlyLast' /\ AckedDurable' /\ MainWhole'
  BY <1>2, <1>3, <1>4, <1>5 DEF RecoveryInv, TornOnlyLast, AckedDurable, MainWhole
<1>9. MemoryCovers(h)' /\ CheckpointCovers(h)'
  BY <1>2, <1>5, <1>7 DEF RecoveryInv, MemoryCovers, CheckpointCovers, Inside
<1>10. CurrentKept(h)'
  <2>1. PlanTags(cur[h])' = PlanTags(cur[h])
    BY <1>2 DEF PlanTags
  <2>2. ASSUME NEW tag \in PlanTags(cur[h]), tag.i <= i
        PROVE  Kept(tag)'
    <3>1. tag.i \in Positions(issued[cur[h]]) /\ tag = [plan |-> cur[h], i |-> tag.i]
      BY DEF PlanTags
    <3>2. tag.i \in Nat /\ i \in Nat /\ at[h] \in Nat
      BY <3>1, <1>2, PositionsAreNats DEF TypeOK, ControlTyped, PlanTyped
    <3>3. CASE tag.i <= at[h]
      BY <3>3, <1>2, <1>5 DEF RecoveryInv, CurrentKept
    <3>4. CASE tag.i > at[h]
      <4>1. tag.i = i
        BY <3>1, <3>2, <3>4, <2>2, <1>1 DEF NextPosition
      <4> QED
        BY <4>1, <3>1, <1>3, <1>5
    <3> QED
      BY <3>2, <3>3, <3>4
  <2> QED
    BY <1>2, <2>1, <2>2 DEF RecoveryInv, CurrentKept
<1> QED
  BY <1>2, <1>8, <1>9, <1>10, OnlyTheHolder

\* Returning, with or without an error, keeps the invariant as long as what was
\* kept stays kept and the plans acknowledged are kept.
LEMMA StopPlanRecovers ==
    ASSUME TypeOK, LockHeld, RecoveryInv, NEW h \in Handles, pc[h] \in Inside, StopPlan(h),
           UNCHANGED <<main, tmp, issued, done>>,
           \A tag : Kept(tag) => Kept(tag)',
           \A i \in DOMAIN wal' : ~wal'[i].torn /\ wal'[i].tag \in done[h],
           \A tag \in acked' : tag \in acked \/ Kept(tag)
    PROVE  RecoveryInv'
<1>1. /\ pc'[h] = "idle" /\ cur'[h] = 0
      /\ \A g \in Handles \ {h} : pc'[g] = pc[g] /\ cur'[g] = cur[g]
  BY DEF StopPlan, TypeOK, ControlTyped
<1>2. TornOnlyLast'
  BY DEF TornOnlyLast
<1>3. AckedDurable' /\ MainWhole'
  BY DEF RecoveryInv, AckedDurable, MainWhole
<1>4. MemoryCovers(h)'
  BY <1>1 DEF RecoveryInv, MemoryCovers
<1>5. CurrentKept(h)' /\ CheckpointCovers(h)'
  BY <1>1 DEF CurrentKept, CheckpointCovers
<1>6. pc[h] # "closed"
  BY DEF Inside
<1> QED
  BY <1>1, <1>2, <1>3, <1>4, <1>5, <1>6, OnlyTheHolder

\* A failed append leaves the log as it was or with the whole frame: a shorter
\* write is what the assumption excludes.
LEMMA AppendFailsRecovers ==
    ASSUME TypeOK, LockHeld, RecoveryInv, "torn" \notin IoErrors,
           NEW h \in Handles, AppendFails(h)
    PROVE  RecoveryInv'
<1>1. PICK i \in Positions(issued[cur[h]]) : wal' \in AfterFailedCall(Frame(h, i))
  BY DEF AppendFails
<1>f. PICK f : f = Frame(h, i)
  OBVIOUS
<1>2. /\ pc[h] = "log" /\ cur[h] # 0 /\ StopPlan(h)
      /\ UNCHANGED <<main, tmp, issued, acked, done>>
  BY DEF AppendFails, TypeOK, PlanTyped
<1>3. f \in Frames /\ ~f.torn /\ f.tag = [plan |-> cur[h], i |-> i]
  BY <1>f, <1>2, FrameTyped
<1>4. /\ \A k \in DOMAIN wal : ~wal[k].torn /\ wal[k].tag \in done[h]
      /\ wal \in Seq(Frames)
  BY <1>2, InsideIntact DEF Inside, RecoveryInv, MemoryCovers, TypeOK, DiskTyped
<1>5. f.tag \in done[h]
  BY <1>2, <1>3 DEF RecoveryInv, CurrentKept, PlanTags
<1>6. /\ \A tag : Kept(tag) => Kept(tag)'
      /\ \A k \in DOMAIN wal' : ~wal'[k].torn /\ wal'[k].tag \in done[h]
  <2>1. CASE wal' = wal
    BY <2>1, <1>2, <1>4, KeptUntouched
  <2>2. CASE wal' = Append(wal, f)
    BY <2>2, <1>2, <1>3, <1>4, <1>5, AppendKeeps
  <2> QED
    BY <2>1, <2>2, <1>1, <1>f DEF AfterFailedCall
<1> QED
  BY <1>2, <1>6, StopPlanRecovers DEF Inside

\* A plan returns Ok when its last frame is in the log.
LEMMA FinishPlanRecovers ==
    ASSUME TypeOK, LockHeld, RecoveryInv, NEW h \in Handles, FinishPlan(h)
    PROVE  RecoveryInv'
<1>1. /\ pc[h] = "log" /\ cur[h] # 0 /\ StopPlan(h) /\ LogComplete(h)
      /\ acked' = acked \cup PlanTags(cur[h])
      /\ UNCHANGED <<main, tmp, wal, issued, done>>
  BY DEF FinishPlan, ReturnOk, diskVars, TypeOK, PlanTyped
<1>2. \A k \in DOMAIN wal : ~wal[k].torn /\ wal[k].tag \in done[h]
  BY <1>1, InsideIntact DEF Inside, RecoveryInv, MemoryCovers
<1>3. \A tag : Kept(tag) => Kept(tag)'
  BY <1>1, KeptUntouched
<1>4. \A tag \in PlanTags(cur[h]) : Kept(tag)
  <2>1. \A tag \in PlanTags(cur[h]) : tag.i <= at[h]
    BY <1>1 DEF LogComplete, PlanTags
  <2> QED
    BY <1>1, <2>1 DEF RecoveryInv, CurrentKept
<1> QED
  BY <1>1, <1>2, <1>3, <1>4, StopPlanRecovers DEF Inside

\* The steps of a checkpoint up to the rename.
LEMMA CheckpointRecovers ==
    ASSUME TypeOK, LockHeld, RecoveryInv, NEW h \in Handles,
           AutoCheckpoint(h) \/ Flush(h) \/ WriteTmp(h) \/ SyncTmp(h) \/ Rename(h)
    PROVE  RecoveryInv'
<1>1. ASSUME pc[h] \in Inside, pc'[h] \in {"write", "sync", "rename"},
             pc[h] = "log" => LogComplete(h),
             \A g \in Handles \ {h} : pc'[g] = pc[g],
             UNCHANGED <<main, wal, pos, cur, at, issued, acked, done>>,
             pc'[h] = "rename" => tmp'.kind = "image" /\ tmp'.tags = done[h]
      PROVE  RecoveryInv'
  <2>1. \A tag : Kept(tag) <=> Kept(tag)'
    BY <1>1, KeptUntouched
  <2>2. TornOnlyLast'
    BY <1>1, InsideIntact DEF TornOnlyLast
  <2>3. AckedDurable' /\ MainWhole'
    BY <1>1, <2>1 DEF RecoveryInv, AckedDurable, MainWhole
  <2>4. MemoryCovers(h)' /\ CheckpointCovers(h)'
    BY <1>1 DEF RecoveryInv, MemoryCovers, CheckpointCovers, Inside
  <2>5. CurrentKept(h)'
    <3>1. PlanTags(cur[h])' = PlanTags(cur[h])
      BY <1>1 DEF PlanTags
    <3>2. pc[h] = "log" => \A tag \in PlanTags(cur[h]) : tag.i <= at[h]
      BY <1>1 DEF LogComplete, PlanTags
    <3> QED
      BY <1>1, <2>1, <3>1, <3>2 DEF RecoveryInv, CurrentKept
  <2>6. pc[h] # "closed"
    BY <1>1 DEF Inside
  <2> QED
    BY <1>1, <2>2, <2>3, <2>4, <2>5, <2>6, OnlyTheHolder
<1>2. pc \in [Handles -> Steps]
  BY DEF TypeOK, ControlTyped
<1>3. CASE AutoCheckpoint(h) \/ Flush(h)
  BY <1>1, <1>2, <1>3 DEF AutoCheckpoint, Flush, BeginCheckpoint, diskVars, Inside
<1>4. CASE WriteTmp(h)
  BY <1>1, <1>2, <1>4 DEF WriteTmp, ghostVars, Inside
<1>5. CASE SyncTmp(h)
  <2>1. tmp'.kind = "image" /\ tmp'.tags = done[h]
    BY <1>5 DEF SyncTmp, ImageOf
  <2> QED
    BY <1>1, <1>2, <1>5, <2>1 DEF SyncTmp, ghostVars, Inside
<1>6. CASE Rename(h)
  <2>1. /\ pc[h] = "rename" /\ pc'[h] = "truncate" /\ main' = tmp
        /\ \A g \in Handles \ {h} : pc'[g] = pc[g]
        /\ UNCHANGED <<wal, pos, cur, at, issued, acked, done>>
    BY <1>6, <1>2 DEF Rename, ghostVars
  <2>2. /\ main'.kind = "image" /\ main'.tags = done[h]
        /\ main.tags \subseteq main'.tags
        /\ \A i \in DOMAIN wal : wal[i].tag \in main'.tags
    BY <2>1 DEF RecoveryInv, CheckpointCovers, MemoryCovers, Inside
  <2>3. \A tag : Kept(tag) => Kept(tag)'
    BY <2>1, <2>2 DEF Kept, Readable
  <2>4. TornOnlyLast' /\ AckedDurable' /\ MainWhole'
    BY <2>1, <2>2, <2>3, InsideIntact
    DEF RecoveryInv, TornOnlyLast, AckedDurable, MainWhole, Inside
  <2>5. MemoryCovers(h)' /\ CheckpointCovers(h)'
    BY <2>1, <2>2 DEF MemoryCovers, CheckpointCovers, RecoveryInv, Inside
  <2>6. CurrentKept(h)'
    <3>1. PlanTags(cur[h])' = PlanTags(cur[h])
      BY <2>1 DEF PlanTags
    <3> QED
      BY <2>1, <2>3, <3>1 DEF RecoveryInv, CurrentKept
  <2> QED
    BY <2>1, <2>4, <2>5, <2>6, OnlyTheHolder
<1> QED
  BY <1>3, <1>4, <1>5, <1>6

\* After the rename the log may go: the main file has everything it holds.
LEMMA LogMayGo ==
    ASSUME RecoveryInv, NEW h \in Handles, pc[h] = "truncate", main' = main, wal' = <<>>,
           NEW tag, Kept(tag)
    PROVE  Kept(tag)'
BY DEF RecoveryInv, CheckpointCovers, Kept

\* Cutting the log loses nothing: the main file has all of it.
LEMMA TruncateWalRecovers ==
    ASSUME TypeOK, LockHeld, RecoveryInv, NEW h \in Handles, TruncateWal(h)
    PROVE  RecoveryInv'
<1>1. /\ pc[h] = "truncate" /\ StopPlan(h) /\ main' = main /\ wal' = <<>>
      /\ acked' = IF cur[h] = 0 THEN acked ELSE acked \cup PlanTags(cur[h])
      /\ UNCHANGED <<tmp, issued, done>>
  BY DEF TruncateWal, ReturnOk
<1>2. \A tag : Kept(tag) => Kept(tag)'
  BY <1>1, LogMayGo
<1>3. cur[h] # 0 => \A tag \in PlanTags(cur[h]) : Kept(tag)
  BY <1>1 DEF RecoveryInv, CurrentKept
<1> QED
  BY <1>1, <1>2, <1>3, StopPlanRecovers DEF Inside

\* A checkpoint may fail at any of its steps.
LEMMA CheckpointFailsRecovers ==
    ASSUME TypeOK, LockHeld, RecoveryInv, NEW h \in Handles, CheckpointFails(h)
    PROVE  RecoveryInv'
<1>1. /\ pc[h] \in {"write", "sync", "rename", "truncate"} /\ StopPlan(h)
      /\ wal' = wal \/ (pc[h] = "truncate" /\ wal' = <<>>)
      /\ UNCHANGED <<main, tmp, issued, acked, done>>
  BY DEF CheckpointFails
<1>2. \A k \in DOMAIN wal : ~wal[k].torn /\ wal[k].tag \in done[h]
  BY <1>1, InsideIntact DEF Inside, RecoveryInv, MemoryCovers
<1>3. \A tag : Kept(tag) => Kept(tag)'
  BY <1>1, LogMayGo, KeptUntouched
<1>4. \A k \in DOMAIN wal' : ~wal'[k].torn /\ wal'[k].tag \in done[h]
  BY <1>1, <1>2
<1> QED
  BY <1>1, <1>3, <1>4, StopPlanRecovers DEF Inside

\* A crash may tear the frame being written, never one before it.
LEMMA CrashRecovers ==
    ASSUME TypeOK, LockHeld, RecoveryInv, NEW h \in Handles, Crash(h)
    PROVE  RecoveryInv'
<1>1. pc[h] # "closed" /\ Leave(h) /\ main' = main
  BY DEF Crash, Leave
<1>2. ASSUME wal' = wal
      PROVE  RecoveryInv'
  <2>1. \A tag : Kept(tag) => Kept(tag)'
    BY <1>1, <1>2, KeptUntouched
  <2>2. \A i \in DOMAIN wal' : wal'[i].torn => i = Len(wal')
    BY <1>2 DEF RecoveryInv, TornOnlyLast
  <2> QED
    BY <1>1, <2>1, <2>2, LeaveKeeps
<1>3. ASSUME pc[h] = "log", NEW f \in Frames, wal' = Append(wal, f)
      PROVE  RecoveryInv'
  <2>1. wal \in Seq(Frames) /\ Len(wal) \in Nat
    BY DEF TypeOK, DiskTyped
  <2>2. \A k \in DOMAIN wal : ~wal[k].torn
    BY <1>3, InsideIntact DEF Inside
  <2>3. /\ \A tag : Kept(tag) => Kept(tag)'
        /\ \A i \in DOMAIN wal' : wal'[i].torn => i = Len(wal')
    BY <1>1, <1>3, <2>1, <2>2, AppendKeeps
  <2> QED
    BY <1>1, <2>3, LeaveKeeps
<1>4. CASE pc[h] = "log"
  <2>1. ASSUME NEW i \in Positions(issued[cur[h]]), wal' \in AfterFailedAppend(Frame(h, i))
        PROVE  RecoveryInv'
    <3>1. Frame(h, i) \in Frames /\ TornFrame(Frame(h, i)) \in Frames
      BY <1>4, FrameTyped, TornFrameTyped
    <3> QED
      BY <1>2, <1>3, <1>4, <2>1, <3>1 DEF AfterFailedAppend
  <2> QED
    BY <1>2, <1>4, <2>1 DEF Crash
<1> QED
  BY <1>2, <1>4 DEF Crash

\* Every step keeps what was acknowledged.
LEMMA NextRecovers ==
    ASSUME TypeOK, LockHeld, RecoveryInv, "torn" \notin IoErrors, [Next]_vars
    PROVE  RecoveryInv'
<1> USE DEF diskVars, handleVars, ghostVars
<1>1. CASE UNCHANGED vars
  BY <1>1, RecoveryUntouched DEF vars
<1>2. ASSUME NEW h \in Handles, NEW plan \in Plans, ExecuteFails(h, plan) \/ ClaimFails(h, plan)
      PROVE  RecoveryInv'
  BY <1>2, RecoveryUntouched DEF ExecuteFails, ClaimFails
<1>3. ASSUME NEW h \in Handles, ClearStaleLock(h)
      PROVE  RecoveryInv'
  BY <1>3, RecoveryUntouched DEF ClearStaleLock
<1>4. ASSUME NEW h \in Handles, Close(h) \/ LoadFails(h)
      PROVE  RecoveryInv'
  <2>1. pc[h] # "closed" /\ Leave(h) /\ wal' = wal /\ main' = main
    BY <1>4 DEF Close, LoadFails, Leave
  <2>2. \A tag : Kept(tag) => Kept(tag)'
    BY <2>1, KeptUntouched
  <2>3. \A i \in DOMAIN wal' : wal'[i].torn => i = Len(wal')
    BY <2>1 DEF RecoveryInv, TornOnlyLast
  <2> QED
    BY <2>1, <2>2, <2>3, LeaveKeeps
<1> QED
  BY <1>1, <1>2, <1>3, <1>4, OpeningRecovers, RunPlanRecovers, LogStatementRecovers,
     AppendFailsRecovers, FinishPlanRecovers, CheckpointRecovers, TruncateWalRecovers,
     CheckpointFailsRecovers, CrashRecovers DEF Next

\* The invariant behind the two theorems below: StoreFile keeps RecoveryInv as
\* long as no write is cut short under a process that lives on.
THEOREM Recovers == "torn" \notin IoErrors => (Spec => []RecoveryInv)
<1> SUFFICES ASSUME "torn" \notin IoErrors PROVE Spec => []RecoveryInv
  OBVIOUS
<1>1. Init => TypeOK /\ LockHeld /\ RecoveryInv
  BY InitTyped, InitRecovers
<1>2. TypeOK /\ LockHeld /\ RecoveryInv /\ [Next]_vars => (TypeOK /\ LockHeld /\ RecoveryInv)'
  BY NextTyped, NextLockHeld, NextRecovers
<1> QED
  BY <1>1, <1>2, PTL DEF Spec

\* Every statement of every plan that returned Ok stays in the main file or in the
\* readable log, through every crash, failed call, checkpoint and recovery.
THEOREM Durable == "torn" \notin IoErrors => (Spec => []AckedDurable)
<1>1. RecoveryInv => AckedDurable
  BY DEF RecoveryInv
<1> QED
  BY <1>1, Recovers, PTL

(***************************************************************************)
(* StoreFile implements DurableLog, under the assumption of Durable.  On   *)
(* top of RecoveryInv the proof needs that what is kept, and what a handle *)
(* has in memory when it writes an image, is a beginning of every plan.    *)
(***************************************************************************)

AllTags == UNION {PlanTags(n) : n \in 1..Len(issued)}

\* Tags of issued plans, none without those of its plan before it.
Beginnings(set) ==
    /\ set \subseteq AllTags
    /\ \A tag \in set : \A earlier \in PlanTags(tag.plan) :
          earlier.i < tag.i => earlier \in set

\* A recovering handle has what it has read; one inside has beginnings only; the
\* current plan is the last one issued.
InOrderAt(h) ==
    /\ pc[h] = "replay" => done[h] = main.tags \cup {wal[i].tag : i \in 1..pos[h]}
    /\ pc[h] \in Inside => Beginnings(done[h])
    /\ cur[h] # 0 => cur[h] = Len(issued)

OrderInv == Beginnings(KeptTags) /\ \A h \in Handles : InOrderAt(h)

\* A plan's tags carry its number.
LEMMA PlanTagsShape ==
    ASSUME NEW n \in Nat, NEW tag \in PlanTags(n)
    PROVE  tag.plan = n /\ tag.i \in Positions(issued[n]) /\ tag = [plan |-> n, i |-> tag.i]
BY DEF PlanTags

\* Tags of issued plans name an issued plan.
LEMMA AllTagsShape ==
    ASSUME TypeOK, NEW tag \in AllTags
    PROVE  tag.plan \in 1..Len(issued) /\ tag \in PlanTags(tag.plan)
<1>1. PICK n \in 1..Len(issued) : tag \in PlanTags(n)
  BY DEF AllTags
<1>2. n \in Nat
  BY <1>1 DEF TypeOK, PlanTyped
<1> QED
  BY <1>1, <1>2, PlanTagsShape

\* With no torn frame in the log, all of it is kept.
LEMMA KeptWhenIntact ==
    ASSUME wal \in Seq(Frames), \A i \in DOMAIN wal : ~wal[i].torn
    PROVE  KeptTags = main.tags \cup {wal[i].tag : i \in DOMAIN wal}
<1>1. \A i \in DOMAIN wal : Readable(i)
  BY DEF Readable
<1> QED
  BY <1>1 DEF KeptTags

\* A frame that goes behind intact frames adds its tag, if it is intact itself.
LEMMA AppendAddsTag ==
    ASSUME wal \in Seq(Frames), \A i \in DOMAIN wal : ~wal[i].torn,
           NEW f \in Frames, main' = main, wal' = Append(wal, f)
    PROVE  KeptTags' = IF f.torn THEN KeptTags ELSE KeptTags \cup {f.tag}
<1>n. PICK n : n = Len(wal) + 1
  OBVIOUS
<1>1. /\ DOMAIN wal = 1..(n - 1) /\ DOMAIN wal' = 1..n /\ n \in Nat \ {0}
      /\ wal'[n] = f /\ \A i \in 1..(n - 1) : wal'[i] = wal[i]
  BY <1>n
<1>2. KeptTags = main.tags \cup {wal[i].tag : i \in DOMAIN wal}
  BY KeptWhenIntact
<1>3. \A i \in DOMAIN wal : i \in DOMAIN wal' /\ wal'[i] = wal[i] /\ Readable(i)'
  BY <1>1 DEF Readable
<1>4. n \in DOMAIN wal' /\ (Readable(n)' <=> ~f.torn)
  <2>1. \A j \in 1..(n - 1) : ~wal'[j].torn
    BY <1>1
  <2> QED
    BY <1>1, <2>1 DEF Readable
<1>5. {j \in DOMAIN wal' : Readable(j)'} = IF f.torn THEN DOMAIN wal ELSE DOMAIN wal \cup {n}
  BY <1>1, <1>3, <1>4
<1>6. KeptTags' = main.tags \cup {wal'[i].tag : i \in {j \in DOMAIN wal' : Readable(j)'}}
  BY DEF KeptTags
<1> QED
  BY <1>1, <1>2, <1>3, <1>5, <1>6

\* Beginnings stay beginnings when the next part of a plan is added.
LEMMA NextPartKeepsOrder ==
    ASSUME TypeOK, NEW set, Beginnings(set), NEW n \in 1..Len(issued), NEW tag \in PlanTags(n),
           \A earlier \in PlanTags(n) : earlier.i < tag.i => earlier \in set
    PROVE  Beginnings(set \cup {tag})
<1>1. tag \in AllTags
  BY DEF AllTags
<1>2. tag.plan = n
  BY PlanTagsShape DEF TypeOK, PlanTyped
<1> QED
  BY <1>1, <1>2 DEF Beginnings

\* Beginnings do not depend on the plans that are issued later.
LEMMA BeginningsLast ==
    ASSUME TypeOK, NEW set, Beginnings(set),
           issued' = issued \/ \E plan \in Plans : issued' = Append(issued, plan)
    PROVE  Beginnings(set)'
<1>1. Len(issued) \in Nat /\ \A n \in 1..Len(issued) : issued'[n] = issued[n]
  BY DEF TypeOK, PlanTyped
<1>2. Len(issued') >= Len(issued) /\ Len(issued') \in Nat
  BY DEF TypeOK, PlanTyped
<1>3. \A n \in 1..Len(issued) : PlanTags(n)' = PlanTags(n)
  BY <1>1 DEF PlanTags
<1>4. AllTags \subseteq AllTags'
  <2> SUFFICES ASSUME NEW tag \in AllTags PROVE tag \in AllTags'
    OBVIOUS
  <2>1. PICK n \in 1..Len(issued) : tag \in PlanTags(n)
    BY DEF AllTags
  <2>2. n \in 1..Len(issued') /\ tag \in PlanTags(n)'
    BY <2>1, <1>1, <1>2, <1>3
  <2> QED
    BY <2>2 DEF AllTags
<1>5. \A tag \in set : tag.plan \in 1..Len(issued)
  BY AllTagsShape DEF Beginnings
<1> QED
  BY <1>3, <1>4, <1>5 DEF Beginnings

\* What was kept stays in order while the log keeps the same tags, or takes on
\* the next one of the current plan.
LEMMA KeptStaysInOrder ==
    ASSUME TypeOK, OrderInv, KeptTags' = KeptTags,
           issued' = issued \/ \E plan \in Plans : issued' = Append(issued, plan)
    PROVE  Beginnings(KeptTags)'
<1>1. PICK set : set = KeptTags
  OBVIOUS
<1>2. Beginnings(set)
  BY <1>1 DEF OrderInv
<1>3. Beginnings(set)'
  BY <1>2, BeginningsLast
<1> QED
  BY <1>1, <1>3 DEF Beginnings

\* The next position keeps what is kept a beginning of its plan.
LEMMA NextTagInOrder ==
    ASSUME TypeOK, RecoveryInv, OrderInv, NEW h \in Handles, pc[h] = "log",
           NEW i \in Positions(issued[cur[h]]), NextPosition(h, i), issued' = issued,
           KeptTags' = KeptTags \cup {[plan |-> cur[h], i |-> i]}
    PROVE  Beginnings(KeptTags)'
<1>1. PICK set, n : set = KeptTags /\ n = cur[h]
  OBVIOUS
<1>2. PICK tag : tag = [plan |-> n, i |-> i]
  OBVIOUS
<1>3. n \in 1..Len(issued) /\ n # 0 /\ issued[n] \in Plans
  BY <1>1 DEF TypeOK, PlanTyped
<1>4. tag \in PlanTags(n)
  BY <1>1, <1>2 DEF PlanTags
<1>5. ASSUME NEW earlier \in PlanTags(n), earlier.i < tag.i
      PROVE  earlier \in set
  <2>1. earlier.i \in Positions(issued[n]) /\ earlier = [plan |-> n, i |-> earlier.i]
    BY <1>3, PlanTagsShape
  <2>2. earlier.i \in Nat /\ i \in Nat /\ at[h] \in Nat
    BY <2>1, <1>1, <1>3, PositionsAreNats DEF TypeOK, ControlTyped
  <2>3. earlier.i <= at[h]
    BY <2>1, <2>2, <1>1, <1>2, <1>5 DEF NextPosition
  <2>4. Kept(earlier)
    BY <2>3, <1>1, <1>3 DEF RecoveryInv, CurrentKept
  <2> QED
    BY <2>4, <1>1 DEF Kept, KeptTags
<1>6. Beginnings(set)
  BY <1>1 DEF OrderInv
<1>7. PICK more : more = set \cup {tag}
  OBVIOUS
<1>8. Beginnings(more)
  BY <1>3, <1>4, <1>5, <1>6, <1>7, NextPartKeepsOrder
<1>9. Beginnings(more)'
  BY <1>8, BeginningsLast
<1> QED
  BY <1>1, <1>2, <1>7, <1>9 DEF Beginnings

\* What an append that succeeded, failed or was cut short leaves in the log.
LEMMA LoggedInOrder ==
    ASSUME TypeOK, RecoveryInv, OrderInv, NEW h \in Handles, pc[h] = "log",
           NEW i \in Positions(issued[cur[h]]), NextPosition(h, i),
           main' = main, issued' = issued, wal' \in AfterFailedAppend(Frame(h, i))
    PROVE  Beginnings(KeptTags)' /\ KeptTags \subseteq KeptTags'
<1>1. PICK f : f = Frame(h, i)
  OBVIOUS
<1>2. /\ f \in Frames /\ ~f.torn /\ f.tag = [plan |-> cur[h], i |-> i]
      /\ TornFrame(f) \in Frames /\ TornFrame(f).torn
  BY <1>1, FrameTyped, TornFrameTyped
<1>3. wal \in Seq(Frames) /\ \A k \in DOMAIN wal : ~wal[k].torn
  BY InsideIntact DEF TypeOK, DiskTyped, Inside
<1>4. CASE wal' = wal
  <2>1. KeptTags' = KeptTags
    BY <1>4 DEF KeptTags, Readable
  <2> QED
    BY <2>1, KeptStaysInOrder
<1>5. CASE wal' = Append(wal, f)
  <2>1. KeptTags' = KeptTags \cup {[plan |-> cur[h], i |-> i]}
    BY <1>2, <1>3, <1>5, AppendAddsTag
  <2> QED
    BY <2>1, NextTagInOrder
<1>6. CASE wal' = Append(wal, TornFrame(f))
  <2>1. KeptTags' = KeptTags
    BY <1>2, <1>3, <1>6, AppendAddsTag
  <2> QED
    BY <2>1, KeptStaysInOrder
<1> QED
  BY <1>1, <1>4, <1>5, <1>6 DEF AfterFailedAppend

(***************************************************************************)
(* OrderInv is an invariant.                                               *)
(***************************************************************************)

\* Nothing is a beginning of everything.
LEMMA InitInOrder == Init => OrderInv
<1> SUFFICES ASSUME Init PROVE OrderInv
  OBVIOUS
<1>1. KeptTags = {}
  BY Empties DEF Init, KeptTags
<1>2. \A h \in Handles : InOrderAt(h)
  BY DEF Init, InOrderAt, Inside
<1> QED
  BY <1>1, <1>2 DEF OrderInv, Beginnings

\* A step of the lock holder has to be examined at that handle only.
LEMMA HolderInOrder ==
    ASSUME TypeOK, LockHeld, NEW h \in Handles, pc[h] # "closed",
           \A g \in Handles \ {h} : pc'[g] = pc[g] /\ cur'[g] = cur[g],
           Beginnings(KeptTags)', InOrderAt(h)'
    PROVE  OrderInv'
<1>1. ASSUME NEW g \in Handles, g # h
      PROVE  InOrderAt(g)'
  <2>1. pc'[g] = "closed" /\ cur'[g] = 0
    BY <1>1, Alone
  <2> QED
    BY <2>1 DEF InOrderAt, Inside
<1> QED
  BY <1>1 DEF OrderInv

\* After a handle has left, only what is kept matters.
LEMMA LeaveInOrder ==
    ASSUME TypeOK, LockHeld, NEW h \in Handles, pc[h] # "closed", Leave(h),
           Beginnings(KeptTags)'
    PROVE  OrderInv'
<1>1. \A g \in Handles : pc'[g] = "closed" /\ cur'[g] = 0
  BY Alone DEF Leave, TypeOK, ControlTyped
<1> QED
  BY <1>1 DEF OrderInv, InOrderAt, Inside

\* A step that touches neither files nor control.
LEMMA UntouchedInOrder ==
    ASSUME TypeOK, OrderInv, UNCHANGED <<main, wal, pc, pos, cur, issued, done>>
    PROVE  OrderInv'
<1>1. KeptTags' = KeptTags
  BY DEF KeptTags, Readable
<1>2. Beginnings(KeptTags)'
  BY <1>1, KeptStaysInOrder
<1>3. ASSUME NEW h \in Handles
      PROVE  InOrderAt(h)'
  <2>1. PICK set : set = done[h]
    OBVIOUS
  <2>2. Beginnings(set) => Beginnings(set)'
    BY BeginningsLast
  <2> QED
    BY <2>1, <2>2 DEF OrderInv, InOrderAt, Beginnings
<1> QED
  BY <1>2, <1>3 DEF OrderInv

\* Recovery: what has been read when the replay ends is what is kept.
LEMMA OpeningInOrder ==
    ASSUME TypeOK, LockHeld, RecoveryInv, OrderInv, NEW h \in Handles,
           Open(h) \/ LoadMain(h) \/ ReplayFrame(h) \/ EndReplay(h)
    PROVE  OrderInv' /\ KeptTags' = KeptTags
<1> USE DEF diskVars, handleVars, ghostVars
<1>t. /\ pc \in [Handles -> Steps] /\ done \in [Handles -> SUBSET Tags]
      /\ pos \in [Handles -> Nat] /\ wal \in Seq(Frames)
  BY DEF TypeOK, ControlTyped, GhostTyped, DiskTyped
<1>1. CASE Open(h)
  <2>1. KeptTags' = KeptTags
    BY <1>1 DEF Open, KeptTags, Readable
  <2>2. Beginnings(KeptTags)'
    BY <1>1, <2>1, KeptStaysInOrder DEF Open
  <2>3. \A g \in Handles : pc'[g] \in {"closed", "load"} /\ cur'[g] = 0
    BY <1>1, <1>t, FreeIsNoHandle DEF Open, LockHeld, TypeOK, PlanTyped
  <2> QED
    BY <2>1, <2>2, <2>3 DEF OrderInv, InOrderAt, Inside
<1>2. CASE LoadMain(h)
  <2>1. KeptTags' = KeptTags
    BY <1>2 DEF LoadMain, KeptTags, Readable
  <2>2. Beginnings(KeptTags)'
    BY <1>2, <2>1, KeptStaysInOrder DEF LoadMain
  <2>3. /\ pc[h] = "load" /\ pc'[h] = "replay" /\ done'[h] = main.tags /\ pos'[h] = 0
        /\ \A g \in Handles \ {h} : pc'[g] = pc[g] /\ cur'[g] = cur[g]
        /\ UNCHANGED <<main, wal, cur, issued>>
    BY <1>2, <1>t DEF LoadMain
  <2>4. InOrderAt(h)'
    BY <2>3 DEF InOrderAt, Inside, TypeOK, PlanTyped
  <2> QED
    BY <2>1, <2>2, <2>3, <2>4, HolderInOrder
<1>3. CASE ReplayFrame(h)
  <2>1. KeptTags' = KeptTags
    BY <1>3 DEF ReplayFrame, KeptTags, Readable
  <2>2. Beginnings(KeptTags)'
    BY <1>3, <2>1, KeptStaysInOrder DEF ReplayFrame
  <2>3. /\ pc[h] = "replay" /\ pc' = pc /\ pos'[h] = pos[h] + 1
        /\ done'[h] = done[h] \cup {wal[pos[h] + 1].tag}
        /\ UNCHANGED <<main, wal, cur, issued>>
    BY <1>3, <1>t DEF ReplayFrame
  <2>4. 1..(pos[h] + 1) = 1..pos[h] \cup {pos[h] + 1}
    BY <1>t
  <2>5. done'[h] = main.tags \cup {wal[i].tag : i \in 1..(pos[h] + 1)}
    BY <2>3, <2>4 DEF OrderInv, InOrderAt
  <2>6. InOrderAt(h)'
    BY <2>3, <2>5 DEF InOrderAt, Inside, TypeOK, PlanTyped
  <2> QED
    BY <2>1, <2>2, <2>3, <2>6, HolderInOrder
<1>4. CASE EndReplay(h)
  <2>1. /\ pc[h] = "replay" /\ pc'[h] = "idle" /\ wal' = SubSeq(wal, 1, pos[h])
        /\ \A g \in Handles \ {h} : pc'[g] = pc[g] /\ cur'[g] = cur[g]
        /\ UNCHANGED <<main, cur, issued, done>>
    BY <1>4, <1>t DEF EndReplay
  <2>2. pos[h] \in Nat /\ pos[h] <= Len(wal) /\ Len(wal) \in Nat
    BY <2>1, <1>t DEF TypeOK
  <2>3. DOMAIN wal' = 1..pos[h] /\ \A i \in 1..pos[h] : wal'[i] = wal[i] /\ i \in DOMAIN wal
    BY <2>1, <2>2, <1>t
  <2>4. \A i \in 1..pos[h] : ~wal[i].torn
    BY <2>1 DEF RecoveryInv, MemoryCovers
  <2>5. {i \in DOMAIN wal : Readable(i)} = 1..pos[h]
    <3>1. ASSUME NEW i \in DOMAIN wal, Readable(i), i > pos[h]
          PROVE  FALSE
      <4>1. pos[h] + 1 \in 1..i /\ pos[h] < Len(wal)
        BY <3>1, <2>2, <1>t
      <4> QED
        BY <1>4, <3>1, <4>1 DEF Readable, EndReplay, NextFrameIntact
    <3>2. \A i \in 1..pos[h] : Readable(i)
      BY <2>2, <2>3, <2>4 DEF Readable
    <3> QED
      BY <3>1, <3>2, <2>2, <2>3, <1>t
  <2>6. {i \in DOMAIN wal' : Readable(i)'} = 1..pos[h]
    BY <2>2, <2>3, <2>4 DEF Readable
  <2>7. KeptTags = done[h]
    BY <2>1, <2>5 DEF KeptTags, OrderInv, InOrderAt
  <2>8. KeptTags' = main.tags \cup {wal'[i].tag : i \in {j \in DOMAIN wal' : Readable(j)'}}
    BY <2>1 DEF KeptTags
  <2>9. KeptTags' = done[h]
    <3>1. KeptTags' = main.tags \cup {wal'[i].tag : i \in 1..pos[h]}
      BY <2>6, <2>8
    <3>2. {wal'[i].tag : i \in 1..pos[h]} = {wal[i].tag : i \in 1..pos[h]}
      BY <2>3
    <3> QED
      BY <3>1, <3>2, <2>1 DEF OrderInv, InOrderAt
  <2>10. Beginnings(KeptTags)'
    BY <2>1, <2>7, <2>9, KeptStaysInOrder
  <2>11. InOrderAt(h)'
    BY <2>1, <2>9, <2>10 DEF InOrderAt, Beginnings, TypeOK, PlanTyped
  <2> QED
    BY <2>1, <2>7, <2>9, <2>10, <2>11, HolderInOrder
<1> QED
  BY <1>1, <1>2, <1>3, <1>4

\* A new plan is added to the memory as a whole.
LEMMA RunPlanInOrder ==
    ASSUME TypeOK, LockHeld, OrderInv, NEW h \in Handles, NEW plan \in Plans, RunPlan(h, plan)
    PROVE  OrderInv' /\ KeptTags' = KeptTags
<1>n. PICK n : n = Len(issued) + 1
  OBVIOUS
<1>1. /\ pc[h] = "idle" /\ pc'[h] = "log" /\ cur'[h] = n /\ n \in Nat
      /\ issued' = Append(issued, plan) /\ issued'[n] = plan /\ Len(issued') = n
      /\ done'[h] = done[h] \cup {[plan |-> n, i |-> i] : i \in Positions(plan)}
      /\ \A g \in Handles \ {h} : pc'[g] = pc[g] /\ cur'[g] = cur[g]
      /\ UNCHANGED <<main, wal>>
  BY <1>n DEF RunPlan, diskVars, TypeOK, ControlTyped, PlanTyped, GhostTyped
<1>2. KeptTags' = KeptTags
  BY <1>1 DEF KeptTags, Readable
<1>3. Beginnings(KeptTags)'
  BY <1>1, <1>2, KeptStaysInOrder
<1>4. PICK set : set = done[h]
  OBVIOUS
<1>5. Beginnings(set)'
  BY <1>1, <1>4, BeginningsLast DEF OrderInv, InOrderAt, Inside
<1>6. PlanTags(n)' = {[plan |-> n, i |-> i] : i \in Positions(plan)}
  BY <1>1 DEF PlanTags
<1>7. PlanTags(n)' \subseteq AllTags'
  BY <1>1, <1>n DEF AllTags, TypeOK, PlanTyped
<1>8. \A tag \in PlanTags(n)' : tag.plan = n
  BY <1>6
<1>9. Beginnings(done[h])'
  BY <1>1, <1>4, <1>5, <1>6, <1>7, <1>8 DEF Beginnings
<1>10. InOrderAt(h)'
  BY <1>1, <1>9 DEF InOrderAt
<1> QED
  BY <1>1, <1>2, <1>3, <1>10, HolderInOrder

\* A step of the holder that goes on, or returns, with the same memory.
LEMMA SameMemoryInOrder ==
    ASSUME TypeOK, LockHeld, OrderInv, NEW h \in Handles, pc[h] \in Inside, pc'[h] \in Inside,
           \A g \in Handles \ {h} : pc'[g] = pc[g] /\ cur'[g] = cur[g],
           UNCHANGED <<issued, done>>, cur'[h] \in {0, cur[h]},
           Beginnings(KeptTags)'
    PROVE  OrderInv'
<1>1. PICK set : set = done[h]
  OBVIOUS
<1>2. Beginnings(set)'
  BY <1>1, BeginningsLast DEF OrderInv, InOrderAt
<1>3. InOrderAt(h)'
  BY <1>1, <1>2 DEF OrderInv, InOrderAt, Inside, Beginnings
<1>4. pc[h] # "closed"
  BY DEF Inside
<1> QED
  BY <1>3, <1>4, HolderInOrder

\* A statement is logged, or the attempt fails.
LEMMA LoggingInOrder ==
    ASSUME TypeOK, LockHeld, RecoveryInv, OrderInv, NEW h \in Handles,
           LogStatement(h) \/ ("torn" \notin IoErrors /\ AppendFails(h))
    PROVE  OrderInv' /\ KeptTags \subseteq KeptTags'
<1> USE DEF diskVars, handleVars, ghostVars
<1>1. PICK i \in Positions(issued[cur[h]]) :
          NextPosition(h, i) /\ wal' \in AfterFailedAppend(Frame(h, i))
  BY DEF LogStatement, AppendFails, AfterFailedCall, AfterFailedAppend
<1>2. /\ pc[h] = "log" /\ pc'[h] \in {"log", "idle"} /\ cur'[h] \in {0, cur[h]}
      /\ \A g \in Handles \ {h} : pc'[g] = pc[g] /\ cur'[g] = cur[g]
      /\ UNCHANGED <<main, issued, done>>
  BY DEF LogStatement, AppendFails, StopPlan, TypeOK, ControlTyped
<1>3. Beginnings(KeptTags)' /\ KeptTags \subseteq KeptTags'
  BY <1>1, <1>2, LoggedInOrder
<1> QED
  BY <1>2, <1>3, SameMemoryInOrder DEF Inside

\* Steps of a plan or a checkpoint that leave the main file and the log alone.
LEMMA SameFilesInOrder ==
    ASSUME TypeOK, LockHeld, OrderInv, NEW h \in Handles,
           FinishPlan(h) \/ AutoCheckpoint(h) \/ Flush(h) \/ WriteTmp(h) \/ SyncTmp(h)
    PROVE  OrderInv' /\ KeptTags' = KeptTags
<1>1. /\ pc[h] \in Inside /\ pc'[h] \in Inside /\ cur'[h] \in {0, cur[h]}
      /\ \A g \in Handles \ {h} : pc'[g] = pc[g] /\ cur'[g] = cur[g]
      /\ UNCHANGED <<main, wal, issued, done>>
  BY DEF FinishPlan, ReturnOk, StopPlan, AutoCheckpoint, Flush, BeginCheckpoint, WriteTmp, SyncTmp,
         TypeOK, ControlTyped, Inside, diskVars, ghostVars
<1>2. KeptTags' = KeptTags
  BY <1>1 DEF KeptTags, Readable
<1>3. Beginnings(KeptTags)'
  BY <1>1, <1>2, KeptStaysInOrder
<1> QED
  BY <1>1, <1>2, <1>3, SameMemoryInOrder

\* The rename makes what the handle has in memory the kept parts: also those of a
\* plan whose logging had failed.
LEMMA RenameInOrder ==
    ASSUME TypeOK, LockHeld, RecoveryInv, OrderInv, NEW h \in Handles, Rename(h)
    PROVE  OrderInv' /\ KeptTags \subseteq KeptTags'
<1>1. /\ pc[h] = "rename" /\ pc'[h] = "truncate" /\ main' = tmp
      /\ \A g \in Handles \ {h} : pc'[g] = pc[g] /\ cur'[g] = cur[g]
      /\ UNCHANGED <<wal, cur, issued, done>>
  BY DEF Rename, ghostVars, TypeOK, ControlTyped
<1>2. /\ main'.tags = done[h] /\ main.tags \subseteq done[h]
      /\ \A i \in DOMAIN wal : wal[i].tag \in done[h]
  BY <1>1 DEF RecoveryInv, CheckpointCovers, MemoryCovers, Inside
<1>3. KeptTags \subseteq done[h]
  BY <1>2 DEF KeptTags
<1>4. KeptTags' = done[h]
  BY <1>1, <1>2 DEF KeptTags
<1>5. PICK set : set = done[h]
  OBVIOUS
<1>6. Beginnings(set)'
  BY <1>1, <1>5, BeginningsLast DEF OrderInv, InOrderAt, Inside
<1>7. Beginnings(KeptTags)'
  BY <1>4, <1>5, <1>6 DEF Beginnings
<1> QED
  BY <1>1, <1>3, <1>4, <1>7, SameMemoryInOrder DEF Inside

\* After the rename the log holds nothing that the main file has not.
LEMMA TruncateInOrder ==
    ASSUME TypeOK, LockHeld, RecoveryInv, OrderInv, NEW h \in Handles,
           TruncateWal(h) \/ CheckpointFails(h)
    PROVE  OrderInv' /\ KeptTags' = KeptTags
<1>1. /\ pc[h] \in Inside /\ pc'[h] = "idle" /\ cur'[h] = 0
      /\ \A g \in Handles \ {h} : pc'[g] = pc[g] /\ cur'[g] = cur[g]
      /\ UNCHANGED <<main, issued, done>>
      /\ wal' = wal \/ (wal' = <<>> /\ pc[h] = "truncate")
  BY DEF TruncateWal, CheckpointFails, ReturnOk, StopPlan, TypeOK, ControlTyped, Inside
<1>2. KeptTags' = KeptTags
  <2>1. CASE wal' = wal
    BY <1>1, <2>1 DEF KeptTags, Readable
  <2>2. CASE wal' = <<>> /\ pc[h] = "truncate"
    <3>1. \A i \in DOMAIN wal : wal[i].tag \in main.tags
      BY <2>2 DEF RecoveryInv, CheckpointCovers
    <3>2. KeptTags = main.tags
      BY <3>1 DEF KeptTags
    <3>3. DOMAIN wal' = {}
      BY <2>2
    <3>4. KeptTags' = main'.tags
      BY <3>3 DEF KeptTags
    <3> QED
      BY <1>1, <3>2, <3>4
  <2> QED
    BY <1>1, <2>1, <2>2
<1>3. Beginnings(KeptTags)'
  BY <1>1, <1>2, KeptStaysInOrder
<1> QED
  BY <1>1, <1>2, <1>3, SameMemoryInOrder DEF Inside

\* Leaving keeps what was kept; a crash may add the frame that was being written.
LEMMA LeavingInOrder ==
    ASSUME TypeOK, LockHeld, RecoveryInv, OrderInv, NEW h \in Handles,
           Close(h) \/ Crash(h) \/ LoadFails(h)
    PROVE  OrderInv' /\ KeptTags \subseteq KeptTags'
<1>1. pc[h] # "closed" /\ Leave(h) /\ main' = main /\ issued' = issued
  BY DEF Close, Crash, LoadFails, Leave
<1>2. ASSUME wal' = wal
      PROVE  Beginnings(KeptTags)' /\ KeptTags \subseteq KeptTags'
  <2>1. KeptTags' = KeptTags
    BY <1>1, <1>2 DEF KeptTags, Readable
  <2> QED
    BY <1>1, <2>1, KeptStaysInOrder
<1>3. ASSUME Crash(h), pc[h] = "log", wal' # wal
      PROVE  Beginnings(KeptTags)' /\ KeptTags \subseteq KeptTags'
  <2>1. PICK i \in Positions(issued[cur[h]]) :
            NextPosition(h, i) /\ wal' \in AfterFailedAppend(Frame(h, i))
    BY <1>3 DEF Crash
  <2> QED
    BY <1>1, <1>3, <2>1, LoggedInOrder
<1>4. wal' = wal \/ (Crash(h) /\ pc[h] = "log")
  BY DEF Close, Crash, LoadFails
<1> QED
  BY <1>1, <1>2, <1>3, <1>4, LeaveInOrder

\* Steps that concern neither the files nor the order of what is in memory.
LEMMA OtherInOrder ==
    ASSUME TypeOK, OrderInv,
           \/ UNCHANGED vars
           \/ \E h \in Handles : ClearStaleLock(h)
           \/ \E h \in Handles, plan \in Plans : ExecuteFails(h, plan) \/ ClaimFails(h, plan)
    PROVE  OrderInv' /\ UNCHANGED <<KeptTags, pc, issued, acked>>
<1>1. UNCHANGED <<main, wal, pc, pos, cur, issued, acked, done>>
  BY DEF ClearStaleLock, ExecuteFails, ClaimFails, vars, diskVars, handleVars, ghostVars
<1>2. KeptTags' = KeptTags
  BY <1>1 DEF KeptTags, Readable
<1> QED
  BY <1>1, <1>2, UntouchedInOrder

\* Every step keeps what is kept, and what a handle has, beginnings of plans.
LEMMA NextInOrder ==
    ASSUME TypeOK, LockHeld, RecoveryInv, OrderInv, "torn" \notin IoErrors, [Next]_vars
    PROVE  OrderInv'
BY OpeningInOrder, RunPlanInOrder, LoggingInOrder, SameFilesInOrder, RenameInOrder, TruncateInOrder,
   LeavingInOrder, OtherInOrder DEF Next

(***************************************************************************)
(* The refinement: every step of StoreFile is a step of DurableLog, or     *)
(* leaves its state alone.                                                 *)
(***************************************************************************)

HandlesIn == {h \in Handles : pc[h] # "closed"}
Shapes == [n \in DOMAIN issued |-> Positions(issued[n])]

\* The parts of a plan of DurableLog are the tags of the plan.
LEMMA PartsAreTags ==
    ASSUME TypeOK
    PROVE  /\ \A n \in 1..Len(issued) : Promised!Parts(n) = PlanTags(n)
           /\ Promised!Submitted = AllTags
<1>1. DOMAIN issued = 1..Len(issued)
  BY DEF TypeOK, PlanTyped
<1>2. \A n \in 1..Len(issued) : Promised!Parts(n) = PlanTags(n)
  BY <1>1 DEF Promised!Parts, PlanTags
<1>3. Promised!Submitted = UNION {Promised!Parts(n) : n \in 1..Len(issued)}
  BY <1>1 DEF Promised!Submitted
<1> QED
  BY <1>2, <1>3 DEF AllTags

\* Beginnings of plans are in order.
LEMMA BeginningsInOrder ==
    ASSUME TypeOK, NEW set, Beginnings(set)
    PROVE  set \subseteq Promised!Submitted /\ Promised!InOrder(set)
<1>1. \A tag \in set : tag.plan \in 1..Len(issued)
  BY AllTagsShape DEF Beginnings
<1> QED
  BY <1>1, PartsAreTags DEF Beginnings, Promised!InOrder

\* While the plans stay the same, keeping more is what DurableLog allows.
LEMMA KeepsMore ==
    ASSUME TypeOK, NEW h \in Handles, pc[h] # "closed", UNCHANGED <<issued, acked>>,
           KeptTags \subseteq KeptTags', Beginnings(KeptTags)'
    PROVE  Promised!KeepMore
<1>1. PICK set : set = KeptTags'
  OBVIOUS
<1>2. \A n : PlanTags(n)' = PlanTags(n)
  BY DEF PlanTags
<1>3. AllTags' = AllTags
  BY <1>2 DEF AllTags
<1>4. Beginnings(set)
  BY <1>1, <1>2, <1>3 DEF Beginnings
<1>5. set \subseteq Promised!Submitted /\ Promised!InOrder(set)
  BY <1>4, BeginningsInOrder
<1>6. {g \in Handles : pc[g] # "closed"} # {}
  OBVIOUS
<1> QED
  BY <1>1, <1>5, <1>6 DEF Promised!KeepMore

\* Steps of the holder that do not submit and do not acknowledge.
LEMMA KeepStep ==
    ASSUME TypeOK, LockHeld, NEW h \in Handles, pc[h] # "closed",
           pc'[h] # "closed", \A g \in Handles \ {h} : pc'[g] = pc[g],
           UNCHANGED <<issued, acked>>, KeptTags \subseteq KeptTags', OrderInv'
    PROVE  Promised!Next
<1>1. Promised!KeepMore
  BY KeepsMore DEF OrderInv
<1>2. {g \in Handles : pc'[g] # "closed"} = {g \in Handles : pc[g] # "closed"}
  OBVIOUS
<1> QED
  BY <1>1, <1>2 DEF Promised!Keep, Promised!Next

\* Opening is entering: the lock was free, so nobody was in.
LEMMA OpenEnters ==
    ASSUME TypeOK, LockHeld, NEW h \in Handles, Open(h)
    PROVE  Promised!Next
<1>1. /\ \A g \in Handles : pc[g] = "closed"
      /\ pc' = [pc EXCEPT ![h] = "load"] /\ UNCHANGED <<main, wal, issued, acked>>
  BY FreeIsNoHandle DEF Open, LockHeld, ghostVars
<1>2. KeptTags' = KeptTags
  BY <1>1 DEF KeptTags, Readable
<1>3. {g \in Handles : pc[g] # "closed"} = {}
  BY <1>1
<1>4. {g \in Handles : pc'[g] # "closed"} = {h}
  BY <1>1 DEF TypeOK, ControlTyped
<1>5. Promised!Enter(h)
  BY <1>1, <1>2, <1>3, <1>4 DEF Promised!Enter
<1> QED
  BY <1>5 DEF Promised!Next

\* Running a plan submits it.
LEMMA RunPlanSubmits ==
    ASSUME TypeOK, LockHeld, OrderInv, NEW h \in Handles, NEW plan \in Plans, RunPlan(h, plan)
    PROVE  Promised!Next
<1>1. /\ pc[h] = "idle" /\ pc'[h] = "log" /\ issued' = Append(issued, plan)
      /\ \A g \in Handles \ {h} : pc'[g] = pc[g]
      /\ UNCHANGED acked
  BY DEF RunPlan, diskVars, TypeOK, ControlTyped
<1>2. KeptTags' = KeptTags
  BY RunPlanInOrder
<1>3. {g \in Handles : pc'[g] # "closed"} = {g \in Handles : pc[g] # "closed"}
  BY <1>1
<1>4. {g \in Handles : pc[g] # "closed"} # {}
  BY <1>1
<1>5. Shapes' = Append(Shapes, Positions(plan))
  <2>1. /\ issued \in Seq(Plans) /\ Len(issued) \in Nat
        /\ DOMAIN issued = 1..Len(issued) /\ DOMAIN issued' = 1..(Len(issued) + 1)
        /\ \A n \in 1..Len(issued) : issued'[n] = issued[n]
        /\ issued'[Len(issued) + 1] = plan
    BY <1>1 DEF TypeOK, PlanTyped
  <2>2. PICK old : old = Shapes
    OBVIOUS
  <2>3. old \in Seq({Positions(p) : p \in Plans}) /\ Len(old) = Len(issued)
    BY <2>1, <2>2 DEF Shapes
  <2>4. \A n \in 1..Len(issued) : old[n] = Positions(issued[n])
    BY <2>1, <2>2 DEF Shapes
  <2>5. Shapes' = [n \in 1..(Len(issued) + 1) |-> Positions(issued'[n])]
    BY <2>1 DEF Shapes
  <2>6. PICK shapes, shape, last :
            shapes = {Positions(p) : p \in Plans} /\ shape = Positions(plan) /\ last = Len(issued)
    OBVIOUS
  <2>7. old \in Seq(shapes) /\ shape \in shapes /\ Len(old) = last /\ last \in Nat
    BY <2>1, <2>3, <2>6
  <2>8. PICK new : new = Append(old, shape)
    OBVIOUS
  <2>9. /\ new = [n \in 1..(last + 1) |-> new[n]] /\ new[last + 1] = shape
        /\ \A n \in 1..last : new[n] = old[n]
    <3>1. /\ new \in Seq(shapes) /\ Len(new) = last + 1 /\ new[last + 1] = shape
          /\ \A n \in 1..last : new[n] = old[n]
      BY <2>7, <2>8, AppendProperties
    <3>2. new \in [1..(last + 1) -> shapes]
      BY <3>1, LenProperties
    <3>3. new = [n \in 1..(last + 1) |-> new[n]]
      BY <3>2, Zenon
    <3> QED
      BY <3>1, <3>3
  <2>10. \A n \in 1..(last + 1) : new[n] = Positions(issued'[n])
    <3>1. \A n \in 1..last : new[n] = Positions(issued'[n])
      BY <2>1, <2>4, <2>6, <2>9
    <3>2. new[last + 1] = Positions(issued'[last + 1])
      BY <2>1, <2>6, <2>9
    <3>3. \A n \in 1..(last + 1) : n \in 1..last \/ n = last + 1
      BY <2>7
    <3> QED
      BY <3>1, <3>2, <3>3
  <2>11. new = Shapes'
    BY <2>5, <2>6, <2>9, <2>10
  <2> QED
    BY <2>2, <2>6, <2>8, <2>11
<1>6. Promised!Submit(Positions(plan))
  BY <1>1, <1>2, <1>3, <1>4, <1>5 DEF Promised!Submit, Shapes
<1> QED
  BY <1>6 DEF Promised!Next

\* Returning Ok acknowledges the last plan, all of it kept, or nothing new.
LEMMA ReturnAcknowledges ==
    ASSUME TypeOK, LockHeld, RecoveryInv, OrderInv, NEW h \in Handles,
           FinishPlan(h) \/ TruncateWal(h)
    PROVE  [Promised!Next]_Promised!vars
<1>1. /\ pc[h] \in Inside /\ pc'[h] = "idle" /\ issued' = issued
      /\ \A g \in Handles \ {h} : pc'[g] = pc[g]
      /\ acked' = IF cur[h] = 0 THEN acked ELSE acked \cup PlanTags(cur[h])
      /\ pc[h] = "log" => LogComplete(h)
  BY DEF FinishPlan, TruncateWal, ReturnOk, StopPlan, TypeOK, ControlTyped, Inside
<1>2. KeptTags' = KeptTags
  BY SameFilesInOrder, TruncateInOrder
<1>3. {g \in Handles : pc'[g] # "closed"} = {g \in Handles : pc[g] # "closed"}
  BY <1>1 DEF Inside
<1>4. {g \in Handles : pc[g] # "closed"} # {}
  BY <1>1 DEF Inside
<1>5. CASE cur[h] = 0
  BY <1>1, <1>2, <1>3, <1>5 DEF Promised!vars
<1>6. CASE cur[h] # 0
  <2>1. cur[h] = Len(issued) /\ cur[h] \in 1..Len(issued)
    BY <1>6 DEF OrderInv, InOrderAt, TypeOK, PlanTyped
  <2>2. Len(Shapes) = Len(issued) /\ Shapes # <<>>
    <3>1. DOMAIN Shapes = 1..Len(issued) /\ Len(issued) \in Nat
      BY DEF Shapes, TypeOK, PlanTyped
    <3>2. Shapes \in Seq({Positions(p) : p \in Plans})
      BY DEF Shapes, TypeOK, PlanTyped
    <3> QED
      BY <3>1, <3>2, <2>1
  <2>3. Promised!Parts(Len(issued)) = PlanTags(cur[h])
    BY <2>1, PartsAreTags
  <2>4. \A tag \in PlanTags(cur[h]) : Kept(tag)
    BY <1>1, <1>6 DEF RecoveryInv, CurrentKept, LogComplete, PlanTags
  <2>5. PlanTags(cur[h]) \subseteq KeptTags
    BY <2>4 DEF Kept, KeptTags
  <2>6. Promised!Acknowledge
    BY <1>1, <1>2, <1>3, <1>4, <1>6, <2>2, <2>3, <2>5 DEF Promised!Acknowledge, Shapes
  <2> QED
    BY <2>6 DEF Promised!Next
<1> QED
  BY <1>5, <1>6

\* Closing, crashing and failing to open are leaving.
LEMMA LeavingLeaves ==
    ASSUME TypeOK, LockHeld, RecoveryInv, OrderInv, NEW h \in Handles,
           Close(h) \/ Crash(h) \/ LoadFails(h)
    PROVE  Promised!Next
<1>1. pc[h] # "closed" /\ Leave(h) /\ UNCHANGED <<issued, acked>>
  BY DEF Close, Crash, LoadFails, Leave
<1>2. OrderInv' /\ KeptTags \subseteq KeptTags'
  BY LeavingInOrder
<1>3. Promised!KeepMore
  BY <1>1, <1>2, KeepsMore DEF OrderInv
<1>4. {g \in Handles : pc'[g] # "closed"} = {}
  BY <1>1, Alone DEF Leave, TypeOK, ControlTyped
<1>5. Promised!Leave
  BY <1>3, <1>4 DEF Promised!Leave
<1> QED
  BY <1>5 DEF Promised!Next

\* Every step of StoreFile is one of DurableLog or leaves its state alone.
LEMMA NextPromised ==
    ASSUME TypeOK, LockHeld, RecoveryInv, OrderInv, "torn" \notin IoErrors, [Next]_vars
    PROVE  [Promised!Next]_Promised!vars
<1>1. ASSUME NEW h \in Handles, LoadMain(h) \/ ReplayFrame(h) \/ EndReplay(h)
      PROVE  Promised!Next
  <2>1. /\ pc[h] # "closed" /\ pc'[h] # "closed" /\ UNCHANGED <<issued, acked>>
        /\ \A g \in Handles \ {h} : pc'[g] = pc[g]
    BY <1>1 DEF LoadMain, ReplayFrame, EndReplay, ghostVars, TypeOK, ControlTyped
  <2> QED
    BY <1>1, <2>1, OpeningInOrder, KeepStep
<1>2. ASSUME NEW h \in Handles,
             LogStatement(h) \/ AppendFails(h) \/ AutoCheckpoint(h) \/ Flush(h)
      PROVE  Promised!Next
  <2>1. /\ pc[h] # "closed" /\ pc'[h] # "closed" /\ UNCHANGED <<issued, acked>>
        /\ \A g \in Handles \ {h} : pc'[g] = pc[g]
    BY <1>2 DEF LogStatement, AppendFails, StopPlan, AutoCheckpoint, Flush, BeginCheckpoint,
                ghostVars, TypeOK, ControlTyped
  <2> QED
    BY <1>2, <2>1, LoggingInOrder, SameFilesInOrder, KeepStep
<1>3. ASSUME NEW h \in Handles, WriteTmp(h) \/ SyncTmp(h) \/ Rename(h) \/ CheckpointFails(h)
      PROVE  Promised!Next
  <2>1. /\ pc[h] # "closed" /\ pc'[h] # "closed" /\ UNCHANGED <<issued, acked>>
        /\ \A g \in Handles \ {h} : pc'[g] = pc[g]
    BY <1>3 DEF WriteTmp, SyncTmp, Rename, CheckpointFails, StopPlan, ghostVars, TypeOK, ControlTyped
  <2> QED
    BY <1>3, <2>1, SameFilesInOrder, RenameInOrder, TruncateInOrder, KeepStep
<1>4. CASE \/ UNCHANGED vars
           \/ \E h \in Handles : ClearStaleLock(h)
           \/ \E h \in Handles, plan \in Plans : ExecuteFails(h, plan) \/ ClaimFails(h, plan)
  BY <1>4, OtherInOrder DEF Promised!vars
<1> QED
  BY <1>1, <1>2, <1>3, <1>4, OpenEnters, RunPlanSubmits, ReturnAcknowledges, LeavingLeaves DEF Next

\* StoreFile starts as DurableLog does.
LEMMA InitPromised == Init => Promised!Init
<1> SUFFICES ASSUME Init PROVE Promised!Init
  OBVIOUS
<1>1. KeptTags = {}
  BY Empties DEF Init, KeptTags
<1>2. {h \in Handles : pc[h] # "closed"} = {}
  BY DEF Init
<1>3. [n \in DOMAIN issued |-> Positions(issued[n])] = <<>>
  BY DEF Init
<1> QED
  BY <1>1, <1>2, <1>3 DEF Init, Promised!Init

\* The file-backed database implements DurableLog, for any handles, plans,
\* thresholds and bounds, as long as no write is cut short under a process that
\* lives on: crashes, failed calls, checkpoints and recoveries cannot be seen.
THEOREM Implements == "torn" \notin IoErrors => (Spec => StoresDurably)
<1> SUFFICES ASSUME "torn" \notin IoErrors PROVE Spec => StoresDurably
  OBVIOUS
<1>1. Init => TypeOK /\ LockHeld /\ RecoveryInv /\ OrderInv
  BY InitTyped, InitRecovers, InitInOrder
<1>2. /\ TypeOK /\ LockHeld /\ RecoveryInv /\ OrderInv /\ [Next]_vars
      => (TypeOK /\ LockHeld /\ RecoveryInv /\ OrderInv)'
  BY NextTyped, NextLockHeld, NextRecovers, NextInOrder
<1>3. Init => Promised!Init
  BY InitPromised
<1>4. TypeOK /\ LockHeld /\ RecoveryInv /\ OrderInv /\ [Next]_vars => [Promised!Next]_Promised!vars
  BY NextPromised
<1> QED
  BY <1>1, <1>2, <1>3, <1>4, PTL DEF Spec, StoresDurably, Promised!Spec

(***************************************************************************)
(* Recovery finds the store as it was.  The invariant says what a recovery *)
(* from the files as they are at the moment would find.                    *)
(***************************************************************************)

(***************************************************************************)
(* Recovery: the image, then the frames, one by one.                       *)
(***************************************************************************)

Recover(image, frames) ==
    FoldLeft(LAMBDA c, frame : Replayed(c, frame.stmt), AtRoot(LoadedStore(image)), frames)

Recovering(none, c, frame) == Replayed(c, frame.stmt)

RecoverFold == INSTANCE Folding WITH Op <- Recovering

\* Recovery runs frame by frame.
LEMMA RecoverEquations ==
    /\ \A image : Recover(image, <<>>) = AtRoot(LoadedStore(image))
    /\ \A image, q, x : IsSeq(q) => Recover(image, Append(q, x)) = Replayed(Recover(image, q), x.stmt)
<1>1. \A image, q : Recover(image, q) = RecoverFold!Fold(0, AtRoot(LoadedStore(image)), q)
  BY DEF Recover, Recovering, Replayed, FoldLeft, MapThenFoldSet, Max,
        RecoverFold!Fold, RecoverFold!FoldLeft, RecoverFold!MapThenFoldSet, RecoverFold!Max
<1>2. ASSUME NEW image, NEW q, NEW x, IsSeq(q)
      PROVE  Recover(image, Append(q, x)) = Replayed(Recover(image, q), x.stmt)
  <2> DEFINE base == AtRoot(LoadedStore(image))
  <2>1. q \in Seq(Range(q) \cup {x}) /\ x \in Range(q) \cup {x}
    BY <1>2 DEF IsSeq
  <2> HIDE DEF base
  <2>2. RecoverFold!Fold(0, base, Append(q, x)) = Recovering(0, RecoverFold!Fold(0, base, q), x)
    BY <2>1, RecoverFold!FoldAppend
  <2> QED BY <1>1, <2>2 DEF Recovering, base
<1>3. \A image : RecoverFold!Fold(0, AtRoot(LoadedStore(image)), <<>>) = AtRoot(LoadedStore(image))
  BY RecoverFold!FoldEmpty
<1> QED BY <1>1, <1>2, <1>3

IsFrameStmt(stmt) == IsClient(stmt) \/ stmt = ResetStmt
IsFrames(q) == IsSeq(q) /\ \A i \in 1..Len(q) : IsFrameStmt(q[i].stmt)

\* Ignoring the failure of a statement keeps a run in order.
LEMMA ReplayedOk ==
    ASSUME NEW c, RunOk(c), NEW stmt, IsFrameStmt(stmt)
    PROVE  RunOk(Replayed(c, stmt)) /\ ~Replayed(c, stmt).failed
<1> DEFINE c2 == ExecuteInContext(c, stmt)
<1>1. RunOk(c2)
  BY RunStep DEF IsFrameStmt
<1>2. Replayed(c, stmt) = [c2 EXCEPT !.failed = FALSE]
  BY DEF Replayed
<1> HIDE DEF c2
<1>3. Replayed(c, stmt) = [store |-> c2.store, ctx |-> c2.ctx, failed |-> FALSE]
  BY <1>1, <1>2 DEF RunOk
<1> QED BY <1>1, <1>3 DEF RunOk

\* The run a plan or a recovery starts from.
LEMMA RootOk ==
    ASSUME NEW st, MemoriesOk(st)
    PROVE  /\ RunOk(AtRoot(st)) /\ ~AtRoot(st).failed
           /\ AtRoot(st).ctx = Root /\ AtRoot(st).store = st
BY DEF RunOk, AtRoot

\* Recovery from an image in order is in order throughout.
LEMMA RecoverOk ==
    ASSUME NEW image, MemoriesOk(LoadedStore(image)), NEW q, IsFrames(q)
    PROVE  RunOk(Recover(image, q)) /\ ~Recover(image, q).failed
<1> DEFINE E == {x \in Range(q) : IsFrameStmt(x.stmt)}
           good == {r \in Seq(E) : RunOk(Recover(image, r)) /\ ~Recover(image, r).failed}
<1>1. <<>> \in good
  <2>1. <<>> \in Seq(E)
    OBVIOUS
  <2> QED BY <2>1, RecoverEquations, RootOk
<1>2. ASSUME NEW r \in good, NEW x \in E PROVE Append(r, x) \in good
  <2>1. r \in Seq(E)
    OBVIOUS
  <2>2. IsSeq(r)
    BY ONLY <2>1 DEF IsSeq, Range
  <2>3. Recover(image, Append(r, x)) = Replayed(Recover(image, r), x.stmt)
    BY <2>2, RecoverEquations
  <2>4. RunOk(Recover(image, r)) /\ IsFrameStmt(x.stmt) /\ Append(r, x) \in Seq(E)
    BY <2>1
  <2> QED BY <2>3, <2>4, ReplayedOk
<1> HIDE DEF good
<1>3. q \in Seq(E)
  <2>1. q \in Seq(Range(q)) /\ \A i \in 1..Len(q) : q[i] \in E
    BY SeqFacts DEF IsFrames, IsSeq
  <2> HIDE DEF E
  <2> QED BY <2>1
<1> HIDE DEF E
<1>4. q \in good
  BY <1>1, <1>2, <1>3, RecoverFold!SeqInduction
<1> QED BY <1>4 DEF good

\* A load finds what was written: the tables of the memories, which an image
\* leaves out, are declared by their histories.
LEMMA ImageRestores ==
    ASSUME NEW st, MemoriesOk(st)
    PROVE  RebuildTables(CoreFrame(st)) = SnapshotOf(st)
<1> DEFINE core == CoreFrame(st)
           st2 == RebuildTables(core)
           skipped == SkipTables(st.memories)
<1>1. /\ IsStore(st) /\ IsMap(st.memories)
      /\ \A m \in DOMAIN st.memories : BlockOk(st.memories[m])
  BY DEF MemoriesOk
<1>2. /\ IsStore(core) /\ core.history = <<>> /\ core.memories = skipped
      /\ core.records = st.records /\ core.edges = st.edges /\ core.vector_dims = st.vector_dims
      /\ core.clock = st.clock /\ core.tables = st.tables
  BY <1>1 DEF CoreFrame, IsStore, IsMap, Parts
<1>3. DOMAIN skipped = DOMAIN st.memories /\ IsMap(skipped)
      /\ \A m \in DOMAIN st.memories : skipped[m] = [st.memories[m] EXCEPT !.tables = <<>>]
  BY DEF SkipTables, IsMap
<1> HIDE DEF core, skipped
<1>4. DeclaredBy(<<>>, st.tables) = st.tables
  <2>1. DeclaredBy(<<>>, st.tables) = DeclareFold!Fold(0, st.tables, <<>>)
    BY DEF DeclaredBy, Declaring, DeclareEntry, FoldLeft, MapThenFoldSet, Max,
        DeclareFold!Fold, DeclareFold!FoldLeft, DeclareFold!MapThenFoldSet, DeclareFold!Max
  <2> QED BY <2>1, DeclareFold!FoldEmpty
<1> DEFINE rebuilt == [m \in DOMAIN skipped |-> RebuildIndex(skipped[m])]
           root == RebuildIndex(core)
<1>a. /\ IsStore(root) /\ root.history = <<>> /\ root.memories = skipped
      /\ root.records = st.records /\ root.edges = st.edges /\ root.vector_dims = st.vector_dims
      /\ root.clock = st.clock /\ root.tables = st.tables
  BY <1>2, <1>4 DEF RebuildIndex, IsStore, IsMap, Parts
<1>b. st2 = [root EXCEPT !.memories = rebuilt]
  BY <1>a DEF RebuildTables
<1> HIDE DEF root, st2
<1>5. /\ IsStore(st2) /\ st2.history = <<>>
      /\ st2.records = st.records /\ st2.edges = st.edges /\ st2.vector_dims = st.vector_dims
      /\ st2.clock = st.clock /\ st2.tables = st.tables
      /\ st2.memories = rebuilt
  BY <1>a, <1>b DEF IsStore, IsMap, Parts
<1>6. rebuilt = st.memories
  <2>1. ASSUME NEW m \in DOMAIN st.memories PROVE rebuilt[m] = st.memories[m]
    <3> DEFINE b == st.memories[m]
    <3>1. IsStore(b) /\ DeclaredBy(b.history, <<>>) = b.tables
      BY <1>1 DEF BlockOk, Shaped, Told, Explains
    <3>2. rebuilt[m] = [skipped[m] EXCEPT !.tables = DeclaredBy(skipped[m].history, @)]
      BY <1>3 DEF RebuildIndex
    <3>3. skipped[m] = [b EXCEPT !.tables = <<>>]
      BY <1>3
    <3> HIDE DEF b
    <3>4. skipped[m].history = b.history /\ skipped[m].tables = <<>>
      BY <3>1, <3>3 DEF IsStore, IsMap, Parts
    <3>5. rebuilt[m] = [skipped[m] EXCEPT !.tables = b.tables]
      BY <3>1, <3>2, <3>4
    <3>6. [skipped[m] EXCEPT !.tables = b.tables] = b
      BY <3>1, <3>3 DEF IsStore, IsMap, Parts
    <3> QED BY <3>5, <3>6 DEF b
  <2>2. DOMAIN rebuilt = DOMAIN st.memories /\ rebuilt = [m \in DOMAIN rebuilt |-> rebuilt[m]]
    BY <1>3
  <2> HIDE DEF rebuilt
  <2> QED BY <1>1, <2>1, <2>2 DEF IsMap
<1> HIDE DEF rebuilt, st2
<1>7. st2 = SnapshotOf(st)
  BY <1>1, <1>5, <1>6 DEF SnapshotOf, IsStore, IsMap, Parts
<1> QED BY <1>7 DEF st2, core

\* A snapshot is in order if the store is, and is its own snapshot.
LEMMA SnapshotOk ==
    ASSUME NEW st, MemoriesOk(st)
    PROVE  MemoriesOk(SnapshotOf(st)) /\ SnapshotOf(SnapshotOf(st)) = SnapshotOf(st)
<1>1. IsStore(st) /\ IsStore(SnapshotOf(st)) /\ SnapshotOf(st).memories = st.memories
  BY DEF MemoriesOk, SnapshotOf, IsStore, IsMap, Parts
<1>2. SnapshotOf(SnapshotOf(st)) = SnapshotOf(st)
  BY <1>1 DEF SnapshotOf, IsStore, IsMap, Parts
<1> QED BY <1>1, <1>2 DEF MemoriesOk

(***************************************************************************)
(* Plans: how far one has got, and what the log has of it.                 *)
(***************************************************************************)

\* One statement more of a plan.
LEMMA OneMore ==
    ASSUME NEW st, NEW plan, IsSeq(plan), NEW n \in Nat, n + 1 <= Len(plan)
    PROVE  LET c == ExecutePlan(st, SubSeq(plan, 1, n))
               d == ExecutePlan(st, SubSeq(plan, 1, n + 1))
           IN  /\ c.failed => d = c
               /\ ~c.failed => d = ExecuteInContext(c, plan[n + 1])
<1>1. PICK q : q = SubSeq(plan, 1, n)
  OBVIOUS
<1>2. SubSeq(plan, 1, n + 1) = Append(q, plan[n + 1])
  BY <1>1, PrefixFacts
<1>3. IsSeq(q)
  <2>1. n \in 0..Len(plan)
    BY SeqFacts
  <2> QED BY <1>1, <2>1, PrefixFacts
<1>4. ExecutePlan(st, Append(q, plan[n + 1])) =
         IF ExecutePlan(st, q).failed THEN ExecutePlan(st, q) ELSE ExecuteInContext(ExecutePlan(st, q), plan[n + 1])
  BY <1>3, PlanEquations
<1> QED BY <1>1, <1>2, <1>4

\* A plan keeps the store in order, statement by statement.
LEMMA PlanOk ==
    ASSUME NEW st, MemoriesOk(st), NEW plan, IsPlan(plan)
    PROVE  \A n \in 0..Len(plan) : RunOk(ExecutePlan(st, SubSeq(plan, 1, n)))
<1> DEFINE Run(n) == ExecutePlan(st, SubSeq(plan, 1, n))
           good == {n \in Nat : n <= Len(plan) => RunOk(Run(n))}
<1>0. IsSeq(plan) /\ Len(plan) \in Nat
  BY SeqFacts DEF IsPlan
<1>1. 0 \in good
  <2>1. Run(0) = AtRoot(st)
    BY <1>0, PrefixFacts, PlanEquations
  <2> QED BY <2>1, RootOk
<1>2. ASSUME NEW n \in Nat, n \in good PROVE n + 1 \in good
  <2> SUFFICES ASSUME n + 1 <= Len(plan) PROVE RunOk(Run(n + 1))
    OBVIOUS
  <2>1. n <= Len(plan) /\ n \in 0..Len(plan) /\ n + 1 \in 1..Len(plan)
    BY <1>0
  <2>2. RunOk(Run(n))
    BY <1>2, <2>1
  <2>3. Run(n + 1) = Run(n) \/ Run(n + 1) = ExecuteInContext(Run(n), plan[n + 1])
    BY <1>0, OneMore
  <2>4. IsClient(plan[n + 1])
    BY <2>1 DEF IsPlan
  <2> HIDE DEF Run
  <2> QED BY <2>2, <2>3, <2>4, RunStep
<1> HIDE DEF good
<1>3. \A n \in Nat : n \in good
  BY <1>1, <1>2, PlanFold!Induction
<1> QED BY <1>0, <1>3 DEF good

\* The first statements of a plan that succeeds succeed.
LEMMA PrefixesSucceed ==
    ASSUME NEW st, NEW plan, IsPlan(plan), ~ExecutePlan(st, plan).failed
    PROVE  /\ \A n \in 0..Len(plan) : ~ExecutePlan(st, SubSeq(plan, 1, n)).failed
           /\ \A n \in 1..Len(plan) :
                 ExecutePlan(st, SubSeq(plan, 1, n)) =
                    ExecuteInContext(ExecutePlan(st, SubSeq(plan, 1, n - 1)), plan[n])
<1> DEFINE Run(n) == ExecutePlan(st, SubSeq(plan, 1, n))
<1>0. IsSeq(plan) /\ Len(plan) \in Nat
  BY SeqFacts DEF IsPlan
<1>1. ASSUME NEW n \in Nat, n + 1 <= Len(plan)
      PROVE  /\ Run(n).failed => Run(n + 1) = Run(n)
             /\ ~Run(n).failed => Run(n + 1) = ExecuteInContext(Run(n), plan[n + 1])
  BY <1>0, <1>1, OneMore
<1>2. Run(Len(plan)) = ExecutePlan(st, plan)
  BY <1>0, PrefixFacts
<1> HIDE DEF Run
<1>3. ASSUME NEW n \in 0..Len(plan), Run(n).failed PROVE FALSE
  <2> DEFINE bad == {k \in Nat : n + k <= Len(plan) => Run(n + k).failed}
  <2>1. 0 \in bad
    BY <1>3
  <2>2. ASSUME NEW k \in Nat, k \in bad PROVE k + 1 \in bad
    <3> SUFFICES ASSUME n + k + 1 <= Len(plan) PROVE Run(n + k + 1).failed
      OBVIOUS
    <3>1. n + k \in Nat /\ n + k <= Len(plan)
      BY <1>0
    <3>2. Run(n + k).failed
      BY <2>2, <3>1
    <3> QED BY <1>1, <3>1, <3>2
  <2> HIDE DEF bad
  <2>3. \A k \in Nat : k \in bad
    BY <2>1, <2>2, PlanFold!Induction
  <2>4. Len(plan) - n \in Nat /\ n + (Len(plan) - n) = Len(plan)
    BY <1>0
  <2>5. Run(Len(plan)).failed
    BY <1>0, <2>3, <2>4 DEF bad
  <2> QED BY <1>2, <2>5
<1>4. ASSUME NEW n \in 1..Len(plan)
      PROVE  Run(n) = ExecuteInContext(Run(n - 1), plan[n])
  <2>1. n - 1 \in Nat /\ n - 1 + 1 = n /\ n - 1 \in 0..Len(plan)
    BY <1>0
  <2>2. ~Run(n - 1).failed
    BY <1>3, <2>1
  <2>3. Run(n - 1 + 1) = ExecuteInContext(Run(n - 1), plan[n - 1 + 1])
    BY <1>0, <1>1, <2>1, <2>2
  <2> QED BY <2>1, <2>3
<1> QED BY <1>3, <1>4 DEF Run

\* A statement that is not logged changes nothing a recovery would miss.
LEMMA UnloggedStep ==
    ASSUME NEW c, RunOk(c), NEW stmt, IsClient(stmt), ~IsMutating(stmt),
           ~ExecuteInContext(c, stmt).failed
    PROVE  Alike(c, ExecuteInContext(c, stmt))
<1> DEFINE st == c.store
<1>1. /\ c = [store |-> st, ctx |-> c.ctx, failed |-> c.failed]
      /\ MemoriesOk(st) /\ c.ctx \in {Root} \cup DOMAIN st.memories
  BY DEF RunOk
<1>2. /\ stmt.op \in TemporalReads \cup {"select", "match"}
      /\ stmt.op \notin {"memory", "reset"}
  BY DEF IsMutating, IsClient, TemporalReads
<1>3. \A b : Execute(b, stmt) = b
  BY <1>2 DEF Execute, TemporalReads
<1>4. CASE Fails(Target(c), stmt)
  <2>1. ExecuteInContext(c, stmt) = [c EXCEPT !.failed = TRUE]
    BY <1>2, <1>4 DEF ExecuteInContext
  <2> QED BY <1>1, <2>1
<1>5. CASE ~Fails(Target(c), stmt) /\ c.ctx = Root
  <2>1. ExecuteInContext(c, stmt) = [c EXCEPT !.store = Execute(@, stmt)]
    BY <1>2, <1>5 DEF ExecuteInContext
  <2>2. ExecuteInContext(c, stmt) = c
    BY <1>1, <1>3, <2>1
  <2> QED BY <2>2 DEF Alike, Twins
<1>6. CASE ~Fails(Target(c), stmt) /\ c.ctx # Root
  <2>1. ExecuteInContext(c, stmt) = [c EXCEPT !.store.memories[c.ctx] = Execute(@, stmt)]
    BY <1>2, <1>6 DEF ExecuteInContext
  <2>2. [st EXCEPT !.memories[c.ctx] = Execute(@, stmt)] = st
    BY <1>1, <1>3, <1>6 DEF MemoriesOk, IsStore, IsMap, Parts
  <2>3. ExecuteInContext(c, stmt) = c
    BY <1>1, <2>1, <2>2
  <2> QED BY <2>3 DEF Alike, Twins
<1> QED BY <1>4, <1>5, <1>6

\* Nor does a row of them.
LEMMA SkipUnlogged ==
    ASSUME NEW st, MemoriesOk(st), NEW plan, IsPlan(plan), ~ExecutePlan(st, plan).failed,
           NEW a \in 0..Len(plan), NEW b \in 0..Len(plan), a <= b,
           \A j \in (a + 1)..b : ~IsMutating(plan[j])
    PROVE  Alike(ExecutePlan(st, SubSeq(plan, 1, a)), ExecutePlan(st, SubSeq(plan, 1, b)))
<1> DEFINE Run(n) == ExecutePlan(st, SubSeq(plan, 1, n))
           good == {k \in Nat : a + k <= b => Alike(Run(a), Run(a + k))}
<1>0. Len(plan) \in Nat /\ a \in Nat /\ b \in Nat
  BY SeqFacts DEF IsPlan
<1>1. 0 \in good
  BY <1>0 DEF Alike, Twins
<1>2. ASSUME NEW k \in Nat, k \in good PROVE k + 1 \in good
  <2> SUFFICES ASSUME a + k + 1 <= b PROVE Alike(Run(a), Run(a + k + 1))
    OBVIOUS
  <2> DEFINE n == a + k
  <2>1. n <= b /\ n \in 0..Len(plan) /\ n + 1 \in 1..Len(plan) /\ n + 1 \in (a + 1)..b /\ n + 1 - 1 = n
    BY <1>0
  <2>2. Alike(Run(a), Run(n))
    BY <1>2, <2>1
  <2>3. ~Run(n + 1).failed /\ Run(n + 1) = ExecuteInContext(Run(n), plan[n + 1])
    <3>1. n + 1 \in 0..Len(plan)
      BY <1>0, <2>1
    <3>2. Run(n + 1) = ExecuteInContext(Run(n + 1 - 1), plan[n + 1])
      BY <2>1, PrefixesSucceed
    <3> QED BY <2>1, <3>1, <3>2, PrefixesSucceed
  <2>4. RunOk(Run(n)) /\ IsClient(plan[n + 1]) /\ ~IsMutating(plan[n + 1])
    BY <2>1, PlanOk DEF IsPlan
  <2> HIDE DEF Run
  <2>5. Alike(Run(n), Run(n + 1))
    BY <2>3, <2>4, UnloggedStep
  <2> QED BY <2>2, <2>5 DEF Alike, Twins
<1> HIDE DEF good
<1>3. \A k \in Nat : k \in good
  BY <1>1, <1>2, PlanFold!Induction
<1>4. b - a \in Nat /\ a + (b - a) = b
  BY <1>0
<1>5. b - a \in good
  BY <1>3, <1>4
<1> HIDE DEF Run
<1>6. Alike(Run(a), Run(b))
  BY <1>0, <1>4, <1>5 DEF good
<1> QED BY <1>6 DEF Run

\* The statement a frame at position i holds.
StatementAt(plan, i) == IF i <= Len(plan) THEN plan[i] ELSE ResetStmt

\* A plan that began with store st, after the statement at position n.
Ran(st, plan, n) ==
    IF n <= Len(plan) THEN ExecutePlan(st, SubSeq(plan, 1, n))
    ELSE [ExecutePlan(st, plan) EXCEPT !.ctx = Root]

\* What is assumed of plans, and where their frames are.
LEMMA PlanFacts ==
    ASSUME NEW plan \in Plans
    PROVE  /\ IsPlan(plan) /\ Len(plan) \in Nat
           /\ Logged(plan) = {i \in 1..Len(plan) : IsMutating(plan[i])}
           /\ Positions(plan) = IF Logged(plan) = {} THEN {} ELSE Logged(plan) \cup {Len(plan) + 1}
           /\ Positions(plan) \subseteq 1..(Len(plan) + 1)
<1>1. IsSeq(plan)
  BY PlansAreSequences DEF IsSeq
<1>2. DOMAIN plan = 1..Len(plan) /\ Len(plan) \in Nat
  BY <1>1, SeqFacts
<1>3. IsPlan(plan)
  BY <1>1, <1>2, PlansAreParsed DEF IsPlan, IsClient
<1>4. Logged(plan) = {i \in 1..Len(plan) : IsMutating(plan[i])}
  BY <1>2 DEF Logged
<1> QED BY <1>2, <1>3, <1>4 DEF Positions

\* A run that does not fail is alike to its replay.
LEMMA ReplayedAlike ==
    ASSUME NEW c, RunOk(c), NEW d, RunOk(d), ~c.failed, ~d.failed, Alike(c, d),
           NEW stmt, IsFrameStmt(stmt), stmt.op \notin TemporalReads
    PROVE  Alike(Replayed(c, stmt), ExecuteInContext(d, stmt))
<1> DEFINE c2 == ExecuteInContext(c, stmt)
<1>1. RunOk(c2)
  BY RunStep DEF IsFrameStmt
<1>2. Alike(c2, ExecuteInContext(d, stmt))
  BY AlikeStep DEF IsFrameStmt
<1>3. Replayed(c, stmt) = [c2 EXCEPT !.failed = FALSE]
  BY DEF Replayed
<1> HIDE DEF c2
<1>4. Replayed(c, stmt).ctx = c2.ctx /\ Replayed(c, stmt).store = c2.store
  BY <1>1, <1>3 DEF RunOk
<1> QED BY <1>2, <1>4 DEF Alike

\* A reset goes back to the root, and never fails.
LEMMA ReplayedReset ==
    ASSUME NEW c, RunOk(c)
    PROVE  Replayed(c, ResetStmt) = [store |-> c.store, ctx |-> Root, failed |-> FALSE]
<1>1. c = [store |-> c.store, ctx |-> c.ctx, failed |-> c.failed]
  BY DEF RunOk
<1>2. ResetStmt.op = "reset"
  BY DEF ResetStmt
<1>3. ExecuteInContext(c, ResetStmt) = [c EXCEPT !.ctx = Root]
  BY ONLY <1>2 DEF ExecuteInContext
<1>4. PICK st, ctx, failed : c = [store |-> st, ctx |-> ctx, failed |-> failed]
  BY <1>1
<1>5. PICK c2 : c2 = ExecuteInContext(c, ResetStmt)
  OBVIOUS
<1>6. c.store = st /\ c2 = [store |-> st, ctx |-> Root, failed |-> failed]
  BY ONLY <1>3, <1>4, <1>5
<1>7. Replayed(c, ResetStmt) = [c2 EXCEPT !.failed = FALSE]
  BY <1>5 DEF Replayed
<1> QED BY ONLY <1>6, <1>7

\* The next frame of a plan takes a recovery as far as it took the plan.
LEMMA NextFrame ==
    ASSUME NEW st, MemoriesOk(st), NEW plan \in Plans, ~ExecutePlan(st, plan).failed,
           NEW a \in {0} \cup Positions(plan), NEW i \in Positions(plan), i > a,
           \A j \in Positions(plan) : j > a => i <= j,
           NEW c, RunOk(c), ~c.failed, Alike(c, Ran(st, plan, a))
    PROVE  Alike(Replayed(c, StatementAt(plan, i)), Ran(st, plan, i))
<1> DEFINE n == Len(plan)
           Run(k) == ExecutePlan(st, SubSeq(plan, 1, k))
<1>1. /\ IsPlan(plan) /\ IsSeq(plan) /\ n \in Nat
      /\ Logged(plan) = {k \in 1..n : IsMutating(plan[k])}
      /\ Positions(plan) = Logged(plan) \cup {n + 1}
      /\ i \in 1..(n + 1) /\ a \in 0..n
  BY PlanFacts DEF IsPlan
<1>2. Ran(st, plan, a) = Run(a)
  BY <1>1 DEF Ran
<1> HIDE DEF n, Run
<1>3. ASSUME NEW b \in 0..n, a <= b, b < i
      PROVE  Alike(c, Run(b)) /\ RunOk(Run(b)) /\ ~Run(b).failed
  <2>1. \A j \in (a + 1)..b : ~IsMutating(plan[j])
    <3> SUFFICES ASSUME NEW j \in (a + 1)..b, IsMutating(plan[j]) PROVE FALSE
      OBVIOUS
    <3>1. j \in 1..n /\ j > a /\ j < i
      BY <1>1, <1>3
    <3>2. j \in Positions(plan)
      BY <1>1, <3>1
    <3> QED BY <1>1, <3>1, <3>2
  <2>2. Alike(Run(a), Run(b))
    BY <1>1, <1>3, <2>1, SkipUnlogged DEF Run, n
  <2>3. Alike(c, Run(b))
    BY <1>2, <2>2 DEF Alike, Twins
  <2> QED BY <1>1, <1>3, <2>3, PlanOk, PrefixesSucceed DEF Run, n
<1>4. CASE i \in 1..n
  <2>1. i - 1 \in 0..n /\ a <= i - 1 /\ i - 1 < i /\ IsMutating(plan[i]) /\ StatementAt(plan, i) = plan[i]
    BY <1>1, <1>4 DEF StatementAt, n
  <2>2. Alike(c, Run(i - 1)) /\ RunOk(Run(i - 1)) /\ ~Run(i - 1).failed
    BY <1>3, <2>1
  <2>3. Run(i) = ExecuteInContext(Run(i - 1), plan[i])
    BY <1>1, <1>4, PrefixesSucceed DEF Run, n
  <2>4. IsFrameStmt(plan[i]) /\ plan[i].op \notin TemporalReads
    BY <1>1, <1>4, <2>1 DEF IsPlan, IsFrameStmt, IsMutating, n
  <2>5. Alike(Replayed(c, plan[i]), Run(i))
    BY <2>2, <2>3, <2>4, ReplayedAlike
  <2>6. Ran(st, plan, i) = Run(i)
    BY <1>1, <1>4 DEF Ran, Run, n
  <2> QED BY <2>1, <2>5, <2>6
<1>5. CASE i = n + 1
  <2>1. n \in 0..n /\ a <= n /\ n < i /\ StatementAt(plan, i) = ResetStmt
    BY <1>1, <1>5 DEF StatementAt, n
  <2>2. Alike(c, Run(n))
    BY <1>3, <2>1
  <2>3. Run(n) = ExecutePlan(st, plan)
    BY <1>1, PrefixFacts DEF Run, n
  <2>4. Ran(st, plan, i) = [Run(n) EXCEPT !.ctx = Root] /\ RunOk(Run(n))
    BY <1>1, <1>3, <1>5, <2>1, <2>3 DEF Ran, n
  <2>5. Replayed(c, ResetStmt) = [store |-> c.store, ctx |-> Root, failed |-> FALSE]
    BY ReplayedReset
  <2>6. Ran(st, plan, i).ctx = Root /\ Ran(st, plan, i).store = Run(n).store
    BY <2>4 DEF RunOk
  <2> QED BY <2>1, <2>2, <2>5, <2>6 DEF Alike
<1> QED BY <1>1, <1>4, <1>5

\* With its last frame, or if it has none, all of the plan is recovered.
LEMMA LastFrame ==
    ASSUME NEW st, MemoriesOk(st), NEW plan \in Plans, ~ExecutePlan(st, plan).failed,
           NEW a \in {0} \cup Positions(plan), \A i \in Positions(plan) : i <= a,
           NEW c, Alike(c, Ran(st, plan, a))
    PROVE  c.ctx = Root /\ Twins(c.store, ExecutePlan(st, plan).store)
<1> DEFINE n == Len(plan)
           Run(k) == ExecutePlan(st, SubSeq(plan, 1, k))
<1>1. /\ IsPlan(plan) /\ IsSeq(plan) /\ n \in Nat
      /\ Logged(plan) = {k \in 1..n : IsMutating(plan[k])}
      /\ Positions(plan) = IF Logged(plan) = {} THEN {} ELSE Logged(plan) \cup {n + 1}
      /\ Positions(plan) \subseteq 1..(n + 1)
  BY PlanFacts DEF IsPlan
<1>2. Run(n) = ExecutePlan(st, plan) /\ RunOk(Run(n)) /\ Run(0) = AtRoot(st)
  <2>1. n \in 0..n
    BY <1>1
  <2> QED BY <1>1, <2>1, PrefixFacts, PlanOk, PlanEquations
<1>3. CASE a = 0
  <2>1. Positions(plan) = {}
    BY <1>1, <1>3
  <2>2. \A j \in 1..n : ~IsMutating(plan[j])
    BY <1>1, <2>1
  <2>3. Alike(Run(0), Run(n))
    <3>1. 0 \in 0..n /\ n \in 0..n /\ 0 <= n /\ \A j \in (0 + 1)..n : ~IsMutating(plan[j])
      BY <1>1, <2>2
    <3> QED BY <1>1, <3>1, SkipUnlogged
  <2>4. Ran(st, plan, a) = Run(0)
    BY <1>1, <1>3 DEF Ran
  <2>5. Run(0).ctx = Root
    BY <1>2, RootOk
  <2> HIDE DEF Run
  <2> QED BY <1>2, <2>3, <2>4, <2>5 DEF Alike, Twins
<1>4. CASE a \in Positions(plan)
  <2>1. a = n + 1
    BY <1>1, <1>4
  <2>2. Ran(st, plan, a) = [Run(n) EXCEPT !.ctx = Root]
    BY <1>1, <1>2, <2>1 DEF Ran
  <2> HIDE DEF Run
  <2>3. Ran(st, plan, a).ctx = Root /\ Ran(st, plan, a).store = Run(n).store
    BY <1>2, <2>2 DEF RunOk
  <2> QED BY <1>2, <2>3 DEF Alike
<1> QED BY <1>3, <1>4

(***************************************************************************)
(* The invariant.                                                          *)
(***************************************************************************)

Intact(n) == \A j \in 1..n : ~wal[j].torn

\* Where a recovery that meets a torn frame, or none, stops.
Recoverable(n) == Intact(n) /\ (n = Len(wal) \/ wal[n + 1].torn)

\* A frame, torn or not, tells which statement it holds.
FrameTells(i) ==
    LET tag == wal[i].tag IN
    /\ tag.plan \in 1..Len(issued)
    /\ tag.i \in Positions(issued[tag.plan])
    /\ wal[i].stmt = StatementAt(issued[tag.plan], tag.i)

\* The next load finds what it must.
Foretold ==
    expected # Unknown =>
        \A n \in 0..Len(wal) :
            Recoverable(n) => SnapshotOf(Recover(main, SubSeq(wal, 1, n)).store) = expected

\* A replay is a recovery from the frames it has passed.
ReplayOk(h) ==
    pc[h] = "replay" => Intact(pos[h]) /\ mem[h] = Recover(main, SubSeq(wal, 1, pos[h]))

\* A memory with nothing but logged effects is over an intact log.
InsideOk(h) ==
    pc[h] \in Inside => MemoriesOk(mem[h].store) /\ (~dirty => Intact(Len(wal)))

AtRest(store) == LET c == Recover(main, wal) IN c.ctx = Root /\ Twins(c.store, store)

\* Between plans, a recovery would find what is in memory.
Settled(h) ==
    pc[h] \in {"idle", "write", "sync", "rename"} /\ ~dirty /\ WholePlansInWal =>
        AtRest(mem[h].store)

OthersWhole(n) == \A tag \in TagsInWal : tag.plan # n => PlanTags(tag.plan) \subseteq TagsInWal

\* A plan that began with store st ends with the store given, and a recovery
\* would have got as far as the log has.
Following(st, plan, n, store) ==
    /\ MemoriesOk(st) /\ ~ExecutePlan(st, plan).failed
    /\ Twins(ExecutePlan(st, plan).store, store)
    /\ Alike(Recover(main, wal), Ran(st, plan, n))

Logging(h) ==
    pc[h] = "log" =>
        /\ at[h] \in {0} \cup Positions(issued[cur[h]])
        /\ ~dirty /\ OthersWhole(cur[h]) =>
              \E st : Following(st, issued[cur[h]], at[h], mem[h].store)

\* What a checkpoint writes is what a load would find.
Imaged(h) ==
    /\ pc[h] = "rename" => LoadedStore(tmp) = SnapshotOf(mem[h].store)
    /\ pc[h] = "truncate" => LoadedStore(main) = SnapshotOf(mem[h].store)

Expecting(h) ==
    /\ pc[h] = "idle" /\ expected # Unknown => SnapshotOf(mem[h].store) = expected
    /\ pc[h] \in Inside \ {"idle"} => expected = Unknown

HandleOk(h) ==
    ReplayOk(h) /\ InsideOk(h) /\ Settled(h) /\ Logging(h) /\ Imaged(h) /\ Expecting(h)

\* Why recovery restores: the invariant behind ReopenRestores.
RestoreInv ==
    /\ mem = [h \in Handles |-> mem[h]]
    /\ MemoriesOk(LoadedStore(main))
    /\ \A i \in DOMAIN wal : FrameTells(i)
    /\ Foretold
    /\ \A h \in Handles : HandleOk(h)

\* The log, up to any frame, can be replayed.
LEMMA WalFrames ==
    ASSUME TypeOK
    PROVE  /\ IsFrames(wal) /\ Len(wal) \in Nat /\ DOMAIN wal = 1..Len(wal)
           /\ \A n \in 0..Len(wal) : IsFrames(SubSeq(wal, 1, n))
<1>1. wal \in Seq(Frames)
  BY DEF TypeOK, DiskTyped
<1>2. ASSUME NEW q \in Seq(Frames) PROVE IsSeq(q)
  BY ONLY <1>2 DEF IsSeq, Range
<1>3. ASSUME NEW f \in Frames PROVE IsFrameStmt(f.stmt)
  <2>1. f.stmt \in LoggedStmts
    BY DEF Frames
  <2>2. ASSUME NEW plan \in Plans, NEW i \in Logged(plan) PROVE IsClient(plan[i])
    BY PlanFacts DEF IsPlan
  <2> QED BY <2>1, <2>2 DEF LoggedStmts, IsFrameStmt
<1>4. ASSUME NEW q \in Seq(Frames) PROVE IsFrames(q)
  <2>1. \A i \in 1..Len(q) : q[i] \in Frames
    BY <1>4
  <2> QED BY <1>2, <1>3, <1>4, <2>1 DEF IsFrames
<1>5. \A n \in 0..Len(wal) : SubSeq(wal, 1, n) \in Seq(Frames)
  BY <1>1
<1>6. Len(wal) \in Nat /\ DOMAIN wal = 1..Len(wal)
  BY <1>1
<1>7. \A n \in 0..Len(wal) : IsFrames(SubSeq(wal, 1, n))
  BY <1>4, <1>5
<1> QED BY <1>1, <1>4, <1>6, <1>7

\* Recovery from the files is in order.
LEMMA WalRecovers ==
    ASSUME TypeOK, MemoriesOk(LoadedStore(main))
    PROVE  /\ RunOk(Recover(main, wal)) /\ ~Recover(main, wal).failed
           /\ Recover(main, <<>>) = AtRoot(LoadedStore(main))
           /\ \A n \in 0..Len(wal) : RunOk(Recover(main, SubSeq(wal, 1, n)))
           /\ \A n \in Nat : n + 1 <= Len(wal) =>
                 Recover(main, SubSeq(wal, 1, n + 1)) =
                    Replayed(Recover(main, SubSeq(wal, 1, n)), wal[n + 1].stmt)
<1>1. /\ IsFrames(wal) /\ IsSeq(wal) /\ Len(wal) \in Nat
      /\ \A n \in 0..Len(wal) : IsFrames(SubSeq(wal, 1, n)) /\ IsSeq(SubSeq(wal, 1, n))
  BY WalFrames DEF IsFrames
<1>2. ASSUME NEW n \in Nat, n + 1 <= Len(wal)
      PROVE  Recover(main, SubSeq(wal, 1, n + 1)) =
                Replayed(Recover(main, SubSeq(wal, 1, n)), wal[n + 1].stmt)
  <2>1. SubSeq(wal, 1, n + 1) = Append(SubSeq(wal, 1, n), wal[n + 1])
    BY <1>1, <1>2, PrefixFacts
  <2>2. n \in 0..Len(wal)
    BY <1>1, <1>2
  <2>3. PICK q, x : q = SubSeq(wal, 1, n) /\ x = wal[n + 1]
    OBVIOUS
  <2>4. Recover(main, Append(q, x)) = Replayed(Recover(main, q), x.stmt)
    BY <1>1, <2>2, <2>3, RecoverEquations
  <2> QED BY <2>1, <2>3, <2>4
<1> QED BY <1>1, <1>2, RecoverOk, RecoverEquations

(***************************************************************************)
(* Steps.                                                                  *)
(***************************************************************************)

\* Nothing is asked of a handle that is out of the store.
LEMMA ClosedOk == \A h \in Handles : pc[h] = "closed" => HandleOk(h)
BY DEF HandleOk, ReplayOk, InsideOk, Settled, Logging, Imaged, Expecting, Inside

\* A step of the lock holder has to be examined at that handle only.
LEMMA AtTheHolder ==
    ASSUME TypeOK, LockHeld, NEW h \in Handles, pc[h] # "closed",
           \A g \in Handles \ {h} : pc'[g] = pc[g],
           mem' = [g \in Handles |-> mem'[g]],
           MemoriesOk(LoadedStore(main')), \A i \in DOMAIN wal' : FrameTells(i)',
           Foretold', HandleOk(h)'
    PROVE  RestoreInv'
<1>1. ASSUME NEW g \in Handles, g # h PROVE HandleOk(g)'
  <2>1. pc'[g] = "closed"
    BY <1>1, Alone
  <2> QED BY <2>1 DEF HandleOk, ReplayOk, InsideOk, Settled, Logging, Imaged, Expecting, Inside
<1> QED BY <1>1 DEF RestoreInv

\* Frames keep telling what they hold, and a new one does if it is of an issued plan.
LEMMA StillTells ==
    ASSUME TypeOK, \A i \in DOMAIN wal : FrameTells(i),
           issued' = issued \/ \E plan \in Plans : issued' = Append(issued, plan),
           \A i \in DOMAIN wal' :
              \/ i \in DOMAIN wal /\ wal'[i] = wal[i]
              \/ \E n \in 1..Len(issued) : \E k \in Positions(issued[n]) :
                    wal'[i].tag = [plan |-> n, i |-> k] /\ wal'[i].stmt = StatementAt(issued[n], k)
    PROVE  \A i \in DOMAIN wal' : FrameTells(i)'
<1>1. /\ Len(issued) \in Nat /\ Len(issued') \in Nat /\ Len(issued') >= Len(issued)
      /\ \A n \in 1..Len(issued) : issued'[n] = issued[n]
  BY DEF TypeOK, PlanTyped
<1>2. \A n \in 1..Len(issued) : n \in 1..Len(issued') /\ issued'[n] = issued[n]
  BY <1>1
<1>3. ASSUME NEW i \in DOMAIN wal'
      PROVE  FrameTells(i)'
  <2>1. CASE i \in DOMAIN wal /\ wal'[i] = wal[i]
    <3>1. FrameTells(i)
      BY <2>1
    <3> QED BY <1>2, <2>1, <3>1 DEF FrameTells
  <2>2. CASE \E n \in 1..Len(issued) : \E k \in Positions(issued[n]) :
                wal'[i].tag = [plan |-> n, i |-> k] /\ wal'[i].stmt = StatementAt(issued[n], k)
    BY <1>2, <2>2 DEF FrameTells
  <2> QED BY <2>1, <2>2
<1> QED BY <1>3

\* The frame a handle writes tells what it holds.
LEMMA NewFrameTells ==
    ASSUME TypeOK, \A i \in DOMAIN wal : FrameTells(i), NEW h \in Handles, pc[h] = "log",
           NEW i \in Positions(issued[cur[h]]),
           wal' \in AfterFailedAppend(Frame(h, i)), issued' = issued
    PROVE  \A k \in DOMAIN wal' : FrameTells(k)'
<1>1. cur[h] \in 1..Len(issued) /\ wal \in Seq(Frames)
  BY DEF TypeOK, PlanTyped, DiskTyped
<1>2. PICK f : f = Frame(h, i)
  OBVIOUS
<1>3. /\ f \in Frames /\ TornFrame(f) \in Frames
      /\ f.tag = [plan |-> cur[h], i |-> i] /\ TornFrame(f).tag = f.tag
  BY <1>2, FrameTyped, TornFrameTyped
<1>4. f.stmt = StatementAt(issued[cur[h]], i) /\ TornFrame(f).stmt = f.stmt
  BY <1>2 DEF Frame, StatementAt, TornFrame
<1>5. ASSUME NEW g \in {f, TornFrame(f)}, wal' = Append(wal, g)
      PROVE  \A k \in DOMAIN wal' :
                (k \in DOMAIN wal /\ wal'[k] = wal[k]) \/ wal'[k] = g
  <2>1. g \in Frames
    BY <1>3
  <2> QED BY <1>1, <1>5, <2>1
<1>6. \A k \in DOMAIN wal' :
         \/ k \in DOMAIN wal /\ wal'[k] = wal[k]
         \/ wal'[k] = f \/ wal'[k] = TornFrame(f)
  BY <1>2, <1>5 DEF AfterFailedAppend
<1>7. \A k \in DOMAIN wal' :
         \/ k \in DOMAIN wal /\ wal'[k] = wal[k]
         \/ wal'[k].tag = [plan |-> cur[h], i |-> i] /\ wal'[k].stmt = StatementAt(issued[cur[h]], i)
  BY <1>3, <1>4, <1>6
<1> QED BY <1>1, <1>7, StillTells

\* Leaving the store, at any moment and with whatever that leaves in the log.
LEMMA LeaveRestores ==
    ASSUME TypeOK, LockHeld, RestoreInv, NEW h \in Handles, pc[h] # "closed", Leave(h),
           \A i \in DOMAIN wal' : FrameTells(i)',
           \/ wal' = wal /\ (expected' = Expect(h) \/ expected' = expected)
           \/ pc[h] = "log" /\ expected' = Expect(h)
    PROVE  RestoreInv'
<1>1. /\ pc'[h] = "closed" /\ \A g \in Handles \ {h} : pc'[g] = pc[g]
      /\ main' = main /\ mem' = [g \in Handles |-> mem'[g]]
  BY DEF Leave, TypeOK, ControlTyped, RestoreInv
<1>2. Foretold'
  <2> SUFFICES ASSUME expected' # Unknown, NEW n \in 0..Len(wal'), Recoverable(n)'
               PROVE  SnapshotOf(Recover(main, SubSeq(wal', 1, n)).store) = expected'
    BY <1>1 DEF Foretold
  <2>1. CASE expected' = expected
    <3>1. wal' = wal \/ expected' = Unknown
      BY DEF Expect
    <3> QED BY <2>1, <3>1 DEF RestoreInv, Foretold, Recoverable, Intact
  <2>2. CASE expected' # expected
    <3>1. /\ wal' = wal /\ pc[h] \in {"idle", "write", "sync", "rename"} /\ ~dirty /\ WholePlansInWal
          /\ expected' = SnapshotOf(mem[h].store)
      BY <2>2 DEF Expect
    <3>2. Intact(Len(wal)) /\ AtRest(mem[h].store)
      BY <3>1 DEF RestoreInv, HandleOk, InsideOk, Settled, Inside
    <3>3. n = Len(wal) /\ SubSeq(wal, 1, n) = wal
      <4>1. IsSeq(wal) /\ Len(wal) \in Nat
        BY WalFrames DEF IsFrames
      <4> QED BY <3>1, <3>2, <4>1, PrefixFacts DEF Recoverable, Intact
    <3> QED BY <3>1, <3>2, <3>3 DEF AtRest, Twins
  <2> QED BY <2>1, <2>2
<1>3. HandleOk(h)'
  BY <1>1 DEF HandleOk, ReplayOk, InsideOk, Settled, Logging, Imaged, Expecting, Inside
<1>4. MemoriesOk(LoadedStore(main'))
  BY <1>1 DEF RestoreInv
<1> QED BY <1>1, <1>2, <1>3, <1>4, AtTheHolder

\* After the last frame of a plan, a recovery would find what is in memory.
LEMMA PlanDone ==
    ASSUME TypeOK, RestoreInv, NEW h \in Handles, pc[h] = "log", LogComplete(h), ~dirty, WholePlansInWal
    PROVE  AtRest(mem[h].store)
<1>1. OthersWhole(cur[h])
  BY DEF WholePlansInWal, OthersWhole
<1>2. PICK st : Following(st, issued[cur[h]], at[h], mem[h].store)
  BY <1>1 DEF RestoreInv, HandleOk, Logging
<1>3. at[h] \in {0} \cup Positions(issued[cur[h]]) /\ issued[cur[h]] \in Plans
  BY DEF RestoreInv, HandleOk, Logging, TypeOK, PlanTyped
<1> DEFINE c == Recover(main, wal)
           plan == issued[cur[h]]
<1>4. /\ MemoriesOk(st) /\ ~ExecutePlan(st, plan).failed /\ Alike(c, Ran(st, plan, at[h]))
      /\ Twins(ExecutePlan(st, plan).store, mem[h].store)
      /\ \A i \in Positions(plan) : i <= at[h]
  BY <1>2 DEF Following, LogComplete
<1> HIDE DEF c, plan
<1>5. c.ctx = Root /\ Twins(c.store, ExecutePlan(st, plan).store)
  BY <1>3, <1>4, LastFrame DEF plan
<1> QED BY <1>4, <1>5 DEF AtRest, Twins, c

\* A recovery from a log in order, of whole plans, ends at the root.
LEMMA EndsAtRoot ==
    ASSUME NEW image, MemoriesOk(LoadedStore(image)), NEW q, IsFrames(q), Len(q) > 0,
           NEW last, last = q[Len(q)], NEW plan \in Plans,
           last.tag.i \in Positions(plan), last.stmt = StatementAt(plan, last.tag.i),
           \A i \in Positions(plan) : \E j \in 1..Len(q) : q[j].tag = [plan |-> last.tag.plan, i |-> i],
           \A j \in 1..(Len(q) - 1) : Before(q[j].tag, last.tag), last.tag.plan \in Nat
    PROVE  Recover(image, q).ctx = Root
<1>1. /\ Len(plan) \in Nat /\ Len(plan) + 1 \in Positions(plan)
      /\ last.tag.i \in 1..(Len(plan) + 1)
  BY PlanFacts
<1>2. PICK j \in 1..Len(q) : q[j].tag = [plan |-> last.tag.plan, i |-> Len(plan) + 1]
  BY <1>1
<1>3. PICK n \in Nat : n + 1 = Len(q)
  <2>1. IsSeq(q)
    BY DEF IsFrames
  <2>2. Len(q) \in Nat
    BY <2>1, SeqFacts
  <2>3. Len(q) - 1 \in Nat /\ (Len(q) - 1) + 1 = Len(q)
    BY <2>2
  <2> QED BY <2>3
<1>4. last.tag.i = Len(plan) + 1
  <2>1. CASE j = Len(q)
    BY <1>2, <2>1
  <2>2. CASE j # Len(q)
    <3>1. Before(q[j].tag, last.tag)
      BY <1>3, <2>2
    <3> QED BY <1>1, <1>2, <3>1 DEF Before
  <2> QED BY <2>1, <2>2
<1>5. last.stmt = ResetStmt
  BY <1>1, <1>4 DEF StatementAt
<1>6. PICK front : front = SubSeq(q, 1, n)
  OBVIOUS
<1>7. IsSeq(q) /\ q = Append(front, last) /\ n \in 0..Len(q)
  BY <1>3, <1>6, PrefixFacts DEF IsFrames
<1>8. IsSeq(front) /\ IsFrames(front)
  <2>1. IsSeq(front) /\ Len(front) = n
    BY <1>6, <1>7, PrefixFacts
  <2>2. \A i \in 1..n : front[i] = q[i]
    <3>1. \A i \in 1..Len(front) : Append(front, last)[i] = front[i]
      BY <2>1, AppendFacts
    <3> QED BY <1>7, <2>1, <3>1
  <2> QED BY <1>3, <2>1, <2>2 DEF IsFrames
<1>9. Recover(image, q) = Replayed(Recover(image, front), ResetStmt)
  BY <1>5, <1>7, <1>8, RecoverEquations
<1>10. RunOk(Recover(image, front))
  BY <1>8, RecoverOk
<1> HIDE DEF IsFrames
<1> QED BY <1>9, <1>10, ReplayedReset

\* A step that leaves alone what the invariant looks at.
LEMMA StillRestores ==
    ASSUME RestoreInv, UNCHANGED <<main, tmp, wal, pc, mem, pos, cur, at, issued, dirty, expected>>
    PROVE  RestoreInv'
<1>1. (\A i \in DOMAIN wal : FrameTells(i))' /\ Foretold' /\ MemoriesOk(LoadedStore(main'))
      /\ mem' = [h \in Handles |-> mem'[h]]
  BY DEF RestoreInv, FrameTells, Foretold, Recoverable, Intact
<1>2. WholePlansInWal' = WholePlansInWal /\ \A n : OthersWhole(n)' = OthersWhole(n)
  BY DEF WholePlansInWal, OthersWhole, TagsInWal, PlanTags
<1>3. ASSUME NEW h \in Handles PROVE HandleOk(h)'
  <2>0. HandleOk(h)
    BY DEF RestoreInv
  <2>1. ReplayOk(h)' /\ InsideOk(h)' /\ Imaged(h)' /\ Expecting(h)'
    BY <2>0 DEF HandleOk, ReplayOk, InsideOk, Imaged, Expecting, Intact
  <2>2. Settled(h)'
    BY <1>2, <2>0 DEF HandleOk, Settled, AtRest
  <2>3. Logging(h)'
    BY <1>2, <2>0 DEF HandleOk, Logging, Following
  <2> QED BY <2>1, <2>2, <2>3 DEF HandleOk
<1> QED BY <1>1, <1>3 DEF RestoreInv

\* A store that is being opened.
LEMMA OpenRestores ==
    ASSUME TypeOK, LockHeld, RestoreInv, NEW h \in Handles, Open(h)
    PROVE  RestoreInv'
<1>1. /\ \A g \in Handles : pc'[g] \in {"closed", "load"}
      /\ UNCHANGED <<main, wal, mem, issued, expected>>
  BY FreeIsNoHandle DEF Open, ghostVars, TypeOK, ControlTyped, LockHeld
<1>2. (\A i \in DOMAIN wal : FrameTells(i))' /\ Foretold' /\ MemoriesOk(LoadedStore(main'))
      /\ mem' = [g \in Handles |-> mem'[g]]
  BY <1>1 DEF RestoreInv, FrameTells, Foretold, Recoverable, Intact
<1>3. ASSUME NEW g \in Handles PROVE HandleOk(g)'
  BY <1>1 DEF HandleOk, ReplayOk, InsideOk, Settled, Logging, Imaged, Expecting, Inside
<1> QED BY <1>2, <1>3 DEF RestoreInv

\* Loading the main file, and replaying one frame more.
LEMMA ReplayRestores ==
    ASSUME TypeOK, LockHeld, RestoreInv, NEW h \in Handles, LoadMain(h) \/ ReplayFrame(h)
    PROVE  RestoreInv'
<1>1. /\ pc[h] # "closed" /\ pc'[h] = "replay" /\ \A g \in Handles \ {h} : pc'[g] = pc[g]
      /\ UNCHANGED <<main, wal, issued, expected>>
      /\ mem' = [g \in Handles |-> mem'[g]]
  BY DEF LoadMain, ReplayFrame, diskVars, TypeOK, ControlTyped, RestoreInv
<1>2. (\A i \in DOMAIN wal : FrameTells(i))' /\ Foretold' /\ MemoriesOk(LoadedStore(main'))
  BY <1>1 DEF RestoreInv, FrameTells, Foretold, Recoverable, Intact
<1>3. IsSeq(wal) /\ Len(wal) \in Nat /\ SubSeq(wal, 1, 0) = <<>>
  BY WalFrames, PrefixFacts DEF IsFrames
<1>4. Intact(pos'[h]) /\ mem'[h] = Recover(main, SubSeq(wal, 1, pos'[h]))
  <2>1. CASE LoadMain(h)
    <3>1. pos'[h] = 0 /\ mem'[h] = AtRoot(LoadedStore(main))
      BY <2>1 DEF LoadMain, TypeOK, ControlTyped, RestoreInv
    <3>2. Intact(0)
      BY DEF Intact
    <3>3. Recover(main, SubSeq(wal, 1, 0)) = AtRoot(LoadedStore(main))
      BY <1>3, RecoverEquations
    <3> QED BY <3>1, <3>2, <3>3
  <2>2. CASE ReplayFrame(h)
    <3> DEFINE n == pos[h]
    <3>1. /\ n \in Nat /\ n + 1 <= Len(wal) /\ ~wal[n + 1].torn /\ pos'[h] = n + 1
          /\ mem'[h] = Replayed(mem[h], wal[n + 1].stmt)
      BY <1>3, <2>2 DEF ReplayFrame, NextFrameIntact, TypeOK, ControlTyped, RestoreInv
    <3>2. Intact(n) /\ mem[h] = Recover(main, SubSeq(wal, 1, n))
      BY <2>2 DEF RestoreInv, HandleOk, ReplayOk, ReplayFrame
    <3> HIDE DEF n
    <3>3. Intact(n + 1)
      BY <3>1, <3>2 DEF Intact
    <3>4. Recover(main, SubSeq(wal, 1, n + 1)) = Replayed(mem[h], wal[n + 1].stmt)
      BY <3>1, <3>2, WalRecovers DEF RestoreInv
    <3> QED BY <3>1, <3>3, <3>4
  <2> QED BY <2>1, <2>2
<1>5. HandleOk(h)'
  BY <1>1, <1>4 DEF HandleOk, ReplayOk, InsideOk, Settled, Logging, Imaged, Expecting, Inside, Intact
<1> QED BY <1>1, <1>2, <1>5, AtTheHolder

\* The end of a replay: what is behind it in the log is cut.
LEMMA EndReplayRestores ==
    ASSUME TypeOK, LockHeld, LogOrdered, RestoreInv, NEW h \in Handles, EndReplay(h)
    PROVE  RestoreInv'
<1> DEFINE n == pos[h]
           q == SubSeq(wal, 1, n)
           c == Recover(main, q)
<1>1. /\ pc[h] = "replay" /\ pc'[h] = "idle" /\ \A g \in Handles \ {h} : pc'[g] = pc[g]
      /\ UNCHANGED <<main, mem, issued, expected, dirty>> /\ mem' = [g \in Handles |-> mem'[g]]
      /\ wal' = q
  BY DEF EndReplay, ghostVars, TypeOK, ControlTyped, RestoreInv
<1>2. /\ n \in 0..Len(wal) /\ Len(wal) \in Nat /\ n \in Nat /\ wal \in Seq(Frames)
      /\ IsSeq(wal) /\ IsFrames(q) /\ IsSeq(q) /\ Len(q) = n /\ SubSeq(q, 1, n) = q
      /\ DOMAIN q = 1..n /\ \A i \in 1..n : q[i] = wal[i] /\ i \in DOMAIN wal
  <2>1. n \in 0..Len(wal) /\ Len(wal) \in Nat
    BY <1>1, WalFrames DEF TypeOK, ControlTyped
  <2>2. wal \in Seq(Frames)
    BY DEF TypeOK, DiskTyped
  <2>3. IsSeq(wal) /\ IsFrames(q) /\ IsSeq(q)
    BY <2>1, WalFrames DEF IsFrames
  <2>4. Len(q) = n
    BY <2>1, <2>3, PrefixFacts
  <2>5. SubSeq(q, 1, n) = q
    BY <2>3, <2>4, PrefixFacts
  <2>6. DOMAIN q = 1..n /\ \A i \in 1..n : q[i] = wal[i] /\ i \in DOMAIN wal
    BY <2>1, <2>2
  <2> QED BY <2>1, <2>2, <2>3, <2>4, <2>5, <2>6
<1>3. /\ mem[h] = c /\ \A j \in 1..n : ~q[j].torn
      /\ n = Len(wal) \/ wal[n + 1].torn
  BY <1>1, <1>2 DEF RestoreInv, HandleOk, ReplayOk, Intact, EndReplay, NextFrameIntact
<1>4. \A i \in DOMAIN wal' : FrameTells(i)'
  BY <1>1, <1>2, StillTells DEF RestoreInv
<1>5. expected # Unknown => SnapshotOf(c.store) = expected
  <2>1. Recoverable(n)
    BY <1>2, <1>3 DEF Recoverable, Intact
  <2> QED BY <1>2, <2>1 DEF RestoreInv, Foretold
<1>6. MemoriesOk(c.store) /\ Twins(c.store, mem[h].store)
  BY <1>2, <1>3, WalRecovers DEF RestoreInv, RunOk, Twins
<1>7. ASSUME WholePlansInWal' PROVE c.ctx = Root
  <2>1. CASE n = 0
    <3>1. q = <<>>
      BY <1>2, <2>1, PrefixFacts
    <3>2. c = Recover(main, <<>>)
      BY <3>1
    <3>3. Recover(main, <<>>) = AtRoot(LoadedStore(main))
      BY RecoverEquations
    <3> HIDE DEF c
    <3> QED BY <3>2, <3>3 DEF AtRoot
  <2>2. CASE n # 0
    <3>1. n \in 1..n /\ n \in DOMAIN wal /\ q[n] = wal[n]
      BY <1>2, <2>2
    <3>2. PICK last, p, plan : last = q[n] /\ p = last.tag.plan /\ plan = issued[p]
      OBVIOUS
    <3>3. /\ p \in 1..Len(issued) /\ p \in Nat /\ last.tag.i \in Positions(plan)
          /\ last.stmt = StatementAt(plan, last.tag.i) /\ plan \in Plans
      BY <3>1, <3>2 DEF RestoreInv, FrameTells, TypeOK, PlanTyped
    <3>4. \A j \in 1..(n - 1) : Before(q[j].tag, last.tag)
      <4>1. \A j \in 1..(n - 1) : Before(wal[j].tag, wal[n].tag)
        BY <3>1 DEF LogOrdered, InPlace
      <4>2. \A j \in 1..(n - 1) : q[j] = wal[j]
        BY <1>2
      <4> HIDE DEF q
      <4> QED BY <3>1, <3>2, <4>1, <4>2
    <3>5. \A i \in Positions(plan) : \E j \in 1..n : q[j].tag = [plan |-> p, i |-> i]
      <4>1. TagsInWal' = {q[j].tag : j \in 1..n}
        BY <1>1, <1>2, <1>3 DEF TagsInWal
      <4>2. last.tag \in TagsInWal'
        BY <3>1, <3>2, <4>1
      <4>3. PlanTags(p)' \subseteq TagsInWal'
        BY <1>7, <3>2, <4>2 DEF WholePlansInWal
      <4>4. PlanTags(p)' = {[plan |-> p, i |-> i] : i \in Positions(plan)}
        BY <1>1, <3>2 DEF PlanTags
      <4> QED BY <4>1, <4>3, <4>4
    <3> HIDE DEF q
    <3>6. Len(q) > 0 /\ last = q[Len(q)] /\ IsFrames(q)
      BY <1>2, <2>2, <3>2
    <3>7. /\ \A i \in Positions(plan) : \E j \in 1..Len(q) : q[j].tag = [plan |-> last.tag.plan, i |-> i]
          /\ \A j \in 1..(Len(q) - 1) : Before(q[j].tag, last.tag)
          /\ last.tag.plan \in Nat /\ MemoriesOk(LoadedStore(main))
      BY <1>2, <3>2, <3>3, <3>4, <3>5 DEF RestoreInv
    <3>8. Recover(main, q).ctx = Root
      BY SMTT(30), <3>3, <3>6, <3>7, EndsAtRoot
    <3> QED BY <3>8
  <2> QED BY <2>1, <2>2
<1> HIDE DEF c, q
<1>8. Foretold'
  <2>1. ASSUME NEW k \in 0..n, Recoverable(k)' PROVE k = n
    BY <1>1, <1>2, <1>3, <2>1 DEF Recoverable, Intact
  <2> QED BY <1>1, <1>2, <1>5, <2>1 DEF Foretold, c
<1>9. Settled(h)' /\ InsideOk(h)' /\ Expecting(h)'
  <2>1. InsideOk(h)' /\ Expecting(h)'
    BY <1>1, <1>2, <1>3, <1>5, <1>6 DEF InsideOk, Expecting, Intact
  <2>2. Settled(h)'
    BY <1>1, <1>6, <1>7 DEF Settled, AtRest, c
  <2> QED BY <2>1, <2>2
<1>10. HandleOk(h)'
  BY <1>1, <1>9 DEF HandleOk, ReplayOk, Logging, Imaged
<1>11. MemoriesOk(LoadedStore(main'))
  BY <1>1 DEF RestoreInv
<1> QED BY <1>1, <1>4, <1>8, <1>10, <1>11, AtTheHolder

\* A plan runs on the store in memory, whatever history was claimed for it.
LEMMA RunsOk ==
    ASSUME NEW h \in Handles, MemoriesOk(mem[h].store), NEW plan \in Plans, NEW run \in Runs(h, plan)
    PROVE  /\ RunOk(run)
           /\ \E st : MemoriesOk(st) /\ Twins(st, mem[h].store) /\ run = ExecutePlan(st, plan)
<1>1. PICK history : run = ExecutePlan([mem[h].store EXCEPT !.history = history], plan)
  BY DEF Runs
<1>2. PICK store : store = mem[h].store
  OBVIOUS
<1>3. PICK st : st = [store EXCEPT !.history = history]
  OBVIOUS
<1>4. MemoriesOk(st) /\ Twins(st, store)
  <2>1. IsStore(store) /\ MemoriesOk(store)
    BY <1>2 DEF MemoriesOk
  <2>2. /\ IsStore(st) /\ st.memories = store.memories /\ st.records = store.records
        /\ st.edges = store.edges /\ st.vector_dims = store.vector_dims
        /\ st.clock = store.clock /\ st.tables = store.tables
    BY <1>3, <2>1 DEF IsStore, IsMap, Parts
  <2> QED BY <2>1, <2>2, TwinsAgree DEF MemoriesOk
<1>5. run = ExecutePlan(st, plan)
  BY <1>1, <1>2, <1>3
<1>6. RunOk(ExecutePlan(st, plan))
  <2>1. IsPlan(plan) /\ IsSeq(plan) /\ Len(plan) \in Nat
    BY PlanFacts DEF IsPlan
  <2>2. Len(plan) \in 0..Len(plan) /\ SubSeq(plan, 1, Len(plan)) = plan
    BY <2>1, PrefixFacts
  <2> QED BY <1>4, <2>1, <2>2, PlanOk
<1> QED BY <1>2, <1>4, <1>5, <1>6

\* Executing a plan: what the log has of it is nothing yet.
LEMMA RunRestores ==
    ASSUME TypeOK, LockHeld, RestoreInv, NEW h \in Handles, NEW plan \in Plans, RunPlan(h, plan)
    PROVE  RestoreInv'
<1>1. PICK run \in Runs(h, plan) : ~run.failed /\ mem' = [mem EXCEPT ![h] = run]
  BY DEF RunPlan
<1>n. PICK n : n = Len(issued) + 1
  OBVIOUS
<1>2. /\ pc[h] = "idle" /\ pc'[h] = "log" /\ \A g \in Handles \ {h} : pc'[g] = pc[g]
      /\ UNCHANGED <<main, wal, dirty>> /\ expected' = Unknown
      /\ cur'[h] = n /\ at'[h] = 0 /\ issued' = Append(issued, plan) /\ issued'[n] = plan
      /\ n \in Nat /\ Len(issued) \in Nat
      /\ \A k \in 1..Len(issued) : issued'[k] = issued[k] /\ k # n
      /\ mem' = [g \in Handles |-> mem'[g]] /\ mem'[h] = run
  <2>1. /\ pc[h] = "idle" /\ pc'[h] = "log" /\ \A g \in Handles \ {h} : pc'[g] = pc[g]
        /\ cur'[h] = n /\ at'[h] = 0
    BY <1>n DEF RunPlan, TypeOK, ControlTyped
  <2>2. UNCHANGED <<main, wal, dirty>> /\ expected' = Unknown /\ issued' = Append(issued, plan)
    BY DEF RunPlan, diskVars
  <2>3. issued \in Seq(Plans)
    BY DEF TypeOK, PlanTyped
  <2>4. /\ issued'[n] = plan /\ n \in Nat /\ Len(issued) \in Nat
        /\ \A k \in 1..Len(issued) : issued'[k] = issued[k] /\ k # n
    BY <1>n, <2>2, <2>3
  <2>5. mem' = [g \in Handles |-> mem'[g]] /\ mem'[h] = run
    BY <1>1 DEF RestoreInv
  <2> QED BY <2>1, <2>2, <2>4, <2>5
<1>3. MemoriesOk(mem[h].store) /\ (~dirty => Intact(Len(wal))) /\ Settled(h)
  BY <1>2 DEF RestoreInv, HandleOk, InsideOk, Inside
<1>4. PICK st : MemoriesOk(st) /\ Twins(st, mem[h].store) /\ run = ExecutePlan(st, plan)
  BY <1>3, RunsOk
<1>5. MemoriesOk(run.store)
  BY <1>3, RunsOk DEF RunOk
<1>6. \A i \in DOMAIN wal' : FrameTells(i)'
  BY <1>2, StillTells DEF RestoreInv
<1>7. ASSUME ~dirty, OthersWhole(n)'
      PROVE  Following(st, plan, 0, run.store)
  <2>1. WholePlansInWal
    <3> SUFFICES ASSUME NEW tag \in TagsInWal PROVE PlanTags(tag.plan) \subseteq TagsInWal
      BY DEF WholePlansInWal
    <3>1. PICK p : p = tag.plan
      OBVIOUS
    <3>2. p \in 1..Len(issued)
      BY <3>1 DEF TagsInWal, RestoreInv, FrameTells
    <3>3. TagsInWal' = TagsInWal /\ PlanTags(p)' = PlanTags(p)
      BY <1>2, <3>2 DEF TagsInWal, PlanTags
    <3> QED BY <1>2, <1>7, <3>1, <3>2, <3>3 DEF OthersWhole
  <2>2. AtRest(mem[h].store)
    BY <1>2, <1>3, <1>7, <2>1 DEF Settled
  <2>3. Ran(st, plan, 0) = AtRoot(st)
    <3>1. IsSeq(plan) /\ 0 <= Len(plan)
      BY PlanFacts DEF IsPlan
    <3>2. SubSeq(plan, 1, 0) = <<>>
      BY <3>1, PrefixFacts
    <3>3. ExecutePlan(st, <<>>) = AtRoot(st)
      BY PlanEquations
    <3> QED BY <3>1, <3>2, <3>3 DEF Ran
  <2>4. AtRoot(st).ctx = Root /\ AtRoot(st).store = st
    BY <1>4, RootOk
  <2>5. Alike(Recover(main, wal), AtRoot(st))
    BY <1>4, <2>2, <2>4 DEF AtRest, Alike, Twins
  <2> QED BY <1>1, <1>4, <2>3, <2>5 DEF Following, Twins
<1>8. Logging(h)'
  <2>1. at'[h] \in {0} \cup Positions(issued'[cur'[h]])
    BY <1>2
  <2>2. ASSUME ~dirty', OthersWhole(n)' PROVE Following(st, plan, 0, run.store)'
    <3>1. Following(st, plan, 0, run.store)
      BY <1>2, <1>7, <2>2
    <3> QED BY <1>2, <3>1 DEF Following
  <2> QED BY <1>2, <2>1, <2>2 DEF Logging
<1>9. InsideOk(h)' /\ Expecting(h)'
  BY <1>2, <1>3, <1>5 DEF InsideOk, Expecting, Intact
<1>10. HandleOk(h)' /\ Foretold' /\ MemoriesOk(LoadedStore(main'))
  BY <1>2, <1>8, <1>9 DEF HandleOk, ReplayOk, Settled, Imaged, Foretold, RestoreInv
<1> QED BY <1>2, <1>6, <1>10, AtTheHolder

\* A plan that fails changes the memory, and nothing else that can be found again.
LEMMA ExecuteFailsRestores ==
    ASSUME TypeOK, LockHeld, RestoreInv, NEW h \in Handles, NEW plan \in Plans, ExecuteFails(h, plan)
    PROVE  RestoreInv'
<1>1. PICK run \in Runs(h, plan) :
          /\ mem' = [mem EXCEPT ![h] = [run EXCEPT !.failed = FALSE]]
          /\ dirty' = (dirty \/ SnapshotOf(run.store) # SnapshotOf(mem[h].store))
  BY DEF ExecuteFails
<1>2. /\ pc[h] = "idle" /\ pc'[h] = "idle" /\ \A g \in Handles : pc'[g] = pc[g]
      /\ UNCHANGED <<main, wal, issued>> /\ expected' = Unknown
  BY DEF ExecuteFails, diskVars
<1>3. MemoriesOk(mem[h].store) /\ (~dirty => Intact(Len(wal))) /\ Settled(h)
  BY <1>2 DEF RestoreInv, HandleOk, InsideOk, Inside
<1>4. RunOk(run)
  BY <1>3, RunsOk
<1>5. mem' = [g \in Handles |-> mem'[g]] /\ mem'[h].store = run.store
  <2>1. [run EXCEPT !.failed = FALSE].store = run.store
    BY <1>4 DEF RunOk
  <2>2. mem' = [g \in Handles |-> mem'[g]] /\ mem'[h] = [run EXCEPT !.failed = FALSE]
    BY <1>1 DEF RestoreInv
  <2> QED BY <2>1, <2>2
<1>6. \A i \in DOMAIN wal' : FrameTells(i)'
  BY <1>2, StillTells DEF RestoreInv
<1>7. Settled(h)'
  <2> SUFFICES ASSUME ~dirty', WholePlansInWal' PROVE AtRest(mem[h].store)'
    BY DEF Settled
  <2>1. ~dirty /\ SnapshotOf(run.store) = SnapshotOf(mem[h].store)
    BY <1>1
  <2>2. WholePlansInWal
    BY <1>2 DEF WholePlansInWal, TagsInWal, PlanTags
  <2>3. AtRest(mem[h].store)
    BY <1>2, <1>3, <2>1, <2>2 DEF Settled
  <2> QED BY <1>2, <1>5, <2>1, <2>3 DEF AtRest, Twins
<1>8. InsideOk(h)' /\ Expecting(h)'
  BY <1>1, <1>2, <1>3, <1>4, <1>5 DEF InsideOk, Expecting, Intact, RunOk
<1>9. HandleOk(h)' /\ Foretold' /\ MemoriesOk(LoadedStore(main'))
  BY <1>2, <1>7, <1>8 DEF HandleOk, ReplayOk, Logging, Imaged, Foretold, RestoreInv
<1>10. pc[h] # "closed" /\ \A g \in Handles \ {h} : pc'[g] = pc[g]
  BY <1>2
<1> QED BY <1>5, <1>6, <1>9, <1>10, AtTheHolder

\* One frame more takes a recovery one statement further through the plan.
LEMMA LogRestores ==
    ASSUME TypeOK, LockHeld, RestoreInv, NEW h \in Handles, LogStatement(h)
    PROVE  RestoreInv'
<1>1. PICK i \in Positions(issued[cur[h]]) :
          NextPosition(h, i) /\ wal' = Append(wal, Frame(h, i)) /\ at' = [at EXCEPT ![h] = i]
  BY DEF LogStatement
<1>2. /\ pc[h] = "log" /\ pc' = pc
      /\ UNCHANGED <<main, mem, issued, cur, dirty, expected>>
      /\ at'[h] = i /\ mem' = [g \in Handles |-> mem'[g]]
  BY <1>1 DEF LogStatement, ghostVars, TypeOK, ControlTyped, RestoreInv
<1>p. PICK n, plan, f, old : n = cur[h] /\ plan = issued[n] /\ f = Frame(h, i) /\ old = at[h]
  OBVIOUS
<1>3. n \in 1..Len(issued) /\ plan \in Plans /\ f \in Frames /\ ~f.torn
      /\ f.tag = [plan |-> n, i |-> i] /\ f.stmt = StatementAt(plan, i)
  <2>1. n \in 1..Len(issued) /\ plan \in Plans
    BY <1>2, <1>p DEF TypeOK, PlanTyped
  <2>2. f.stmt = StatementAt(plan, i)
    BY <1>p DEF Frame, StatementAt
  <2> QED BY <1>2, <1>p, <2>1, <2>2, FrameTyped
<1>4. IsSeq(wal) /\ Len(wal) \in Nat /\ wal \in Seq(Frames) /\ DOMAIN wal = 1..Len(wal)
  BY WalFrames DEF IsFrames, TypeOK, DiskTyped
<1>5. /\ wal' = Append(wal, f) /\ Len(wal') = Len(wal) + 1 /\ wal'[Len(wal) + 1] = f
      /\ DOMAIN wal' = 1..(Len(wal) + 1) /\ \A j \in 1..Len(wal) : wal'[j] = wal[j]
  BY <1>1, <1>p, <1>3, <1>4
<1>6. \A k \in DOMAIN wal' : FrameTells(k)'
  BY <1>1, <1>2, NewFrameTells DEF AfterFailedAppend, RestoreInv
<1>7. MemoriesOk(mem[h].store) /\ (~dirty => Intact(Len(wal))) /\ Logging(h) /\ expected = Unknown
  BY <1>2 DEF RestoreInv, HandleOk, InsideOk, Inside, Expecting
<1>8. OthersWhole(n)' => OthersWhole(n)
  <2>1. \A tag \in TagsInWal : tag \in TagsInWal'
    BY <1>4, <1>5 DEF TagsInWal
  <2>2. \A tag \in TagsInWal' : tag \in TagsInWal \/ tag.plan = n
    BY <1>3, <1>4, <1>5 DEF TagsInWal
  <2>3. \A p : PlanTags(p)' = PlanTags(p) /\ \A tag \in PlanTags(p) : tag.plan = p
    BY <1>2 DEF PlanTags
  <2> QED BY <2>1, <2>2, <2>3 DEF OthersWhole
<1>9. ASSUME ~dirty, OthersWhole(n)
      PROVE  \E st : Following(st, plan, i, mem[h].store)'
  <2>1. PICK st : Following(st, plan, old, mem[h].store)
    BY <1>2, <1>7, <1>9, <1>p DEF Logging
  <2>2. PICK c : c = Recover(main, wal)
    OBVIOUS
  <2>3. /\ MemoriesOk(st) /\ ~ExecutePlan(st, plan).failed /\ Alike(c, Ran(st, plan, old))
        /\ Twins(ExecutePlan(st, plan).store, mem[h].store)
    BY <2>1, <2>2 DEF Following
  <2>4. RunOk(c) /\ ~c.failed
    BY <2>2, WalRecovers DEF RestoreInv
  <2>5. /\ old \in {0} \cup Positions(plan) /\ i \in Positions(plan) /\ i > old
        /\ \A j \in Positions(plan) : j > old => i <= j
    BY <1>1, <1>2, <1>7, <1>p DEF Logging, NextPosition
  <2>6. Alike(Replayed(c, StatementAt(plan, i)), Ran(st, plan, i))
    BY <1>3, <2>3, <2>4, <2>5, NextFrame
  <2>7. Recover(main', wal') = Replayed(c, StatementAt(plan, i))
    <3>1. Recover(main, Append(wal, f)) = Replayed(Recover(main, wal), f.stmt)
      BY <1>4, RecoverEquations
    <3> QED BY <1>2, <1>3, <1>5, <2>2, <3>1
  <2>8. Following(st, plan, i, mem[h].store)'
    BY <1>2, <2>3, <2>6, <2>7 DEF Following
  <2> QED BY <2>8
<1>10. Logging(h)'
  <2>1. at'[h] \in {0} \cup Positions(issued'[cur'[h]])
    BY <1>2
  <2>2. ASSUME ~dirty', OthersWhole(n)' PROVE \E st : Following(st, plan, i, mem[h].store)'
    BY <1>2, <1>8, <1>9, <2>2
  <2> QED BY <1>2, <1>p, <2>1, <2>2 DEF Logging
<1>11. InsideOk(h)' /\ Expecting(h)'
  <2>1. ~dirty' => Intact(Len(wal))'
    BY <1>2, <1>3, <1>4, <1>5, <1>7 DEF Intact
  <2> QED BY <1>2, <1>7, <2>1 DEF InsideOk, Expecting
<1>12. HandleOk(h)' /\ Foretold' /\ MemoriesOk(LoadedStore(main'))
  BY <1>2, <1>7, <1>10, <1>11 DEF HandleOk, ReplayOk, Settled, Imaged, Foretold, RestoreInv
<1>13. pc[h] # "closed" /\ \A g \in Handles \ {h} : pc'[g] = pc[g]
  BY <1>2
<1> QED BY <1>2, <1>6, <1>12, <1>13, AtTheHolder

\* Between plans and in a checkpoint, with the files as they were.
LEMMA SettledRestores ==
    ASSUME TypeOK, LockHeld, RestoreInv, NEW h \in Handles, pc[h] # "closed",
           \A g \in Handles \ {h} : pc'[g] = pc[g],
           pc'[h] \in {"idle", "write", "sync", "rename"},
           UNCHANGED <<main, wal, mem, issued>>, pc[h] \in Inside,
           dirty' \in BOOLEAN, ~dirty' => ~dirty,
           pc'[h] = "idle" => expected = Unknown, expected' \in {Unknown, expected},
           pc'[h] # "idle" => expected' = Unknown,
           pc'[h] = "rename" => LoadedStore(tmp') = SnapshotOf(mem[h].store),
           ~dirty' /\ WholePlansInWal => AtRest(mem[h].store)
    PROVE  RestoreInv'
<1>1. mem' = [g \in Handles |-> mem'[g]] /\ MemoriesOk(LoadedStore(main'))
  BY DEF RestoreInv
<1>2. MemoriesOk(mem[h].store) /\ (~dirty => Intact(Len(wal)))
  BY DEF RestoreInv, HandleOk, InsideOk
<1>3. \A i \in DOMAIN wal' : FrameTells(i)'
  BY StillTells DEF RestoreInv
<1>4. Foretold'
  BY DEF RestoreInv, Foretold, Recoverable, Intact
<1>5. Settled(h)'
  <2>1. WholePlansInWal' = WholePlansInWal
    BY DEF WholePlansInWal, TagsInWal, PlanTags
  <2> QED BY <2>1 DEF Settled, AtRest
<1>6. HandleOk(h)'
  BY <1>2, <1>5 DEF HandleOk, ReplayOk, InsideOk, Logging, Imaged, Expecting, Intact, Inside
<1> QED BY <1>1, <1>3, <1>4, <1>6, AtTheHolder

\* A plan returns, or its checkpoint begins.
LEMMA FinishRestores ==
    ASSUME TypeOK, LockHeld, RestoreInv, NEW h \in Handles, FinishPlan(h) \/ AutoCheckpoint(h)
    PROVE  RestoreInv'
<1>1. /\ pc[h] = "log" /\ LogComplete(h) /\ pc'[h] \in {"idle", "write"}
      /\ \A g \in Handles \ {h} : pc'[g] = pc[g]
      /\ UNCHANGED <<main, wal, mem, issued, dirty, expected>>
  BY DEF FinishPlan, AutoCheckpoint, BeginCheckpoint, ReturnOk, StopPlan, diskVars, TypeOK, ControlTyped
<1>2. ~dirty /\ WholePlansInWal => AtRest(mem[h].store)
  BY <1>1, PlanDone
<1>3. expected = Unknown
  BY <1>1 DEF RestoreInv, HandleOk, Expecting, Inside
<1>4. dirty \in BOOLEAN
  BY DEF TypeOK, GhostTyped
<1> QED BY <1>1, <1>2, <1>3, <1>4, SettledRestores DEF Inside

\* The steps of a checkpoint before the new file takes the old one's place.
LEMMA CheckpointRestores ==
    ASSUME TypeOK, LockHeld, RestoreInv, NEW h \in Handles, Flush(h) \/ WriteTmp(h) \/ SyncTmp(h)
    PROVE  RestoreInv'
<1>1. /\ pc[h] \in {"idle", "write", "sync"} /\ pc'[h] \in {"write", "sync", "rename"}
      /\ \A g \in Handles \ {h} : pc'[g] = pc[g]
      /\ UNCHANGED <<main, wal, mem, issued, dirty>>
  BY DEF Flush, WriteTmp, SyncTmp, BeginCheckpoint, diskVars, ghostVars, TypeOK, ControlTyped
<1>2. ~dirty /\ WholePlansInWal => AtRest(mem[h].store)
  BY <1>1 DEF RestoreInv, HandleOk, Settled
<1>3. expected' = Unknown
  BY <1>1 DEF Flush, WriteTmp, SyncTmp, ghostVars, RestoreInv, HandleOk, Expecting, Inside
<1>4. dirty \in BOOLEAN
  BY DEF TypeOK, GhostTyped
<1>5. ASSUME pc'[h] = "rename" PROVE LoadedStore(tmp') = SnapshotOf(mem[h].store)
  <2>1. tmp' = ImageOf(h)
    BY <1>1, <1>5 DEF Flush, WriteTmp, SyncTmp, BeginCheckpoint, TypeOK, ControlTyped
  <2>2. ImageOf(h).core = CoreFrame(mem[h].store)
    BY DEF ImageOf
  <2>3. MemoriesOk(mem[h].store)
    BY <1>1 DEF RestoreInv, HandleOk, InsideOk, Inside
  <2> QED BY <2>1, <2>2, <2>3, ImageRestores DEF LoadedStore
<1> QED BY <1>1, <1>2, <1>3, <1>4, <1>5, SettledRestores DEF Inside

\* The new file holds what is in memory; the log is not needed any more.
LEMMA RenameRestores ==
    ASSUME TypeOK, LockHeld, RestoreInv, NEW h \in Handles, Rename(h)
    PROVE  RestoreInv'
<1>1. /\ pc[h] = "rename" /\ pc'[h] = "truncate" /\ \A g \in Handles \ {h} : pc'[g] = pc[g]
      /\ UNCHANGED <<wal, mem, issued, dirty, expected>> /\ main' = tmp
      /\ mem' = [g \in Handles |-> mem'[g]]
  BY DEF Rename, ghostVars, TypeOK, ControlTyped, RestoreInv
<1>2. /\ LoadedStore(tmp) = SnapshotOf(mem[h].store) /\ expected = Unknown
      /\ MemoriesOk(mem[h].store) /\ (~dirty => Intact(Len(wal)))
  BY <1>1 DEF RestoreInv, HandleOk, Imaged, Expecting, InsideOk, Inside
<1>3. \A i \in DOMAIN wal' : FrameTells(i)'
  BY <1>1, StillTells DEF RestoreInv
<1>4. MemoriesOk(LoadedStore(main'))
  BY <1>1, <1>2, SnapshotOk
<1>5. HandleOk(h)' /\ Foretold'
  BY <1>1, <1>2 DEF HandleOk, ReplayOk, InsideOk, Settled, Logging, Imaged, Expecting, Foretold, Intact
<1> QED BY <1>1, <1>3, <1>4, <1>5, AtTheHolder

\* With the log cut, a load finds what the checkpoint wrote.
LEMMA TruncateRestores ==
    ASSUME TypeOK, LockHeld, RestoreInv, NEW h \in Handles, TruncateWal(h)
    PROVE  RestoreInv'
<1>1. /\ pc[h] = "truncate" /\ pc'[h] = "idle" /\ \A g \in Handles \ {h} : pc'[g] = pc[g]
      /\ UNCHANGED <<main, mem, issued, expected>> /\ wal' = <<>>
      /\ mem' = [g \in Handles |-> mem'[g]]
  BY DEF TruncateWal, ReturnOk, StopPlan, TypeOK, ControlTyped, RestoreInv
<1>2. /\ LoadedStore(main) = SnapshotOf(mem[h].store) /\ expected = Unknown /\ MemoriesOk(mem[h].store)
  BY <1>1 DEF RestoreInv, HandleOk, Imaged, Expecting, InsideOk, Inside
<1>3. (\A i \in DOMAIN wal' : FrameTells(i)') /\ Intact(Len(wal))'
  BY <1>1, Empties DEF Intact
<1>4. AtRest(mem[h].store)'
  <2>1. Recover(main, <<>>) = AtRoot(LoadedStore(main))
    BY RecoverEquations
  <2>2. AtRoot(LoadedStore(main)).ctx = Root /\ AtRoot(LoadedStore(main)).store = LoadedStore(main)
    BY DEF AtRoot
  <2>3. Twins(LoadedStore(main), mem[h].store)
    BY <1>2, SnapshotOk DEF Twins
  <2> QED BY <1>1, <2>1, <2>2, <2>3 DEF AtRest
<1>5. MemoriesOk(LoadedStore(main')) /\ Foretold'
  BY <1>1, <1>2 DEF RestoreInv, Foretold
<1>6. HandleOk(h)'
  BY <1>1, <1>2, <1>3, <1>4 DEF HandleOk, ReplayOk, InsideOk, Settled, Logging, Imaged, Expecting
<1> QED BY <1>1, <1>3, <1>5, <1>6, AtTheHolder

\* A call that fails ends the plan or the checkpoint; when the log was in doubt,
\* the memory counts as dirty.
LEMMA FailureRestores ==
    ASSUME TypeOK, LockHeld, RestoreInv, NEW h \in Handles, AppendFails(h) \/ CheckpointFails(h)
    PROVE  RestoreInv'
<1>1. /\ pc[h] \in Inside \ {"idle"} /\ pc'[h] = "idle" /\ \A g \in Handles \ {h} : pc'[g] = pc[g]
      /\ UNCHANGED <<main, mem, issued, expected>>
      /\ mem' = [g \in Handles |-> mem'[g]]
  BY DEF AppendFails, CheckpointFails, StopPlan, TypeOK, ControlTyped, RestoreInv, Inside
<1>2. /\ expected = Unknown /\ MemoriesOk(mem[h].store) /\ (~dirty => Intact(Len(wal)))
      /\ MemoriesOk(LoadedStore(main))
  BY <1>1 DEF RestoreInv, HandleOk, InsideOk, Expecting
<1>3. ASSUME dirty', \A i \in DOMAIN wal' : FrameTells(i)'
      PROVE  RestoreInv'
  <2>1. HandleOk(h)' /\ Foretold'
    BY <1>1, <1>2, <1>3
    DEF HandleOk, ReplayOk, InsideOk, Settled, Logging, Imaged, Expecting, Foretold
  <2>2. pc[h] # "closed"
    BY <1>1 DEF Inside
  <2> QED BY <1>1, <1>2, <1>3, <2>1, <2>2, AtTheHolder
<1>4. CASE AppendFails(h)
  <2>1. PICK j \in Positions(issued[cur[h]]) : wal' \in AfterFailedAppend(Frame(h, j))
    BY <1>4 DEF AppendFails, AfterFailedCall, AfterFailedAppend
  <2>2. \A i \in DOMAIN wal' : FrameTells(i)'
    BY <1>1, <1>4, <2>1, NewFrameTells DEF AppendFails, RestoreInv
  <2>3. dirty'
    BY <1>4 DEF AppendFails
  <2> QED BY <1>3, <2>2, <2>3
<1>5. CASE CheckpointFails(h) /\ pc[h] = "truncate"
  <2>1. wal' = wal \/ wal' = <<>>
    BY <1>5 DEF CheckpointFails
  <2>2. \A i \in DOMAIN wal' : FrameTells(i)'
    BY <1>1, <2>1, StillTells, Empties DEF RestoreInv
  <2>3. dirty'
    BY <1>5 DEF CheckpointFails
  <2> QED BY <1>3, <2>2, <2>3
<1>6. CASE CheckpointFails(h) /\ pc[h] # "truncate"
  <2>1. wal' = wal /\ dirty' = dirty /\ dirty \in BOOLEAN /\ pc[h] \in {"write", "sync", "rename"}
    BY <1>6 DEF CheckpointFails, TypeOK, GhostTyped
  <2>2. ~dirty /\ WholePlansInWal => AtRest(mem[h].store)
    BY <2>1 DEF RestoreInv, HandleOk, Settled
  <2>3. pc[h] # "closed" /\ pc[h] \in Inside
    BY <2>1 DEF Inside
  <2> QED BY <1>1, <1>2, <2>1, <2>2, <2>3, SettledRestores
<1> QED BY <1>4, <1>5, <1>6

\* Every step keeps it.
LEMMA NextRestores ==
    ASSUME TypeOK, LockHeld, LogOrdered, RestoreInv, [Next]_vars
    PROVE  RestoreInv'
<1>1. CASE UNCHANGED vars
  BY <1>1, StillRestores DEF vars, diskVars, handleVars, ghostVars
<1>2. ASSUME NEW h \in Handles, ClearStaleLock(h) \/ \E plan \in Plans : ClaimFails(h, plan)
      PROVE  RestoreInv'
  BY <1>2, StillRestores DEF ClearStaleLock, ClaimFails, diskVars, handleVars, ghostVars
<1>3. ASSUME NEW h \in Handles, Close(h) \/ Crash(h) \/ LoadFails(h)
      PROVE  RestoreInv'
  <2>1. pc[h] # "closed" /\ Leave(h) /\ issued' = issued
    BY <1>3 DEF Close, Crash, LoadFails, Leave
  <2>2. CASE wal' = wal
    <3>1. \A i \in DOMAIN wal' : FrameTells(i)'
      BY <2>1, <2>2, StillTells DEF RestoreInv
    <3>2. expected' = Expect(h) \/ expected' = expected
      BY <1>3 DEF Close, Crash, LoadFails
    <3> QED BY <2>1, <2>2, <3>1, <3>2, LeaveRestores
  <2>3. CASE wal' # wal
    <3>1. PICK i \in Positions(issued[cur[h]]) :
              wal' \in AfterFailedAppend(Frame(h, i)) /\ pc[h] = "log" /\ expected' = Expect(h)
      BY <1>3, <2>3 DEF Close, Crash, LoadFails
    <3>2. \A k \in DOMAIN wal' : FrameTells(k)'
      BY <2>1, <3>1, NewFrameTells DEF RestoreInv
    <3> QED BY <2>1, <3>1, <3>2, LeaveRestores
  <2> QED BY <2>2, <2>3
<1> QED
  BY <1>1, <1>2, <1>3, OpenRestores, ReplayRestores, EndReplayRestores, RunRestores,
     ExecuteFailsRestores, LogRestores, FinishRestores, CheckpointRestores, RenameRestores,
     TruncateRestores, FailureRestores DEF Next

\* At first there is an empty store to find.
LEMMA InitRestores == Init => RestoreInv
<1> SUFFICES ASSUME Init PROVE RestoreInv
  OBVIOUS
<1>1. MemoriesOk(EmptyStore) /\ SnapshotOf(EmptyStore) = EmptyStore
  <2>1. IsStore(EmptyStore) /\ EmptyStore.memories = <<>> /\ EmptyStore.history = <<>>
    BY DEF EmptyStore, IsStore, IsMap, Parts
  <2>2. DOMAIN <<>> = {} /\ IsMap(<<>>)
    BY DEF IsMap
  <2>3. SnapshotOf(EmptyStore) = EmptyStore
    BY DEF SnapshotOf, EmptyStore
  <2> QED BY <2>1, <2>2, <2>3 DEF MemoriesOk
<1>2. LoadedStore(main) = EmptyStore
  <2>1. main.core = EmptyStore
    BY DEF Init, NoImage
  <2>2. CoreFrame(EmptyStore) = EmptyStore
    <3>1. DOMAIN <<>> = {} /\ <<>> = [m \in {} |-> <<>>[m]]
      OBVIOUS
    <3>2. SkipTables(<<>>) = <<>>
      BY <3>1 DEF SkipTables
    <3>3. PICK st : st = EmptyStore
      OBVIOUS
    <3>4. [st EXCEPT !.history = <<>>, !.memories = <<>>] = st
      <4>1. IsStore(st) /\ st.history = <<>> /\ st.memories = <<>>
        BY <1>1, <3>3 DEF EmptyStore, MemoriesOk
      <4> QED BY ONLY <4>1 DEF IsStore, IsMap, Parts
    <3>5. st.memories = <<>>
      BY <3>3 DEF EmptyStore
    <3>6. CoreFrame(st) = [st EXCEPT !.history = <<>>, !.memories = <<>>]
      BY <3>2, <3>5 DEF CoreFrame
    <3> QED BY <3>3, <3>4, <3>6
  <2> QED BY <1>1, <2>1, <2>2, ImageRestores DEF LoadedStore
<1>3. Foretold
  <2>1. wal = <<>> /\ expected = EmptyStore /\ Len(wal) = 0
    BY Empties DEF Init
  <2>2. SubSeq(<<>>, 1, 0) = <<>>
    <3>1. IsSeq(<<>>)
      BY DEF IsSeq
    <3> QED BY <3>1, PrefixFacts
  <2>3. Recover(main, <<>>) = AtRoot(EmptyStore)
    BY <1>2, RecoverEquations
  <2>4. AtRoot(EmptyStore).store = EmptyStore
    BY DEF AtRoot
  <2>5. \A n \in 0..0 : n = 0
    OBVIOUS
  <2> QED BY <1>1, <2>1, <2>2, <2>3, <2>4, <2>5 DEF Foretold
<1>4. \A h \in Handles : HandleOk(h)
  BY ClosedOk DEF Init
<1>5. mem = [h \in Handles |-> mem[h]] /\ \A i \in DOMAIN wal : FrameTells(i)
  BY DEF Init
<1> QED BY <1>1, <1>2, <1>3, <1>4, <1>5 DEF RestoreInv

\* Whatever crashes, failed calls and interrupted recoveries came before, an open
\* store is the store that was left, wherever that is determined: records, edges,
\* dimensions, clock, table index, and every memory with its history and index.
THEOREM RecoveryRestores == Spec => []ReopenRestores
<1>1. Init => TypeOK /\ LockHeld /\ LogOrdered /\ RestoreInv
  <2>1. Init => LogOrdered
    BY DEF Init, LogOrdered, LoggedUpTo
  <2> QED BY <2>1, InitTyped, InitRestores
<1>2. TypeOK /\ LockHeld /\ LogOrdered /\ RestoreInv /\ [Next]_vars
         => (TypeOK /\ LockHeld /\ LogOrdered /\ RestoreInv)'
  BY NextTyped, NextLockHeld, NextLogOrdered, NextRestores
<1>3. RestoreInv => ReopenRestores
  BY DEF RestoreInv, HandleOk, Expecting, ReopenRestores
<1> QED BY <1>1, <1>2, <1>3, PTL DEF Spec

(***************************************************************************)
(* The history read late, and the history read at load.                    *)
(***************************************************************************)

\* The second store has the history of the first behind a tail.
Shifted(front, a, b) ==
    /\ IsStore(a) /\ IsStore(b) /\ Twins(a, b) /\ IsSeq(front) /\ IsSeq(a.history)
    /\ b.history = front \o a.history

\* Concatenating one element more.
LEMMA ConcatAppend ==
    ASSUME NEW p, IsSeq(p), NEW q, IsSeq(q), NEW x
    PROVE  p \o Append(q, x) = Append(p \o q, x)
<1> DEFINE S == Range(p) \cup Range(q) \cup {x}
<1>1. p \in Seq(S) /\ q \in Seq(S)
  BY DEF IsSeq
<1>2. x \in S
  OBVIOUS
<1> HIDE DEF S
<1> QED BY <1>1, <1>2

\* What a statement that is no compaction does to the history.
LEMMA HistoryGrows ==
    ASSUME NEW st, IsStore(st), NEW stmt, IsClient(stmt), stmt.op # "prune"
    PROVE  Execute(st, stmt).history =
              IF stmt.op \in Mutations THEN Append(st.history, [ts |-> st.clock + 1, stmt |-> stmt])
              ELSE st.history
<1>1. ASSUME NEW c, IsStore(c), c.clock = st.clock, c.history = st.history
      PROVE  LogMutation(c, stmt).history = Append(st.history, [ts |-> st.clock + 1, stmt |-> stmt])
  BY <1>1 DEF LogMutation, IsStore, IsMap, Parts
<1>2. CASE stmt.op = "create"
  <2>1. /\ IsStore(Declare(st, stmt)) /\ Declare(st, stmt).clock = st.clock
        /\ Declare(st, stmt).history = st.history
    BY DEF Declare, IsStore, IsMap, Parts
  <2> QED BY <1>1, <1>2, <2>1 DEF Execute, Mutations
<1>3. CASE stmt.op = "insert"
  <2>1. /\ IsStore(Upsert(st, stmt)) /\ Upsert(st, stmt).clock = st.clock
        /\ Upsert(st, stmt).history = st.history
    BY DEF Upsert, IsStore, IsMap, Parts
  <2> QED BY <1>1, <1>3, <2>1 DEF Execute, Mutations
<1>4. CASE stmt.op = "relate"
  <2>1. /\ IsStore(Link(st, stmt)) /\ Link(st, stmt).clock = st.clock
        /\ Link(st, stmt).history = st.history
    BY DEF Link, IsStore, IsMap, Parts
  <2> QED BY <1>1, <1>4, <2>1 DEF Execute, Mutations
<1>5. CASE stmt.op = "forget"
  <2>1. /\ IsStore(Erase(st, stmt)) /\ Erase(st, stmt).clock = st.clock
        /\ Erase(st, stmt).history = st.history
    BY DEF Erase, IsStore, IsMap, Parts
  <2> QED BY <1>1, <1>5, <2>1 DEF Execute, Mutations
<1>6. CASE stmt.op \notin Mutations
  BY <1>6 DEF Execute, IsClient, Mutations
<1> QED BY <1>2, <1>3, <1>4, <1>5, <1>6 DEF Mutations

\* The history of a store stays a sequence.
LEMMA HistoryStays ==
    ASSUME NEW st, IsStore(st), IsSeq(st.history), NEW stmt, IsClient(stmt)
    PROVE  IsSeq(Execute(st, stmt).history)
<1>1. CASE stmt.op # "prune"
  <2>1. PICK x : x = [ts |-> st.clock + 1, stmt |-> stmt]
    OBVIOUS
  <2>2. Execute(st, stmt).history \in {Append(st.history, x), st.history}
    BY <1>1, <2>1, HistoryGrows
  <2>3. IsSeq(Append(st.history, x))
    BY AppendFacts
  <2> QED BY <2>2, <2>3
<1>2. CASE stmt.op = "prune"
  <2>1. Execute(st, stmt) = PruneHistory(st)
    BY <1>2 DEF Execute
  <2> DEFINE st2 == [st EXCEPT !.memories = [m \in DOMAIN @ |-> PruneOne(@[m])]]
  <2>2. st2.history = st.history /\ IsStore(st2)
    BY DEF IsStore, IsMap, Parts
  <2>3. PruneHistory(st) = PruneOne(st2)
    BY DEF PruneHistory
  <2> HIDE DEF st2
  <2>4. PICK x : PruneOne(st2).history = Append(Declarations(st.history), x)
    BY <2>2 DEF PruneOne, Declarations, IsCreate, IsStore, IsMap, Parts
  <2>5. IsSeq(Declarations(st.history))
    BY DeclarationFacts
  <2> QED BY <2>1, <2>3, <2>4, <2>5, AppendFacts
<1> QED BY <1>1, <1>2

\* A statement that reads no history keeps the tail in front.
LEMMA ShiftExecute ==
    ASSUME NEW front, NEW a, NEW b, Shifted(front, a, b),
           NEW stmt, IsClient(stmt), ~NeedsHistory(stmt), IsStore(Execute(a, stmt)), IsStore(Execute(b, stmt))
    PROVE  Shifted(front, Execute(a, stmt), Execute(b, stmt))
<1>1. /\ IsStore(a) /\ IsStore(b) /\ Twins(a, b) /\ IsSeq(front) /\ IsSeq(a.history)
      /\ b.history = front \o a.history /\ stmt.op # "prune"
  BY DEF Shifted, NeedsHistory
<1>2. Twins(Execute(a, stmt), Execute(b, stmt)) /\ IsSeq(Execute(a, stmt).history)
  BY <1>1, TwinsExecute, HistoryStays
<1>3. Execute(b, stmt).history = front \o Execute(a, stmt).history
  <2>1. a.clock = b.clock
    BY <1>1, TwinsAgree
  <2>2. PICK x : x = [ts |-> a.clock + 1, stmt |-> stmt]
    OBVIOUS
  <2>3. /\ Execute(a, stmt).history = IF stmt.op \in Mutations THEN Append(a.history, x) ELSE a.history
        /\ Execute(b, stmt).history = IF stmt.op \in Mutations THEN Append(b.history, x) ELSE b.history
    BY <1>1, <2>1, <2>2, HistoryGrows
  <2>4. front \o Append(a.history, x) = Append(b.history, x)
    BY <1>1, ConcatAppend
  <2> QED BY <1>1, <2>3, <2>4
<1> QED BY <1>1, <1>2, <1>3 DEF Shifted

\* The same in the context of a plan; in a memory, the root's history stays.
LEMMA ShiftStep ==
    ASSUME NEW front, NEW c, RunOk(c), ~c.failed, NEW d, RunOk(d), ~d.failed, c.ctx = d.ctx,
           Shifted(front, c.store, d.store), NEW stmt, IsFrameStmt(stmt), ~NeedsHistory(stmt)
    PROVE  LET c2 == ExecuteInContext(c, stmt)
               d2 == ExecuteInContext(d, stmt)
           IN  Alike(c2, d2) /\ (c2.failed <=> d2.failed) /\ Shifted(front, c2.store, d2.store)
<1> DEFINE c2 == ExecuteInContext(c, stmt)
           d2 == ExecuteInContext(d, stmt)
           a == c.store
           b == d.store
           ctx == c.ctx
<1>0. Alike(c2, d2) /\ (c2.failed <=> d2.failed) /\ RunOk(c2) /\ RunOk(d2)
  BY AlikeStep, RunStep DEF Shifted, Alike, IsFrameStmt, NeedsHistory
<1>s. IsStore(c2.store) /\ IsStore(d2.store) /\ Twins(c2.store, d2.store)
  BY <1>0 DEF RunOk, MemoriesOk, Alike
<1> SUFFICES Shifted(front, c2.store, d2.store)
  BY <1>0
<1>1. /\ c = [store |-> a, ctx |-> ctx, failed |-> c.failed] /\ IsStore(a) /\ IsMap(a.memories)
      /\ ctx \in {Root} \cup DOMAIN a.memories
  BY DEF RunOk, MemoriesOk
<1>2. /\ d = [store |-> b, ctx |-> ctx, failed |-> d.failed] /\ IsStore(b)
      /\ IsSeq(front) /\ IsSeq(a.history) /\ b.history = front \o a.history
      /\ Twins(a, b) /\ a.memories = b.memories
  BY <1>1, TwinsAgree DEF RunOk, MemoriesOk, Shifted
<1>3. ASSUME c2.store.history = a.history, d2.store.history = b.history
      PROVE  Shifted(front, c2.store, d2.store)
  BY <1>2, <1>3, <1>s DEF Shifted
<1>4. CASE stmt.op = "memory"
  <2>1. PICK ms : /\ c2 = [store |-> [a EXCEPT !.memories = ms], ctx |-> stmt.name, failed |-> c.failed]
                  /\ d2 = [store |-> [b EXCEPT !.memories = ms], ctx |-> stmt.name, failed |-> d.failed]
    <3>1. PICK ms : ms = IF stmt.name \in DOMAIN a.memories THEN a.memories ELSE Put(a.memories, stmt.name, EmptyStore)
      OBVIOUS
    <3>2. c2 = [store |-> [a EXCEPT !.memories = ms], ctx |-> stmt.name, failed |-> c.failed]
      BY <1>1, <1>4, <3>1 DEF ExecuteInContext
    <3>3. d2 = [store |-> [b EXCEPT !.memories = ms], ctx |-> stmt.name, failed |-> d.failed]
      BY <1>2, <1>4, <3>1 DEF ExecuteInContext
    <3> QED BY <3>2, <3>3
  <2>2. c2.store.history = a.history /\ d2.store.history = b.history
    BY <1>1, <1>2, <2>1 DEF IsStore, IsMap, Parts
  <2> QED BY <1>3, <2>2
<1>5. CASE stmt.op = "reset"
  <2>1. c2.store = a /\ d2.store = b
    <3>1. c2 = [store |-> a, ctx |-> Root, failed |-> c.failed]
      BY <1>1, <1>5 DEF ExecuteInContext
    <3>2. d2 = [store |-> b, ctx |-> Root, failed |-> d.failed]
      BY <1>2, <1>5 DEF ExecuteInContext
    <3> QED BY <3>1, <3>2
  <2> QED BY <1>3, <2>1
<1>6. ASSUME stmt.op \notin {"memory", "reset"} PROVE Shifted(front, c2.store, d2.store)
  <2>0. IsClient(stmt)
    BY <1>6 DEF IsFrameStmt, ResetStmt
  <2>1. Fails(Target(c), stmt) <=> Fails(Target(d), stmt)
    <3>1. CASE ctx = Root
      BY <1>1, <1>2, <2>0, <3>1, TwinsExecute DEF Target, NeedsHistory
    <3>2. CASE ctx # Root
      <4>1. Target(c) = Target(d)
        BY <1>1, <1>2, <3>2 DEF Target
      <4> QED BY <4>1
    <3> QED BY <3>1, <3>2
  <2>2. CASE Fails(Target(c), stmt)
    <3>0. Fails(Target(d), stmt) /\ d.ctx = ctx
      BY <1>2, <2>1, <2>2
    <3>1. c2 = [store |-> a, ctx |-> ctx, failed |-> TRUE]
      BY <1>1, <1>6, <2>2 DEF ExecuteInContext
    <3>2. d2 = [store |-> b, ctx |-> ctx, failed |-> TRUE]
      BY <1>2, <1>6, <3>0 DEF ExecuteInContext
    <3> QED BY <1>3, <3>1, <3>2
  <2>3. CASE ~Fails(Target(c), stmt) /\ ctx = Root
    <3>0. ~Fails(Target(d), stmt) /\ d.ctx = ctx
      BY <1>2, <2>1, <2>3
    <3>1. c2 = [store |-> Execute(a, stmt), ctx |-> ctx, failed |-> c.failed]
      BY <1>1, <1>6, <2>3 DEF ExecuteInContext
    <3>2. d2 = [store |-> Execute(b, stmt), ctx |-> ctx, failed |-> d.failed]
      BY <1>2, <1>6, <3>0, <2>3 DEF ExecuteInContext
    <3>3. c2.store = Execute(a, stmt) /\ d2.store = Execute(b, stmt)
      BY <3>1, <3>2
    <3>4. IsStore(Execute(a, stmt)) /\ IsStore(Execute(b, stmt))
      BY <1>s, <3>3
    <3>5. Shifted(front, Execute(a, stmt), Execute(b, stmt))
      BY <2>0, <3>4, ShiftExecute
    <3> QED BY <3>3, <3>5
  <2>4. CASE ~Fails(Target(c), stmt) /\ ctx # Root
    <3>0. ~Fails(Target(d), stmt) /\ d.ctx = ctx
      BY <1>2, <2>1, <2>4
    <3> DEFINE ms == [a.memories EXCEPT ![ctx] = Execute(@, stmt)]
    <3>1. c2 = [store |-> [a EXCEPT !.memories = ms], ctx |-> ctx, failed |-> c.failed]
      BY <1>1, <1>6, <2>4 DEF ExecuteInContext
    <3>2. d2 = [store |-> [b EXCEPT !.memories = ms], ctx |-> ctx, failed |-> d.failed]
      BY <1>2, <1>6, <3>0, <2>4 DEF ExecuteInContext
    <3> HIDE DEF ms
    <3>3. c2.store.history = a.history /\ d2.store.history = b.history
      BY <1>1, <1>2, <3>1, <3>2 DEF IsStore, IsMap, Parts
    <3> QED BY <1>3, <3>3
  <2> HIDE DEF c2, d2
  <2> QED BY <2>2, <2>3, <2>4
<1> HIDE DEF c2, d2
<1> QED BY <1>4, <1>5, <1>6

\* The history of a run stays a sequence, whatever its statements are.
LEMMA RunKeepsHistory ==
    ASSUME NEW c, RunOk(c), IsSeq(c.store.history), NEW stmt, IsFrameStmt(stmt)
    PROVE  IsSeq(ExecuteInContext(c, stmt).store.history)
<1> DEFINE c2 == ExecuteInContext(c, stmt)
           st == c.store
<1>1. /\ c = [store |-> st, ctx |-> c.ctx, failed |-> c.failed] /\ IsStore(st)
      /\ IsSeq(st.history)
  BY DEF RunOk, MemoriesOk
<1>3. CASE stmt.op = "memory"
  <2>1. PICK ms : c2 = [store |-> [st EXCEPT !.memories = ms], ctx |-> stmt.name, failed |-> c.failed]
    BY <1>1, <1>3 DEF ExecuteInContext
  <2>2. c2.store.history = st.history
    BY <1>1, <2>1 DEF IsStore, IsMap, Parts
  <2> QED BY <1>1, <2>2
<1>4. CASE stmt.op = "reset"
  <2>1. c2 = [store |-> st, ctx |-> Root, failed |-> c.failed]
    BY <1>1, <1>4 DEF ExecuteInContext
  <2> QED BY <1>1, <2>1
<1>5. CASE stmt.op \notin {"memory", "reset"} /\ Fails(Target(c), stmt)
  <2>1. c2 = [store |-> st, ctx |-> c.ctx, failed |-> TRUE]
    BY <1>1, <1>5 DEF ExecuteInContext
  <2> QED BY <1>1, <2>1
<1>6. CASE stmt.op \notin {"memory", "reset"} /\ ~Fails(Target(c), stmt) /\ c.ctx = Root
  <2>1. c2 = [store |-> Execute(st, stmt), ctx |-> c.ctx, failed |-> c.failed]
    BY <1>1, <1>6 DEF ExecuteInContext
  <2>2. IsClient(stmt)
    BY <1>6 DEF IsFrameStmt, ResetStmt
  <2> QED BY <1>1, <2>1, <2>2, HistoryStays
<1>7. CASE stmt.op \notin {"memory", "reset"} /\ ~Fails(Target(c), stmt) /\ c.ctx # Root
  <2>1. PICK ms : c2 = [store |-> [st EXCEPT !.memories = ms], ctx |-> c.ctx, failed |-> c.failed]
    <3>1. PICK ms : ms = [st.memories EXCEPT ![c.ctx] = Execute(@, stmt)]
      OBVIOUS
    <3>2. c2 = [store |-> [st EXCEPT !.memories = ms], ctx |-> c.ctx, failed |-> c.failed]
      BY <1>1, <1>7, <3>1 DEF ExecuteInContext
    <3> QED BY <3>2
  <2>2. c2.store.history = st.history
    BY <1>1, <2>1 DEF IsStore, IsMap, Parts
  <2> QED BY <1>1, <2>2
<1> QED BY <1>3, <1>4, <1>5, <1>6, <1>7

\* Plans run on a sequence leave a sequence.
LEMMA PlanKeepsHistory ==
    ASSUME NEW st, MemoriesOk(st), IsSeq(st.history), NEW plan, IsPlan(plan)
    PROVE  IsSeq(ExecutePlan(st, plan).store.history)
<1> DEFINE Run(n) == ExecutePlan(st, SubSeq(plan, 1, n))
           good == {n \in Nat : n <= Len(plan) => IsSeq(Run(n).store.history)}
<1>0. IsSeq(plan) /\ Len(plan) \in Nat
  BY SeqFacts DEF IsPlan
<1>1. 0 \in good
  <2>1. Run(0) = AtRoot(st)
    BY <1>0, PrefixFacts, PlanEquations
  <2>2. AtRoot(st).store = st
    BY DEF AtRoot
  <2> QED BY <2>1, <2>2
<1>2. ASSUME NEW n \in Nat, n \in good PROVE n + 1 \in good
  <2> SUFFICES ASSUME n + 1 <= Len(plan) PROVE IsSeq(Run(n + 1).store.history)
    OBVIOUS
  <2>1. n \in 0..Len(plan) /\ n <= Len(plan) /\ n + 1 \in 1..Len(plan)
    BY <1>0
  <2>2. RunOk(Run(n)) /\ IsSeq(Run(n).store.history)
    BY <1>2, <2>1, PlanOk
  <2>3. Run(n + 1) = Run(n) \/ Run(n + 1) = ExecuteInContext(Run(n), plan[n + 1])
    BY <1>0, OneMore
  <2>4. IsFrameStmt(plan[n + 1])
    BY <2>1 DEF IsPlan, IsFrameStmt
  <2> HIDE DEF Run
  <2> QED BY <2>2, <2>3, <2>4, RunKeepsHistory
<1> HIDE DEF good
<1>3. Len(plan) \in good
  BY <1>0, <1>1, <1>2, PlanFold!Induction
<1>4. Run(Len(plan)) = ExecutePlan(st, plan)
  BY <1>0, PrefixFacts
<1> HIDE DEF Run
<1>5. IsSeq(Run(Len(plan)).store.history)
  BY <1>0, <1>3 DEF good
<1> QED BY <1>4, <1>5

\* A plan that reads no history does the same with the tail and without it.
LEMMA ShiftPlan ==
    ASSUME NEW front, NEW a, MemoriesOk(a), NEW b, MemoriesOk(b), Shifted(front, a, b),
           NEW plan, IsPlan(plan), \A i \in 1..Len(plan) : ~NeedsHistory(plan[i])
    PROVE  Shifted(front, ExecutePlan(a, plan).store, ExecutePlan(b, plan).store)
<1> DEFINE A(n) == ExecutePlan(a, SubSeq(plan, 1, n))
           B(n) == ExecutePlan(b, SubSeq(plan, 1, n))
           Together(c, d) == /\ c.ctx = d.ctx /\ (c.failed <=> d.failed)
                             /\ Shifted(front, c.store, d.store)
           good == {n \in Nat : n <= Len(plan) => Together(A(n), B(n))}
<1>0. IsSeq(plan) /\ Len(plan) \in Nat
  BY SeqFacts DEF IsPlan
<1>1. 0 \in good
  <2>1. A(0) = AtRoot(a) /\ B(0) = AtRoot(b)
    BY <1>0, PrefixFacts, PlanEquations
  <2>2. Together(AtRoot(a), AtRoot(b))
    BY DEF AtRoot
  <2> QED BY <2>1, <2>2
<1>2. ASSUME NEW n \in Nat, n \in good PROVE n + 1 \in good
  <2> SUFFICES ASSUME n + 1 <= Len(plan) PROVE Together(A(n + 1), B(n + 1))
    OBVIOUS
  <2>1. n \in 0..Len(plan) /\ n <= Len(plan) /\ n + 1 \in 1..Len(plan)
    BY <1>0
  <2>2. RunOk(A(n)) /\ RunOk(B(n)) /\ Together(A(n), B(n))
    BY <1>2, <2>1, PlanOk
  <2>3. /\ A(n).failed => A(n + 1) = A(n)
        /\ ~A(n).failed => A(n + 1) = ExecuteInContext(A(n), plan[n + 1])
    BY <1>0, OneMore
  <2>4. /\ B(n).failed => B(n + 1) = B(n)
        /\ ~B(n).failed => B(n + 1) = ExecuteInContext(B(n), plan[n + 1])
    BY <1>0, OneMore
  <2>5. IsFrameStmt(plan[n + 1]) /\ ~NeedsHistory(plan[n + 1])
    BY <2>1 DEF IsPlan, IsFrameStmt
  <2> HIDE DEF A, B
  <2>6. CASE A(n).failed
    BY <2>2, <2>3, <2>4, <2>6
  <2>7. CASE ~A(n).failed
    <3>1. PICK c, d, stmt : c = A(n) /\ d = B(n) /\ stmt = plan[n + 1]
      OBVIOUS
    <3>2. /\ Alike(ExecuteInContext(c, stmt), ExecuteInContext(d, stmt))
          /\ ExecuteInContext(c, stmt).failed <=> ExecuteInContext(d, stmt).failed
          /\ Shifted(front, ExecuteInContext(c, stmt).store, ExecuteInContext(d, stmt).store)
      <4>1. RunOk(c) /\ ~c.failed /\ RunOk(d) /\ ~d.failed /\ c.ctx = d.ctx /\ Shifted(front, c.store, d.store)
        BY ONLY <2>2, <2>7, <3>1
      <4>2. IsFrameStmt(stmt) /\ ~NeedsHistory(stmt)
        BY <2>5, <3>1
      <4> QED BY ONLY <4>1, <4>2, ShiftStep
    <3> QED BY <2>2, <2>3, <2>4, <2>7, <3>1, <3>2 DEF Alike
  <2> QED BY <2>6, <2>7
<1> HIDE DEF good
<1>3. Len(plan) \in good
  BY <1>0, <1>1, <1>2, PlanFold!Induction
<1>4. A(Len(plan)) = ExecutePlan(a, plan) /\ B(Len(plan)) = ExecutePlan(b, plan)
  BY <1>0, PrefixFacts
<1> HIDE DEF A, B
<1>5. Shifted(front, A(Len(plan)).store, B(Len(plan)).store)
  BY <1>0, <1>3 DEF good
<1> QED BY <1>4, <1>5

(***************************************************************************)
(* The invariant: what is read late completes what is in memory.           *)
(***************************************************************************)

\* A file tells the history apart from the rest.
IsImage(image) == image.core.history = <<>> /\ IsSeq(image.history) /\ image.gen \in Nat

\* No compaction is among the frames a handle has replayed or is behind.
NoPrune(h) ==
    \A i \in 1..(IF pc[h] = "replay" THEN pos[h] ELSE Len(wal)) : wal[i].stmt.op # "prune"

\* A tail is not from a later file than the one in place, and as long as that is
\* the one it is from, it is what is missing in memory.
LazyOk(h) ==
    pc[h] \in Inside \cup {"replay"} =>
        /\ IsSeq(mem[h].store.history)
        /\ tail[h].gen \in Nat /\ tail[h].gen <= main.gen
        /\ pc[h] = "truncate" => tail[h].gen < main.gen
        /\ pc[h] = "rename" => IsImage(tmp) /\ tmp.gen = main.gen + 1
        /\ tail[h] # NoImage /\ tail[h] = main /\ NoPrune(h) =>
              eager[h] = tail[h].history \o mem[h].store.history

LazyInv ==
    /\ tail = [h \in Handles |-> tail[h]] /\ eager = [h \in Handles |-> eager[h]]
    /\ IsImage(main)
    /\ \A h \in Handles : LazyOk(h)

\* A step of the lock holder has to be examined at that handle only.
LEMMA LazyAtTheHolder ==
    ASSUME TypeOK, LockHeld, NEW h \in Handles, pc[h] # "closed",
           \A g \in Handles \ {h} : pc'[g] = pc[g],
           tail' = [g \in Handles |-> tail'[g]], eager' = [g \in Handles |-> eager'[g]],
           IsImage(main'), LazyOk(h)'
    PROVE  LazyInv'
<1>1. ASSUME NEW g \in Handles, g # h PROVE LazyOk(g)'
  <2>1. pc'[g] = "closed"
    BY <1>1, Alone
  <2> QED BY <2>1 DEF LazyOk, Inside
<1> QED BY <1>1 DEF LazyInv

\* Logging, returning and writing a checkpoint leave history and tail alone.
LEMMA LazyStays ==
    ASSUME TypeOK, LockHeld, LazyInv, NEW h \in Handles, pc[h] \in Inside,
           \A g \in Handles \ {h} : pc'[g] = pc[g],
           pc'[h] \in Inside \ {"truncate"}, UNCHANGED <<main, mem, tail, eager>>,
           \/ Len(wal) <= Len(wal') /\ \A i \in 1..Len(wal) : wal'[i] = wal[i]
           \/ pc[h] = "truncate",
           Len(wal') \in Nat, pc'[h] = "rename" => IsImage(tmp') /\ tmp'.gen = main.gen + 1
    PROVE  LazyInv'
<1>1. pc[h] # "closed" /\ pc[h] # "replay" /\ pc'[h] # "replay" /\ Len(wal) \in Nat
  BY WalFrames DEF Inside
<1>2. /\ IsSeq(mem[h].store.history) /\ tail[h].gen \in Nat /\ tail[h].gen <= main.gen
      /\ pc[h] = "truncate" => tail[h].gen < main.gen
      /\ tail[h] # NoImage /\ tail[h] = main /\ NoPrune(h) =>
              eager[h] = tail[h].history \o mem[h].store.history
  BY DEF LazyInv, LazyOk
<1>3. IsImage(main) /\ tail = [g \in Handles |-> tail[g]] /\ eager = [g \in Handles |-> eager[g]]
  BY DEF LazyInv
<1>4. tail[h] = main => pc[h] # "truncate"
  BY <1>2, <1>3 DEF IsImage
<1>5. tail[h] = main /\ NoPrune(h)' => NoPrune(h)
  BY <1>1, <1>4 DEF NoPrune
<1>6. LazyOk(h)'
  BY <1>1, <1>2, <1>5 DEF LazyOk
<1> QED BY <1>1, <1>3, <1>6, LazyAtTheHolder

\* The frames of the log are no temporal reads.
LEMMA NoTemporalFrames ==
    ASSUME TypeOK, NEW i \in 1..Len(wal)
    PROVE  IsFrameStmt(wal[i].stmt) /\ wal[i].stmt.op \notin TemporalReads
<1>1. wal[i] \in Frames /\ IsFrameStmt(wal[i].stmt)
  BY WalFrames DEF IsFrames, TypeOK, DiskTyped
<1>2. \A plan \in Plans : \A k \in Logged(plan) : IsMutating(plan[k])
  BY PlanFacts
<1> QED BY <1>1, <1>2 DEF Frames, LoggedStmts, ResetStmt, IsMutating, TemporalReads

\* The history in place of another.
LEMMA OtherHistory ==
    ASSUME NEW st, MemoriesOk(st), NEW history
    PROVE  LET st2 == [st EXCEPT !.history = history]
           IN  MemoriesOk(st2) /\ Twins(st, st2) /\ st2.history = history
<1> DEFINE st2 == [st EXCEPT !.history = history]
<1>1. /\ IsStore(st) /\ IsStore(st2) /\ st2.history = history
      /\ st2.memories = st.memories /\ st2.records = st.records
      /\ st2.edges = st.edges /\ st2.vector_dims = st.vector_dims
      /\ st2.clock = st.clock /\ st2.tables = st.tables
  BY DEF MemoriesOk, IsStore, IsMap, Parts
<1> HIDE DEF st2
<1>2. MemoriesOk(st2) /\ Twins(st, st2) /\ st2.history = history
  BY <1>1, TwinsAgree DEF MemoriesOk
<1> QED BY <1>2 DEF st2

\* A load reads no history.
LEMMA LoadedHistory ==
    ASSUME NEW image, IsImage(image), MemoriesOk(LoadedStore(image))
    PROVE  LoadedStore(image).history = <<>>
<1> DEFINE core == image.core
           root == RebuildIndex(core)
<1>1. LoadedStore(image) = [root EXCEPT !.memories = [m \in DOMAIN @ |-> RebuildIndex(@[m])]]
  BY DEF LoadedStore, RebuildTables
<1>2. root = [core EXCEPT !.tables = DeclaredBy(core.history, @)]
  BY DEF RebuildIndex
<1>3. DOMAIN LoadedStore(image) = Parts
  BY DEF MemoriesOk, IsStore
<1> HIDE DEF root, core
<1>4. DOMAIN root = Parts /\ DOMAIN core = Parts
  BY <1>1, <1>2, <1>3
<1>5. LoadedStore(image).history = root.history /\ root.history = core.history
  BY <1>1, <1>2, <1>4 DEF Parts
<1> QED BY <1>5 DEF IsImage, core

\* At load nothing is missing but the tail.
LEMMA LoadLazy ==
    ASSUME TypeOK, LockHeld, RestoreInv, LazyInv, NEW h \in Handles, LoadMain(h)
    PROVE  LazyInv'
<1>1. /\ pc[h] # "closed" /\ pc'[h] = "replay" /\ \A g \in Handles \ {h} : pc'[g] = pc[g]
      /\ main' = main /\ pos'[h] = 0
  BY DEF LoadMain, diskVars, TypeOK, ControlTyped
<1>2. /\ tail' = [g \in Handles |-> tail'[g]] /\ eager' = [g \in Handles |-> eager'[g]]
      /\ tail'[h] = main /\ eager'[h] = main.history
  BY DEF LoadMain, LazyInv
<1>3. mem'[h] = AtRoot(LoadedStore(main)) /\ MemoriesOk(LoadedStore(main)) /\ IsImage(main)
  BY DEF LoadMain, RestoreInv, LazyInv
<1>4. mem'[h].store.history = <<>>
  BY <1>3, LoadedHistory DEF AtRoot
<1>5. main.history \o <<>> = main.history /\ IsSeq(<<>>) /\ main.gen \in Nat /\ main.gen <= main.gen
  <2>1. IsSeq(main.history) /\ main.gen \in Nat
    BY <1>3 DEF IsImage
  <2> QED BY <2>1 DEF IsSeq
<1>6. LazyOk(h)'
  BY <1>1, <1>2, <1>4, <1>5 DEF LazyOk
<1> QED BY <1>1, <1>2, <1>3, <1>6, LazyAtTheHolder

\* A frame that is no compaction adds the same to both histories.
LEMMA ReplayLazy ==
    ASSUME TypeOK, LockHeld, RestoreInv, LazyInv, NEW h \in Handles, ReplayFrame(h)
    PROVE  LazyInv'
<1>1. PICK n, c, stmt, front, old :
         n = pos[h] /\ c = mem[h] /\ stmt = wal[n + 1].stmt /\ front = tail[h].history /\ old = eager[h]
  OBVIOUS
<1>2. /\ pc[h] = "replay" /\ pc'[h] = "replay" /\ \A g \in Handles \ {h} : pc'[g] = pc[g]
      /\ UNCHANGED <<main, wal, tail>>
      /\ pos'[h] = n + 1 /\ n \in Nat /\ n + 1 <= Len(wal)
  BY <1>1, WalFrames DEF ReplayFrame, NextFrameIntact, diskVars, TypeOK, ControlTyped
<1>3. mem'[h] = Replayed(c, stmt) /\ eager'[h] = Replayed(WithHistory(c, old), stmt).store.history
  BY <1>1 DEF ReplayFrame, RestoreInv, LazyInv
<1>4. /\ tail' = [g \in Handles |-> tail'[g]] /\ eager' = [g \in Handles |-> eager'[g]]
      /\ IsImage(main')
  BY <1>2 DEF ReplayFrame, LazyInv
<1>5. RunOk(c) /\ ~c.failed /\ MemoriesOk(c.store) /\ IsSeq(c.store.history)
  <2>1. n \in 0..Len(wal) /\ c = Recover(main, SubSeq(wal, 1, n)) /\ MemoriesOk(LoadedStore(main))
    BY <1>1, <1>2 DEF RestoreInv, HandleOk, ReplayOk
  <2>2. IsFrames(SubSeq(wal, 1, n))
    BY <2>1, WalFrames
  <2>3. RunOk(c) /\ ~c.failed
    BY <2>1, <2>2, RecoverOk
  <2>4. IsSeq(c.store.history)
    BY <1>1, <1>2 DEF LazyInv, LazyOk
  <2> QED BY <2>3, <2>4 DEF RunOk
<1>6. IsFrameStmt(stmt) /\ stmt.op \notin TemporalReads
  BY <1>1, <1>2, NoTemporalFrames
<1>7. ASSUME NEW e, RunOk(e)
      PROVE  RunOk(ExecuteInContext(e, stmt)) /\ Replayed(e, stmt).store = ExecuteInContext(e, stmt).store
  <2>1. PICK e2 : e2 = ExecuteInContext(e, stmt)
    OBVIOUS
  <2>2. RunOk(e2)
    BY <1>6, <1>7, <2>1, RunStep DEF IsFrameStmt
  <2>3. Replayed(e, stmt) = [e2 EXCEPT !.failed = FALSE]
    BY <2>1 DEF Replayed
  <2> QED BY <2>1, <2>2, <2>3 DEF RunOk
<1>8. IsSeq(mem'[h].store.history)
  BY <1>3, <1>5, <1>6, <1>7, RunKeepsHistory
<1>9. ASSUME tail[h] # NoImage, tail[h] = main, NoPrune(h)'
      PROVE  eager'[h] = front \o mem'[h].store.history
  <2>1. NoPrune(h) /\ stmt.op # "prune"
    BY <1>1, <1>2, <1>9 DEF NoPrune
  <2>2. old = front \o c.store.history /\ IsSeq(front)
    BY <1>1, <1>2, <1>9, <2>1 DEF LazyInv, LazyOk, IsImage
  <2>3. PICK st : st = [c.store EXCEPT !.history = old]
    OBVIOUS
  <2>4. MemoriesOk(st) /\ Twins(c.store, st) /\ st.history = old
    BY <1>5, <2>3, OtherHistory
  <2>5. PICK d : d = WithHistory(c, old)
    OBVIOUS
  <2>6. d = [store |-> st, ctx |-> c.ctx, failed |-> c.failed]
    BY <1>5, <2>3, <2>5 DEF WithHistory, RunOk
  <2>7. DOMAIN st.memories = DOMAIN c.store.memories
    BY <1>5, <2>4, TwinsAgree DEF MemoriesOk
  <2>8. RunOk(d) /\ ~d.failed /\ c.ctx = d.ctx /\ d.store = st
    BY <1>5, <2>4, <2>6, <2>7 DEF RunOk
  <2>9. Shifted(front, c.store, d.store)
    BY <1>5, <2>2, <2>4, <2>8 DEF Shifted, MemoriesOk
  <2>10. Shifted(front, ExecuteInContext(c, stmt).store, ExecuteInContext(d, stmt).store)
    BY <1>5, <1>6, <2>1, <2>8, <2>9, ShiftStep DEF NeedsHistory, TemporalReads
  <2>11. eager'[h] = ExecuteInContext(d, stmt).store.history /\ mem'[h].store = ExecuteInContext(c, stmt).store
    BY <1>3, <1>5, <1>7, <2>5, <2>8
  <2> QED BY <2>10, <2>11 DEF Shifted
<1>10. tail[h].gen \in Nat /\ tail[h].gen <= main.gen
  BY <1>2 DEF LazyInv, LazyOk
<1>11. LazyOk(h)'
  BY <1>1, <1>2, <1>8, <1>9, <1>10 DEF LazyOk
<1> QED BY <1>2, <1>4, <1>11, LazyAtTheHolder

\* What is cut from the log was not replayed.
LEMMA EndReplayLazy ==
    ASSUME TypeOK, LockHeld, LazyInv, NEW h \in Handles, EndReplay(h)
    PROVE  LazyInv'
<1>1. /\ pc[h] = "replay" /\ pc'[h] = "idle" /\ \A g \in Handles \ {h} : pc'[g] = pc[g]
      /\ UNCHANGED <<main, mem, tail, eager>> /\ wal' = SubSeq(wal, 1, pos[h])
  BY DEF EndReplay, ghostVars, TypeOK, ControlTyped
<1>2. Len(wal') = pos[h] /\ \A i \in 1..pos[h] : wal'[i] = wal[i]
  <2>1. pos[h] \in Nat /\ pos[h] <= Len(wal) /\ wal \in Seq(Frames)
    BY <1>1 DEF TypeOK, ControlTyped, DiskTyped
  <2> QED BY <1>1, <2>1
<1>3. NoPrune(h)' => NoPrune(h)
  BY <1>1, <1>2 DEF NoPrune
<1>4. LazyOk(h)'
  BY <1>1, <1>3 DEF LazyInv, LazyOk, Inside
<1> QED BY <1>1, <1>4, LazyAtTheHolder DEF LazyInv

\* A plan that reads the history claims the tail; any other adds the same to the
\* history in memory and to the one read at load.
LEMMA RunLazy ==
    ASSUME TypeOK, LockHeld, RestoreInv, LazyInv, NEW h \in Handles, NEW plan \in Plans,
           NEW run \in Runs(h, plan), mem'[h].store = run.store,
           pc[h] = "idle", pc'[h] \in {"idle", "log"}, \A g \in Handles \ {h} : pc'[g] = pc[g],
           UNCHANGED <<main, wal>>, ClaimTail(h, plan),
           eager' = [eager EXCEPT ![h] = EagerRun(h, plan).store.history]
    PROVE  LazyInv'
<1>1. PICK a, front, old : a = mem[h].store /\ front = tail[h].history /\ old = eager[h]
  OBVIOUS
<1>2. /\ MemoriesOk(a) /\ IsSeq(a.history) /\ tail[h].gen \in Nat /\ tail[h].gen <= main.gen
      /\ tail[h] # NoImage /\ tail[h] = main /\ NoPrune(h) => old = front \o a.history
  BY <1>1 DEF RestoreInv, HandleOk, InsideOk, LazyInv, LazyOk, Inside
<1>3. IsImage(main) /\ IsPlan(plan)
  BY PlanFacts DEF LazyInv
<1>4. /\ tail' = [g \in Handles |-> tail'[g]] /\ eager' = [g \in Handles |-> eager'[g]]
      /\ tail'[h] = IF Temporal(plan) THEN NoImage ELSE tail[h]
      /\ eager'[h] = ExecutePlan([a EXCEPT !.history = old], plan).store.history
  BY <1>1 DEF ClaimTail, EagerRun, LazyInv
<1>5. PICK history : /\ run = ExecutePlan([a EXCEPT !.history = history], plan)
                     /\ history \in IF Temporal(plan) THEN ClaimedHistory(h) ELSE {a.history}
  BY <1>1 DEF Runs
<1>6. IsSeq(history)
  <2>1. ASSUME NEW p, IsSeq(p) PROVE IsSeq(p \o a.history)
    <3> DEFINE S == Range(p) \cup Range(a.history)
    <3>1. p \in Seq(S) /\ a.history \in Seq(S)
      BY <1>2, <2>1 DEF IsSeq
    <3> HIDE DEF S
    <3>2. PICK r : r = p \o a.history
      OBVIOUS
    <3>3. r \in Seq(S)
      BY <3>1, <3>2
    <3>4. IsSeq(r)
      BY ONLY <3>3 DEF IsSeq, Range
    <3> QED BY <3>2, <3>4
  <2>2. CASE history \in ClaimedHistory(h)
    <3>1. tail[h] # NoImage /\ ~TailIsStale(h) => tail[h].history = main.history
      BY DEF TailIsStale, SameBytes
    <3>2. history = a.history \/ \E p \in Decodings \cup {<<>>, main.history} : history = p \o a.history
      BY <1>1, <2>2, <3>1 DEF ClaimedHistory
    <3>3. \A p \in Decodings : IsSeq(p)
      BY DecodingsAreHistories DEF IsSeq
    <3>4. IsSeq(<<>>) /\ IsSeq(main.history)
      BY <1>3, EmptyFacts DEF IsImage
    <3> QED BY <1>2, <2>1, <3>2, <3>3, <3>4
  <2> QED BY <1>2, <1>5, <2>2
<1>7. PICK st : st = [a EXCEPT !.history = history]
  OBVIOUS
<1>8. MemoriesOk(st) /\ st.history = history
  BY <1>2, <1>7, OtherHistory
<1>9. IsSeq(run.store.history)
  BY <1>3, <1>5, <1>6, <1>7, <1>8, PlanKeepsHistory
<1>10. ASSUME ~Temporal(plan), tail[h] # NoImage, tail[h] = main, NoPrune(h)
       PROVE  eager'[h] = front \o run.store.history
  <2>1. old = front \o a.history /\ IsSeq(front)
    BY <1>1, <1>2, <1>3, <1>10 DEF IsImage
  <2>2. st = a
    BY <1>2, <1>5, <1>7, <1>10 DEF MemoriesOk, IsStore, IsMap
  <2>3. PICK b : b = [a EXCEPT !.history = old]
    OBVIOUS
  <2>4. MemoriesOk(b) /\ Twins(a, b) /\ b.history = old
    BY <1>2, <2>3, OtherHistory
  <2>5. Shifted(front, a, b)
    BY <1>2, <2>1, <2>4 DEF Shifted, MemoriesOk
  <2>6. \A i \in 1..Len(plan) : ~NeedsHistory(plan[i])
    BY <1>3, <1>10, SeqFacts DEF Temporal, IsPlan
  <2>7. Shifted(front, ExecutePlan(a, plan).store, ExecutePlan(b, plan).store)
    BY <1>2, <1>3, <2>4, <2>5, <2>6, ShiftPlan
  <2> QED BY <1>4, <1>5, <1>7, <2>2, <2>3, <2>7 DEF Shifted
<1>11. NoPrune(h)' => NoPrune(h)
  BY DEF NoPrune
<1>12. tail'[h].gen \in Nat /\ tail'[h].gen <= main.gen
  <2>1. NoImage.gen = 0 /\ main.gen \in Nat
    BY <1>3 DEF NoImage, IsImage
  <2> QED BY <1>2, <1>4, <2>1
<1>13. LazyOk(h)'
  BY <1>1, <1>4, <1>9, <1>10, <1>11, <1>12 DEF LazyOk
<1> QED BY <1>3, <1>4, <1>13, LazyAtTheHolder

\* Whatever a plan does, and when its tail cannot be read.
LEMMA PlanLazy ==
    ASSUME TypeOK, LockHeld, RestoreInv, LazyInv, NEW h \in Handles, NEW plan \in Plans,
           RunPlan(h, plan) \/ ExecuteFails(h, plan) \/ ClaimFails(h, plan)
    PROVE  LazyInv'
<1>1. /\ pc[h] = "idle" /\ pc'[h] \in {"idle", "log"} /\ \A g \in Handles \ {h} : pc'[g] = pc[g]
      /\ UNCHANGED <<main, wal>> /\ ClaimTail(h, plan)
  BY DEF RunPlan, ExecuteFails, ClaimFails, diskVars, TypeOK, ControlTyped
<1>2. MemoriesOk(mem[h].store)
  BY <1>1 DEF RestoreInv, HandleOk, InsideOk, Inside
<1>3. CASE RunPlan(h, plan)
  <2>1. PICK run \in Runs(h, plan) : mem' = [mem EXCEPT ![h] = run]
    BY <1>3 DEF RunPlan
  <2>2. mem'[h].store = run.store
    BY <2>1 DEF RestoreInv
  <2> QED BY <1>1, <1>3, <2>2, RunLazy DEF RunPlan
<1>4. CASE ExecuteFails(h, plan)
  <2>1. PICK run \in Runs(h, plan) : mem' = [mem EXCEPT ![h] = [run EXCEPT !.failed = FALSE]]
    BY <1>4 DEF ExecuteFails
  <2>2. [run EXCEPT !.failed = FALSE].store = run.store
    BY <1>2, RunsOk DEF RunOk
  <2>3. mem'[h].store = run.store
    BY <2>1, <2>2 DEF RestoreInv
  <2> QED BY <1>1, <1>4, <2>3, RunLazy DEF ExecuteFails
<1>5. CASE ClaimFails(h, plan)
  <2>1. /\ UNCHANGED <<mem, eager, pos>> /\ pc'[h] = "idle"
        /\ tail' = [g \in Handles |-> tail'[g]] /\ tail'[h] = NoImage
    BY <1>5 DEF ClaimFails, ClaimTail, LazyInv
  <2>2. NoImage.gen = 0 /\ main.gen \in Nat /\ IsSeq(mem[h].store.history)
    BY <1>1 DEF NoImage, LazyInv, LazyOk, IsImage, Inside
  <2>3. LazyOk(h)'
    BY <1>1, <2>1, <2>2 DEF LazyOk
  <2> QED BY <1>1, <2>1, <2>3, LazyAtTheHolder DEF LazyInv
<1> QED BY <1>3, <1>4, <1>5

\* A new main file is no handle's tail.
LEMMA RenameLazy ==
    ASSUME TypeOK, LockHeld, LazyInv, NEW h \in Handles, Rename(h)
    PROVE  LazyInv'
<1>1. /\ pc[h] = "rename" /\ pc'[h] = "truncate" /\ \A g \in Handles \ {h} : pc'[g] = pc[g]
      /\ UNCHANGED <<mem, tail, eager>> /\ main' = tmp
  BY DEF Rename, ghostVars, TypeOK, ControlTyped
<1>2. /\ IsSeq(mem[h].store.history) /\ tail[h].gen \in Nat /\ tail[h].gen <= main.gen
      /\ IsImage(tmp) /\ tmp.gen = main.gen + 1 /\ main.gen \in Nat
  BY <1>1 DEF LazyInv, LazyOk, IsImage, Inside
<1>3. tail'[h] = tail[h] /\ tail[h].gen < main'.gen /\ tail[h].gen <= main'.gen
  BY <1>1, <1>2
<1>n. tail'[h] # main' /\ tail'[h].gen \in Nat /\ mem'[h].store = mem[h].store
  BY <1>1, <1>2, <1>3
<1>4. LazyOk(h)'
  <2>1. IsSeq(mem'[h].store.history)
    BY <1>2, <1>n
  <2>2. tail'[h].gen <= main'.gen
    BY <1>3
  <2>3. pc'[h] # "rename" /\ tail'[h].gen < main'.gen
    BY <1>1, <1>3
  <2>4. ~(tail'[h] = main')
    BY <1>n
  <2> QED BY <1>n, <2>1, <2>2, <2>3, <2>4, ZenonT(30) DEF LazyOk
<1> QED BY <1>1, <1>2, <1>4, LazyAtTheHolder DEF LazyInv

\* The steps that run no plan and read no file.
LEMMA WriteLazy ==
    ASSUME TypeOK, TypeOK', LockHeld, RestoreInv, LazyInv, NEW h \in Handles,
           \/ LogStatement(h) \/ AppendFails(h) \/ FinishPlan(h) \/ AutoCheckpoint(h) \/ Flush(h)
           \/ WriteTmp(h) \/ SyncTmp(h) \/ TruncateWal(h) \/ CheckpointFails(h)
    PROVE  LazyInv'
<1>t. pc \in [Handles -> Steps] /\ wal \in Seq(Frames) /\ wal' \in Seq(Frames) /\ Len(wal) \in Nat /\ Len(wal') \in Nat
  <2>1. pc \in [Handles -> Steps]
    BY DEF TypeOK, ControlTyped
  <2>2. wal \in Seq(Frames)
    BY DEF TypeOK, DiskTyped
  <2>3. wal' \in Seq(Frames)
    BY DEF TypeOK, DiskTyped
  <2>4. Len(wal) \in Nat
    BY ONLY <2>2
  <2>5. Len(wal') \in Nat
    BY ONLY <2>3
  <2> QED BY <2>1, <2>2, <2>3, <2>4, <2>5
<1>1. /\ pc[h] \in Inside /\ pc'[h] \in Inside \ {"truncate"} /\ \A g \in Handles \ {h} : pc'[g] = pc[g]
      /\ UNCHANGED <<main, mem, tail, eager>>
  BY <1>t DEF LogStatement, AppendFails, FinishPlan, AutoCheckpoint, Flush, WriteTmp, SyncTmp,
    TruncateWal, CheckpointFails, BeginCheckpoint, ReturnOk, StopPlan, diskVars, ghostVars, Inside
<1>2. \/ Len(wal) <= Len(wal') /\ \A i \in 1..Len(wal) : wal'[i] = wal[i]
      \/ pc[h] = "truncate"
  <2>1. ASSUME NEW f, wal' = Append(wal, f)
        PROVE  Len(wal) <= Len(wal') /\ \A i \in 1..Len(wal) : wal'[i] = wal[i]
    <3>1. wal'[Len(wal) + 1] = f /\ Len(wal') = Len(wal) + 1 /\ \A i \in 1..Len(wal) : wal'[i] = wal[i]
      <4>1. IsSeq(wal)
        BY WalFrames DEF IsFrames
      <4> QED BY <2>1, <4>1, AppendFacts
    <3> QED BY <1>t, <3>1
  <2>2. wal' = wal => Len(wal) <= Len(wal') /\ \A i \in 1..Len(wal) : wal'[i] = wal[i]
    BY <1>t
  <2>3. (\E f : wal' = Append(wal, f)) \/ wal' = wal \/ pc[h] = "truncate"
    BY DEF LogStatement, AppendFails, FinishPlan, AutoCheckpoint, Flush, WriteTmp, SyncTmp, TruncateWal,
      CheckpointFails, BeginCheckpoint, AfterFailedCall, AfterFailedAppend, diskVars
  <2> QED BY <2>1, <2>2, <2>3
<1>3. ASSUME pc'[h] = "rename" PROVE IsImage(tmp') /\ tmp'.gen = main.gen + 1
  <2>1. tmp' = ImageOf(h) /\ pc[h] = "sync"
    BY <1>3, <1>t DEF LogStatement, AppendFails, FinishPlan, AutoCheckpoint, Flush, WriteTmp, SyncTmp,
      TruncateWal, CheckpointFails, BeginCheckpoint, ReturnOk, StopPlan
  <2>2. PICK st : st = mem[h].store
    OBVIOUS
  <2>3. MemoriesOk(st) /\ IsSeq(st.history) /\ main.gen \in Nat
    BY <1>1, <2>2 DEF RestoreInv, HandleOk, InsideOk, LazyInv, LazyOk, IsImage
  <2>4. /\ ImageOf(h).core = CoreFrame(st) /\ ImageOf(h).gen = main.gen + 1
        /\ ImageOf(h).history = HistoryTail(st.history)
    BY <2>2 DEF ImageOf
  <2>5. CoreFrame(st).history = <<>>
    BY <2>3 DEF CoreFrame, MemoriesOk, IsStore, IsMap, Parts
  <2>6. IsSeq(HistoryTail(st.history))
    <3>1. PICK q, r : q = st.history /\ r = HistoryTail(q)
      OBVIOUS
    <3>2. DOMAIN q = 1..Len(q) /\ Len(q) \in Nat
      BY <2>3, <3>1, SeqFacts
    <3>3. DOMAIN r = 1..Len(q) /\ r = [i \in 1..Len(q) |-> r[i]]
      BY <3>1, <3>2 DEF HistoryTail
    <3>4. \A i \in 1..Len(q) : r[i] \in Range(r)
      BY <3>3 DEF Range
    <3>5. r \in Seq(Range(r))
      BY <3>2, <3>3, <3>4
    <3> QED BY <3>1, <3>5 DEF IsSeq
  <2> QED BY <2>1, <2>3, <2>4, <2>5, <2>6 DEF IsImage
<1> QED BY <1>t, <1>1, <1>2, <1>3, LazyStays

\* Every step keeps it.
LEMMA NextLazy ==
    ASSUME TypeOK, TypeOK', LockHeld, RestoreInv, LazyInv, [Next]_vars
    PROVE  LazyInv'
<1>1. CASE UNCHANGED vars
  <2>1. UNCHANGED <<main, tmp, wal, pc, mem, tail, eager, pos>>
    BY <1>1 DEF vars, diskVars, handleVars, ghostVars
  <2> QED BY <2>1 DEF LazyInv, LazyOk, NoPrune
<1>2. ASSUME NEW h \in Handles, ClearStaleLock(h)
      PROVE  LazyInv'
  <2>1. UNCHANGED <<main, tmp, wal, pc, mem, tail, eager, pos>>
    BY <1>2 DEF ClearStaleLock, handleVars, ghostVars
  <2> QED BY <2>1 DEF LazyInv, LazyOk, NoPrune
<1>3. ASSUME NEW h \in Handles, Open(h)
      PROVE  LazyInv'
  <2>1. /\ \A g \in Handles : pc'[g] \in {"closed", "load"} /\ UNCHANGED <<main, tail, eager>>
    BY <1>3, FreeIsNoHandle DEF Open, ghostVars, TypeOK, ControlTyped, LockHeld
  <2>2. UNCHANGED <<main, tail, eager>>
    BY <1>3 DEF Open, ghostVars
  <2> QED BY <2>1, <2>2 DEF LazyInv, LazyOk, Inside
<1>4. ASSUME NEW h \in Handles, Close(h) \/ Crash(h) \/ LoadFails(h)
      PROVE  LazyInv'
  <2>1. pc[h] # "closed" /\ Leave(h)
    BY <1>4 DEF Close, Crash, LoadFails
  <2>2. /\ pc'[h] = "closed" /\ \A g \in Handles \ {h} : pc'[g] = pc[g] /\ main' = main
        /\ main' = main /\ tail' = [g \in Handles |-> tail'[g]] /\ eager' = [g \in Handles |-> eager'[g]]
    BY <2>1 DEF Leave, LazyInv, TypeOK, ControlTyped
  <2>3. LazyOk(h)'
    BY <2>2 DEF LazyOk, Inside
  <2> QED BY <2>1, <2>2, <2>3, LazyAtTheHolder DEF LazyInv
<1> QED
  BY <1>1, <1>2, <1>3, <1>4, LoadLazy, ReplayLazy, EndReplayLazy, PlanLazy, RenameLazy, WriteLazy DEF Next

\* At first there is no history to read.
LEMMA InitLazy == Init => LazyInv
<1> SUFFICES ASSUME Init PROVE LazyInv
  OBVIOUS
<1>1. IsImage(main)
  <2>1. main.core = EmptyStore /\ main.history = <<>> /\ main.gen = 0
    BY DEF Init, NoImage
  <2>2. IsSeq(<<>>) /\ EmptyStore.history = <<>>
    BY DEF IsSeq, EmptyStore
  <2> QED BY <2>1, <2>2 DEF IsImage
<1>2. \A h \in Handles : LazyOk(h)
  BY DEF Init, LazyOk, Inside
<1> QED BY <1>1, <1>2 DEF Init, LazyInv

\* Reading the history tail late gives the history an eager load would have given,
\* until the handle checkpoints or replays a PRUNE, through any crashes, failed
\* calls and claims before.
THEOREM LateReadIsExact == Spec => []LazyTailExact
<1>1. Init => TypeOK /\ LockHeld /\ LogOrdered /\ RestoreInv /\ LazyInv
  <2>1. Init => LogOrdered
    BY DEF Init, LogOrdered, LoggedUpTo
  <2> QED BY <2>1, InitTyped, InitRestores, InitLazy
<1>2. TypeOK /\ LockHeld /\ LogOrdered /\ RestoreInv /\ LazyInv /\ [Next]_vars
         => (TypeOK /\ LockHeld /\ LogOrdered /\ RestoreInv /\ LazyInv)'
  BY NextTyped, NextLockHeld, NextLogOrdered, NextRestores, NextLazy
<1>3. TypeOK /\ LazyInv => LazyTailExact
  <2> SUFFICES ASSUME TypeOK, LazyInv, NEW h \in Handles, pc[h] = "idle", tail[h] # NoImage, tail[h] = main,
                      \A i \in DOMAIN wal : wal[i].stmt.op # "prune"
               PROVE  tail[h].history \o mem[h].store.history = eager[h]
    BY DEF LazyTailExact
  <2>1. NoPrune(h)
    BY WalFrames DEF NoPrune
  <2> QED BY <2>1 DEF LazyInv, LazyOk, Inside
<1> QED BY <1>1, <1>2, <1>3, PTL DEF Spec
==============================================================================
