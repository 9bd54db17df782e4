----------------------------- MODULE SessionProofs -----------------------------
(***************************************************************************)
(* The programs around the database, for any lines, any tool arguments and *)
(* any number of mutations: the file is current, a restart forgets no      *)
(* table, the analyzer's verdict is the engine's, dimensions are kept.     *)
(*                                                                         *)
(* Each is a fact about a plan, proved by induction over its statements,   *)
(* in the two ways a plan is run: by execute, which stops at a failure,    *)
(* and by the replay of the log, which has only the logged statements and  *)
(* goes on after a failure.                                                *)
(***************************************************************************)
EXTENDS Session, StoreProofs, SequenceTheorems

StoreOk(st) ==
    /\ Shaped(st) /\ IsMap(st.memories)
    /\ \A m \in DOMAIN st.memories : BlockOk(st.memories[m])

ContextOk(c) ==
    /\ c = [store |-> c.store, ctx |-> c.ctx, failed |-> c.failed] /\ c.failed \in BOOLEAN
    /\ StoreOk(c.store) /\ c.ctx \in {Root} \cup DOMAIN c.store.memories

\* The tables of the root and of the memories.
TablesOf(st) == DOMAIN st.tables \cup UNION {DOMAIN st.memories[m].tables : m \in DOMAIN st.memories}

(***************************************************************************)
(* One statement.                                                          *)
(***************************************************************************)

\* What a statement does to the blocks together, in either way of running a plan.
LEMMA StatementRuns ==
    ASSUME NEW c, ContextOk(c), NEW stmt, IsClient(stmt)
    PROVE  LET c2 == ExecuteInContext(c, stmt)
           IN  /\ ContextOk(c2)
               /\ TablesOf(c.store) \subseteq TablesOf(c2.store)
               /\ DOMAIN c.store.memories \subseteq DOMAIN c2.store.memories
               /\ stmt.op = "create" => stmt.table \in TablesOf(c2.store)
               /\ \A t : Told(t, c.store) => Told(t, c2.store)
<1> DEFINE c2 == ExecuteInContext(c, stmt)
           st == c.store
<1>0. /\ c = [store |-> st, ctx |-> c.ctx, failed |-> c.failed] /\ c.failed \in BOOLEAN
      /\ StoreOk(st) /\ c.ctx \in {Root} \cup DOMAIN st.memories
  BY DEF ContextOk
<1>1. /\ Shaped(st) /\ IsStore(st) /\ IsMap(st.memories)
      /\ \A m \in DOMAIN st.memories : BlockOk(st.memories[m])
  BY <1>0 DEF StoreOk, Shaped
<1>2. CASE stmt.op = "memory"
  <2> DEFINE blocks == IF stmt.name \in DOMAIN st.memories THEN st.memories
                       ELSE Put(st.memories, stmt.name, EmptyStore)
             st2 == [st EXCEPT !.memories = blocks]
  <2>1. c2 = [store |-> st2, ctx |-> stmt.name, failed |-> c.failed]
    BY <1>0, <1>1, <1>2 DEF ExecuteInContext, IsStore, IsMap, Parts
  <2>2. BlockOk(EmptyStore)
    BY EmptyBlock
  <2>3. /\ IsMap(blocks) /\ DOMAIN blocks = DOMAIN st.memories \cup {stmt.name}
        /\ \A m \in DOMAIN blocks : blocks[m] = IF m \in DOMAIN st.memories THEN st.memories[m] ELSE EmptyStore
    BY <1>1 DEF Put, IsMap
  <2>4. /\ IsStore(st2) /\ st2.memories = blocks /\ st2.history = st.history /\ st2.tables = st.tables
        /\ st2.vector_dims = st.vector_dims
    BY <1>1 DEF IsStore, IsMap, Parts
  <2> HIDE DEF st2, blocks
  <2>5. Shaped(st2) /\ \A t : Told(t, st) => Told(t, st2)
    BY <1>1, <2>4 DEF Shaped, Told
  <2>6. StoreOk(st2)
    BY <1>1, <2>2, <2>3, <2>4, <2>5 DEF StoreOk
  <2>7. TablesOf(st) \subseteq TablesOf(st2)
    BY <2>3, <2>4 DEF TablesOf
  <2>8. ContextOk(c2)
    BY <1>0, <2>1, <2>3, <2>4, <2>6 DEF ContextOk
  <2> QED BY <1>2, <2>1, <2>3, <2>4, <2>5, <2>7, <2>8
<1>3. CASE stmt.op # "memory" /\ Fails(Target(c), stmt)
  <2>1. c2 = [store |-> st, ctx |-> c.ctx, failed |-> TRUE]
    BY <1>0, <1>3 DEF ExecuteInContext, IsClient
  <2>2. stmt.op # "create"
    BY <1>3 DEF Fails, TemporalReads
  <2> QED BY <1>0, <2>1, <2>2 DEF ContextOk
<1>4. CASE stmt.op # "memory" /\ ~Fails(Target(c), stmt) /\ c.ctx = Root
  <2> DEFINE st2 == Execute(st, stmt)
  <2>1. c2 = [store |-> st2, ctx |-> c.ctx, failed |-> c.failed]
    BY <1>0, <1>4 DEF ExecuteInContext, IsClient
  <2>2. ~Fails(st, stmt)
    BY <1>4 DEF Target
  <2>3. /\ Shaped(st2) /\ \A t : Told(t, st) => Told(t, st2)
        /\ st2.tables = IF stmt.op = "create" THEN Put(st.tables, stmt.table, stmt.dim) ELSE st.tables
        /\ st2.memories = IF stmt.op = "prune" THEN [m \in DOMAIN st.memories |-> PruneOne(st.memories[m])]
                          ELSE st.memories
    BY <1>1, <2>2, ExecuteBlock
  <2>4. \A m \in DOMAIN st.memories : BlockOk(PruneOne(st.memories[m])) /\ PruneOne(st.memories[m]).tables = st.memories[m].tables
    BY <1>1, PruneBlock DEF BlockOk
  <2> HIDE DEF st2
  <2>5. /\ DOMAIN st2.memories = DOMAIN st.memories /\ IsMap(st2.memories)
        /\ \A m \in DOMAIN st.memories : BlockOk(st2.memories[m]) /\ st2.memories[m].tables = st.memories[m].tables
    BY <1>1, <2>3, <2>4 DEF IsMap
  <2>6. DOMAIN st.tables \subseteq DOMAIN st2.tables /\ (stmt.op = "create" => stmt.table \in DOMAIN st2.tables)
    BY <2>3 DEF Put
  <2>7. TablesOf(st) \subseteq TablesOf(st2) /\ (stmt.op = "create" => stmt.table \in TablesOf(st2))
    BY <2>5, <2>6 DEF TablesOf
  <2>8. StoreOk(st2)
    BY <2>3, <2>5 DEF StoreOk
  <2> QED BY <1>0, <2>1, <2>3, <2>5, <2>7, <2>8 DEF ContextOk
<1>5. CASE stmt.op # "memory" /\ ~Fails(Target(c), stmt) /\ c.ctx # Root
  <2> DEFINE m0 == c.ctx
             block == Execute(st.memories[m0], stmt)
             st2 == [st EXCEPT !.memories[m0] = block]
  <2>0. m0 \in DOMAIN st.memories
    BY <1>0, <1>5
  <2>1. c2 = [store |-> st2, ctx |-> c.ctx, failed |-> c.failed]
    BY <1>0, <1>5 DEF ExecuteInContext, IsClient
  <2>2. ~Fails(st.memories[m0], stmt)
    BY <1>5 DEF Target
  <2>3. /\ BlockOk(block)
        /\ block.tables = IF stmt.op = "create" THEN Put(st.memories[m0].tables, stmt.table, stmt.dim)
                          ELSE st.memories[m0].tables
    BY <1>1, <2>0, <2>2, ExecuteBlock DEF BlockOk
  <2> HIDE DEF block
  <2>4. /\ IsStore(st2) /\ st2.history = st.history /\ st2.tables = st.tables
        /\ st2.vector_dims = st.vector_dims
        /\ IsMap(st2.memories) /\ DOMAIN st2.memories = DOMAIN st.memories
        /\ \A m \in DOMAIN st.memories : st2.memories[m] = IF m = m0 THEN block ELSE st.memories[m]
    BY <1>1, <2>0 DEF IsStore, IsMap, Parts
  <2> HIDE DEF st2
  <2>5. Shaped(st2) /\ \A t : Told(t, st) => Told(t, st2)
    BY <1>1, <2>4 DEF Shaped, Told
  <2>6. StoreOk(st2)
    BY <1>1, <2>3, <2>4, <2>5 DEF StoreOk
  <2>7. DOMAIN st.memories[m0].tables \subseteq DOMAIN block.tables /\ (stmt.op = "create" => stmt.table \in DOMAIN block.tables)
    BY <2>3 DEF Put
  <2>8. TablesOf(st) \subseteq TablesOf(st2) /\ (stmt.op = "create" => stmt.table \in TablesOf(st2))
    BY <2>0, <2>4, <2>7 DEF TablesOf
  <2> QED BY <1>0, <2>0, <2>1, <2>4, <2>5, <2>6, <2>8 DEF ContextOk
<1> QED BY <1>2, <1>3, <1>4, <1>5

(***************************************************************************)
(* The folds over a plan.                                                  *)
(***************************************************************************)

IsLogged(stmt) == stmt.op \in Mutations \cup {"prune", "memory"}
IsCreateStmt(stmt) == stmt.op = "create"

Record(map, creates) == FoldLeft(LAMBDA known, stmt : Put(known, stmt.table, stmt.dim), map, creates)

\* The replay of frames onto a store.
Replay(st, frames) == FoldLeft(ExecuteInContext, AtRoot(st), frames)

Replaying(none, c, stmt) == ExecuteInContext(c, stmt)
KeepingLogged(none, kept, stmt) == IF IsLogged(stmt) THEN Append(kept, stmt) ELSE kept
KeepingCreates(none, kept, stmt) == IF IsCreateStmt(stmt) THEN Append(kept, stmt) ELSE kept
Recording(none, map, stmt) == Put(map, stmt.table, stmt.dim)
Analyzing(none, ctx, stmt) == AnalyzeStatement(ctx, stmt)

FrameFold == INSTANCE Folding WITH Op <- Replaying
LoggedFold == INSTANCE Folding WITH Op <- KeepingLogged
CreatesFold == INSTANCE Folding WITH Op <- KeepingCreates
RecordFold == INSTANCE Folding WITH Op <- Recording
AnalyzeFold == INSTANCE Folding WITH Op <- Analyzing

\* The frames of the log run one by one, a failure or not.
LEMMA FrameEquations ==
    /\ \A st : Replay(st, <<>>) = AtRoot(st)
    /\ \A st, q, x : IsSeq(q) => Replay(st, Append(q, x)) = ExecuteInContext(Replay(st, q), x)
<1>1. \A st, q : Replay(st, q) = FrameFold!Fold(0, AtRoot(st), q)
  BY DEF Replay, Replaying, ExecuteInContext, FoldLeft, MapThenFoldSet, Max,
        FrameFold!Fold, FrameFold!FoldLeft, FrameFold!MapThenFoldSet, FrameFold!Max
<1>2. ASSUME NEW st, NEW q, NEW x, IsSeq(q)
      PROVE  Replay(st, Append(q, x)) = ExecuteInContext(Replay(st, q), x)
  <2>1. q \in Seq(Range(q) \cup {x}) /\ x \in Range(q) \cup {x}
    BY <1>2 DEF IsSeq
  <2>2. FrameFold!Fold(0, AtRoot(st), Append(q, x)) = Replaying(0, FrameFold!Fold(0, AtRoot(st), q), x)
    BY <2>1, FrameFold!FoldAppend
  <2> QED BY <1>1, <2>2 DEF Replaying
<1>3. \A st : FrameFold!Fold(0, AtRoot(st), <<>>) = AtRoot(st)
  BY FrameFold!FoldEmpty
<1> QED BY <1>1, <1>2, <1>3

\* The statements of a plan that are logged.
LEMMA LoggedEquations ==
    /\ Logged(<<>>) = <<>>
    /\ \A q, x : IsSeq(q) => Logged(Append(q, x)) = IF IsLogged(x) THEN Append(Logged(q), x) ELSE Logged(q)
<1>1. \A q : Logged(q) = LoggedFold!Fold(0, <<>>, q)
  BY DEF Logged, Retain, KeepingLogged, IsLogged, FoldLeft, MapThenFoldSet, Max,
        LoggedFold!Fold, LoggedFold!FoldLeft, LoggedFold!MapThenFoldSet, LoggedFold!Max
<1>2. ASSUME NEW q, NEW x, IsSeq(q)
      PROVE  Logged(Append(q, x)) = IF IsLogged(x) THEN Append(Logged(q), x) ELSE Logged(q)
  <2>1. q \in Seq(Range(q) \cup {x}) /\ x \in Range(q) \cup {x}
    BY <1>2 DEF IsSeq
  <2>2. LoggedFold!Fold(0, <<>>, Append(q, x)) = KeepingLogged(0, LoggedFold!Fold(0, <<>>, q), x)
    BY <2>1, LoggedFold!FoldAppend
  <2> QED BY <1>1, <2>2 DEF KeepingLogged
<1>3. LoggedFold!Fold(0, <<>>, <<>>) = <<>>
  BY LoggedFold!FoldEmpty
<1> QED BY <1>1, <1>2, <1>3

\* The declarations of a plan.
LEMMA CreatesEquations ==
    /\ Creates(<<>>) = <<>>
    /\ \A q, x : IsSeq(q) => Creates(Append(q, x)) = IF IsCreateStmt(x) THEN Append(Creates(q), x) ELSE Creates(q)
<1>1. \A q : Creates(q) = CreatesFold!Fold(0, <<>>, q)
  BY DEF Creates, Retain, KeepingCreates, IsCreateStmt, FoldLeft, MapThenFoldSet, Max,
        CreatesFold!Fold, CreatesFold!FoldLeft, CreatesFold!MapThenFoldSet, CreatesFold!Max
<1>2. ASSUME NEW q, NEW x, IsSeq(q)
      PROVE  Creates(Append(q, x)) = IF IsCreateStmt(x) THEN Append(Creates(q), x) ELSE Creates(q)
  <2>1. q \in Seq(Range(q) \cup {x}) /\ x \in Range(q) \cup {x}
    BY <1>2 DEF IsSeq
  <2>2. CreatesFold!Fold(0, <<>>, Append(q, x)) = KeepingCreates(0, CreatesFold!Fold(0, <<>>, q), x)
    BY <2>1, CreatesFold!FoldAppend
  <2> QED BY <1>1, <2>2 DEF KeepingCreates
<1>3. CreatesFold!Fold(0, <<>>, <<>>) = <<>>
  BY CreatesFold!FoldEmpty
<1> QED BY <1>1, <1>2, <1>3

\* Declarations are recorded one after the other.
LEMMA RecordEquations ==
    /\ \A map : Record(map, <<>>) = map
    /\ \A map, q, x : IsSeq(q) => Record(map, Append(q, x)) = Put(Record(map, q), x.table, x.dim)
<1>1. \A map, q : Record(map, q) = RecordFold!Fold(0, map, q)
  BY DEF Record, Recording, FoldLeft, MapThenFoldSet, Max,
        RecordFold!Fold, RecordFold!FoldLeft, RecordFold!MapThenFoldSet, RecordFold!Max
<1>2. ASSUME NEW map, NEW q, NEW x, IsSeq(q)
      PROVE  Record(map, Append(q, x)) = Put(Record(map, q), x.table, x.dim)
  <2>1. q \in Seq(Range(q) \cup {x}) /\ x \in Range(q) \cup {x}
    BY <1>2 DEF IsSeq
  <2>2. RecordFold!Fold(0, map, Append(q, x)) = Recording(0, RecordFold!Fold(0, map, q), x)
    BY <2>1, RecordFold!FoldAppend
  <2> QED BY <1>1, <2>2 DEF Recording
<1>3. \A map : RecordFold!Fold(0, map, <<>>) = map
  BY RecordFold!FoldEmpty
<1> QED BY <1>1, <1>2, <1>3

\* The analyzer goes through a plan statement by statement.
LEMMA AnalyzeEquations ==
    /\ Analyze(<<>>) = NewCtx
    /\ \A q, x : IsSeq(q) => Analyze(Append(q, x)) = AnalyzeStatement(Analyze(q), x)
<1>1. \A q : Analyze(q) = AnalyzeFold!Fold(0, NewCtx, q)
  BY DEF Analyze, Analyzing, AnalyzeStatement, FoldLeft, MapThenFoldSet, Max,
        AnalyzeFold!Fold, AnalyzeFold!FoldLeft, AnalyzeFold!MapThenFoldSet, AnalyzeFold!Max
<1>2. ASSUME NEW q, NEW x, IsSeq(q)
      PROVE  Analyze(Append(q, x)) = AnalyzeStatement(Analyze(q), x)
  <2>1. q \in Seq(Range(q) \cup {x}) /\ x \in Range(q) \cup {x}
    BY <1>2 DEF IsSeq
  <2>2. AnalyzeFold!Fold(0, NewCtx, Append(q, x)) = Analyzing(0, AnalyzeFold!Fold(0, NewCtx, q), x)
    BY <2>1, AnalyzeFold!FoldAppend
  <2> QED BY <1>1, <2>2 DEF Analyzing
<1>3. AnalyzeFold!Fold(0, NewCtx, <<>>) = NewCtx
  BY AnalyzeFold!FoldEmpty
<1> QED BY <1>1, <1>2, <1>3

(***************************************************************************)
(* Plans.                                                                  *)
(***************************************************************************)

\* What is kept of a plan is a sequence.
LEMMA KeptAreSequences ==
    ASSUME NEW plan, IsSeq(plan)
    PROVE  IsSeq(Creates(plan)) /\ IsSeq(Logged(plan))
<1> DEFINE E == Range(plan)
           good == {r \in Seq(E) : Creates(r) \in Seq(E) /\ Logged(r) \in Seq(E)}
<1>1. <<>> \in good
  <2>1. <<>> \in Seq(E)
    OBVIOUS
  <2> QED BY <2>1, CreatesEquations, LoggedEquations
<1>2. ASSUME NEW r \in good, NEW x \in E PROVE Append(r, x) \in good
  <2>1. IsSeq(r) /\ Append(r, x) \in Seq(E)
    BY DEF IsSeq, Range
  <2>2. Creates(r) \in Seq(E) /\ Logged(r) \in Seq(E)
    OBVIOUS
  <2>3. Append(Creates(r), x) \in Seq(E) /\ Append(Logged(r), x) \in Seq(E)
    BY <2>2
  <2> QED BY <2>1, <2>2, <2>3, CreatesEquations, LoggedEquations
<1> HIDE DEF good, E
<1>3. plan \in Seq(E)
  BY DEF IsSeq, E
<1>4. plan \in good
  BY <1>1, <1>2, <1>3, PlanFold!SeqInduction
<1>5. Creates(plan) \in Seq(E) /\ Logged(plan) \in Seq(E)
  BY <1>4 DEF good
<1> QED BY <1>5 DEF IsSeq, Range

\* The tables of a plan, and what recording them makes of those known.
LEMMA RecordedGrows ==
    ASSUME NEW plan, IsSeq(plan), NEW x
    PROVE  /\ Redeclared(<<>>) = {}
           /\ Redeclared(Append(plan, x)) = Redeclared(plan) \cup (IF IsCreateStmt(x) THEN {x.table} ELSE {})
           /\ \A known : Recorded(known, <<>>) = known
           /\ \A known : Recorded(known, Append(plan, x)) =
                            IF IsCreateStmt(x) THEN Put(Recorded(known, plan), x.table, x.dim)
                            ELSE Recorded(known, plan)
<1>1. \A known, q : Recorded(known, q) = Record(known, Creates(q))
  BY DEF Recorded, Record
<1>2. IsSeq(Creates(plan))
  BY KeptAreSequences
<1>3. Range(Append(Creates(plan), x)) = Range(Creates(plan)) \cup {x}
  <2> DEFINE q == Creates(plan)
  <2> HIDE DEF q
  <2>1. /\ DOMAIN q = 1..Len(q) /\ Len(q) \in Nat
        /\ DOMAIN Append(q, x) = 1..(Len(q) + 1)
        /\ Append(q, x)[Len(q) + 1] = x /\ \A i \in 1..Len(q) : Append(q, x)[i] = q[i]
    BY <1>2, AppendFacts, SeqFacts DEF q
  <2>2. \A i \in 1..(Len(q) + 1) : i \in 1..Len(q) \/ i = Len(q) + 1
    BY <2>1
  <2>3. \A i \in 1..Len(q) : i \in 1..(Len(q) + 1)
    BY <2>1
  <2>4. Len(q) + 1 \in 1..(Len(q) + 1)
    BY <2>1
  <2> QED BY <2>1, <2>2, <2>3, <2>4 DEF Range, q
<1>4. Range(<<>>) = {}
  BY DEF Range
<1>5. Redeclared(<<>>) = {}
  BY <1>4, CreatesEquations DEF Redeclared
<1>6. Redeclared(Append(plan, x)) = Redeclared(plan) \cup (IF IsCreateStmt(x) THEN {x.table} ELSE {})
  <2> DEFINE q == Creates(plan)
  <2>1. {stmt.table : stmt \in Range(q) \cup {x}} = {stmt.table : stmt \in Range(q)} \cup {x.table}
    OBVIOUS
  <2>2. Creates(Append(plan, x)) = IF IsCreateStmt(x) THEN Append(q, x) ELSE q
    BY CreatesEquations
  <2> QED BY <1>3, <2>1, <2>2 DEF Redeclared
<1>7. \A known : Recorded(known, <<>>) = known
  BY <1>1, CreatesEquations, RecordEquations
<1>8. ASSUME NEW known
      PROVE  Recorded(known, Append(plan, x)) = IF IsCreateStmt(x) THEN Put(Recorded(known, plan), x.table, x.dim)
                                                ELSE Recorded(known, plan)
  <2>1. Creates(Append(plan, x)) = IF IsCreateStmt(x) THEN Append(Creates(plan), x) ELSE Creates(plan)
    BY CreatesEquations
  <2>2. Record(known, Append(Creates(plan), x)) = Put(Record(known, Creates(plan)), x.table, x.dim)
    BY <1>2, RecordEquations
  <2> QED BY <1>1, <2>1, <2>2
<1> QED BY <1>5, <1>6, <1>7, <1>8

\* Recording the tables of a plan.
LEMMA RecordedDomain ==
    ASSUME NEW plan, IsSeq(plan), NEW known
    PROVE  DOMAIN Recorded(known, plan) = DOMAIN known \cup Redeclared(plan)
<1> DEFINE E == Range(plan)
           good == {r \in Seq(E) : DOMAIN Recorded(known, r) = DOMAIN known \cup Redeclared(r)}
<1>1. <<>> \in good
  <2>1. <<>> \in Seq(E) /\ IsSeq(<<>>)
    BY EmptyFacts
  <2> QED BY <2>1, RecordedGrows
<1>2. ASSUME NEW r \in good, NEW x \in E PROVE Append(r, x) \in good
  <2>1. IsSeq(r) /\ Append(r, x) \in Seq(E)
    BY DEF IsSeq, Range
  <2>2. DOMAIN Recorded(known, r) = DOMAIN known \cup Redeclared(r)
    OBVIOUS
  <2>3. IsCreateStmt(x) => DOMAIN Recorded(known, Append(r, x)) = DOMAIN Recorded(known, r) \cup {x.table}
    <3>1. IsCreateStmt(x) => Recorded(known, Append(r, x)) = Put(Recorded(known, r), x.table, x.dim)
      BY <2>1, RecordedGrows
    <3> QED BY <3>1 DEF Put
  <2>4. ~IsCreateStmt(x) => Recorded(known, Append(r, x)) = Recorded(known, r)
    BY <2>1, RecordedGrows
  <2>5. Redeclared(Append(r, x)) = Redeclared(r) \cup (IF IsCreateStmt(x) THEN {x.table} ELSE {})
    BY <2>1, RecordedGrows
  <2> QED BY <2>1, <2>2, <2>3, <2>4, <2>5
<1> HIDE DEF good, E
<1>3. plan \in Seq(E)
  BY DEF IsSeq, E
<1>4. plan \in good
  BY <1>1, <1>2, <1>3, PlanFold!SeqInduction
<1> QED BY <1>4 DEF good

\* At the root of a store without memories the tables are the declared ones.
LEMMA RootStatement ==
    ASSUME NEW c, ContextOk(c), NEW stmt, IsClient(stmt), c.ctx = Root,
           ~ExecuteInContext(c, stmt).failed, DOMAIN ExecuteInContext(c, stmt).store.memories = {}
    PROVE  LET c2 == ExecuteInContext(c, stmt)
           IN  /\ c2.ctx = Root
               /\ c2.store.tables = IF IsCreateStmt(stmt) THEN Put(c.store.tables, stmt.table, stmt.dim)
                                    ELSE c.store.tables
<1> DEFINE c2 == ExecuteInContext(c, stmt)
           st == c.store
<1>0. /\ c = [store |-> st, ctx |-> c.ctx, failed |-> c.failed]
      /\ Shaped(st) /\ IsStore(st) /\ IsMap(st.memories)
  BY DEF ContextOk, StoreOk, Shaped
<1>1. stmt.op # "memory"
  <2> SUFFICES ASSUME stmt.op = "memory" PROVE FALSE
    OBVIOUS
  <2> DEFINE blocks == IF stmt.name \in DOMAIN st.memories THEN st.memories
                       ELSE Put(st.memories, stmt.name, EmptyStore)
             st2 == [st EXCEPT !.memories = blocks]
  <2>1. c2 = [store |-> st2, ctx |-> stmt.name, failed |-> c.failed]
    BY <1>0 DEF ExecuteInContext, IsStore, IsMap, Parts
  <2>2. stmt.name \in DOMAIN blocks
    BY DEF Put
  <2>3. st2.memories = blocks
    BY <1>0 DEF IsStore, IsMap, Parts
  <2> HIDE DEF blocks, st2
  <2>4. c2.store.memories = blocks
    BY <2>1, <2>3
  <2> QED BY <2>2, <2>4
<1>2. ~Fails(st, stmt)
  <2> SUFFICES ASSUME Fails(st, stmt) PROVE FALSE
    OBVIOUS
  <2>1. c2 = [store |-> st, ctx |-> c.ctx, failed |-> TRUE]
    BY <1>0, <1>1 DEF ExecuteInContext, IsClient, Target
  <2> QED BY <2>1
<1>3. c2 = [store |-> Execute(st, stmt), ctx |-> c.ctx, failed |-> c.failed]
  BY <1>0, <1>1, <1>2 DEF ExecuteInContext, IsClient, Target
<1>4. Execute(st, stmt).tables = IF stmt.op = "create" THEN Put(st.tables, stmt.table, stmt.dim) ELSE st.tables
  BY <1>0, <1>2, ExecuteBlock
<1> QED BY <1>3, <1>4 DEF IsCreateStmt

\* What a plan has done to a store st when it is over or has failed.
PlanRuns(st, plan) ==
    LET c == ExecutePlan(st, plan)
    IN  /\ ContextOk(c)
        /\ TablesOf(st) \subseteq TablesOf(c.store)
        /\ DOMAIN st.memories \subseteq DOMAIN c.store.memories
        /\ ~c.failed => Redeclared(plan) \subseteq TablesOf(c.store)
        /\ ~c.failed /\ DOMAIN c.store.memories = {} =>
              c.ctx = Root /\ c.store.tables = Recorded(st.tables, plan)
        /\ \A t : Told(t, st) => Told(t, c.store)

\* What its frames do to a store, the same or another.
FramesRun(st, plan) ==
    LET c == Replay(st, Logged(plan))
    IN  /\ ContextOk(c)
        /\ TablesOf(st) \subseteq TablesOf(c.store)
        /\ Redeclared(plan) \subseteq TablesOf(c.store)
        /\ \A t : Told(t, st) => Told(t, c.store)

\* They do to disk what the plan has done to st, unless it has failed.
FramesAgree(st, plan, image) ==
    LET c == ExecutePlan(st, plan)
        e == Replay(image, Logged(plan))
    IN  ~c.failed => ~e.failed /\ Alike(c, e)

\* A plan starts at the root of a store that is in order.
LEMMA StartOk ==
    ASSUME NEW st, StoreOk(st)
    PROVE  ContextOk(AtRoot(st)) /\ AtRoot(st).store = st /\ AtRoot(st).ctx = Root /\ ~AtRoot(st).failed
BY DEF ContextOk, AtRoot

\* One more statement in a plan.
LEMMA PlanStep ==
    ASSUME NEW st, NEW r, IsSeq(r), PlanRuns(st, r), NEW x, IsClient(x)
    PROVE  PlanRuns(st, Append(r, x))
<1> DEFINE c == ExecutePlan(st, r)
           c2 == ExecuteInContext(c, x)
           r2 == Append(r, x)
<1>1. /\ ContextOk(c) /\ TablesOf(st) \subseteq TablesOf(c.store)
      /\ DOMAIN st.memories \subseteq DOMAIN c.store.memories
      /\ ~c.failed => Redeclared(r) \subseteq TablesOf(c.store)
      /\ ~c.failed /\ DOMAIN c.store.memories = {} =>
            c.ctx = Root /\ c.store.tables = Recorded(st.tables, r)
      /\ \A t : Told(t, st) => Told(t, c.store)
  BY DEF PlanRuns
<1>2. ExecutePlan(st, r2) = IF c.failed THEN c ELSE c2
  BY PlanEquations
<1>3. CASE c.failed
  BY <1>1, <1>2, <1>3 DEF PlanRuns
<1>4. CASE ~c.failed
  <2>1. /\ ContextOk(c2) /\ TablesOf(c.store) \subseteq TablesOf(c2.store)
        /\ DOMAIN c.store.memories \subseteq DOMAIN c2.store.memories
        /\ x.op = "create" => x.table \in TablesOf(c2.store)
        /\ \A t : Told(t, c.store) => Told(t, c2.store)
    BY <1>1, StatementRuns
  <2>2. Redeclared(r2) = Redeclared(r) \cup (IF IsCreateStmt(x) THEN {x.table} ELSE {})
    BY RecordedGrows
  <2>3. Redeclared(r2) \subseteq TablesOf(c2.store)
    BY <1>1, <1>4, <2>1, <2>2 DEF IsCreateStmt
  <2>4. ASSUME ~c2.failed, DOMAIN c2.store.memories = {}
        PROVE  c2.ctx = Root /\ c2.store.tables = Recorded(st.tables, r2)
    <3>1. c.ctx = Root /\ c.store.tables = Recorded(st.tables, r)
      BY <1>1, <1>4, <2>1, <2>4
    <3>2. /\ c2.ctx = Root
          /\ c2.store.tables = IF IsCreateStmt(x) THEN Put(c.store.tables, x.table, x.dim) ELSE c.store.tables
      BY <1>1, <2>4, <3>1, RootStatement
    <3>3. Recorded(st.tables, r2) = IF IsCreateStmt(x) THEN Put(Recorded(st.tables, r), x.table, x.dim)
                                    ELSE Recorded(st.tables, r)
      BY RecordedGrows
    <3> QED BY <3>1, <3>2, <3>3
  <2>5. ExecutePlan(st, r2) = c2
    BY <1>2, <1>4
  <2>6. /\ TablesOf(st) \subseteq TablesOf(c2.store) /\ DOMAIN st.memories \subseteq DOMAIN c2.store.memories
        /\ \A t : Told(t, st) => Told(t, c2.store)
    BY <1>1, <2>1
  <2> HIDE DEF c, c2
  <2> QED BY <2>1, <2>3, <2>4, <2>5, <2>6 DEF PlanRuns
<1> QED BY <1>3, <1>4

\* A statement that is not logged changes nothing unless it fails.
LEMMA UnloggedKeepsContext ==
    ASSUME NEW c, ContextOk(c), NEW x, IsClient(x), ~IsLogged(x), ~ExecuteInContext(c, x).failed
    PROVE  ExecuteInContext(c, x) = c
<1> DEFINE st == c.store
<1>0. /\ c = [store |-> st, ctx |-> c.ctx, failed |-> c.failed]
      /\ IsStore(st) /\ IsMap(st.memories) /\ c.ctx \in {Root} \cup DOMAIN st.memories
  BY DEF ContextOk, StoreOk, Shaped
<1>1. x.op \notin {"memory", "reset", "prune", "snapshot"} \cup Mutations
  BY DEF IsLogged, IsClient
<1>2. \A b : Execute(b, x) = b
  BY <1>1 DEF Execute, Mutations
<1>3. CASE Fails(Target(c), x)
  <2>1. ExecuteInContext(c, x) = [c EXCEPT !.failed = TRUE]
    BY <1>1, <1>3 DEF ExecuteInContext
  <2>2. [c EXCEPT !.failed = TRUE].failed = TRUE
    BY <1>0
  <2> QED BY <2>1, <2>2
<1>4. CASE ~Fails(Target(c), x) /\ c.ctx = Root
  <2>1. ExecuteInContext(c, x) = [c EXCEPT !.store = st]
    BY <1>1, <1>2, <1>4 DEF ExecuteInContext
  <2> QED BY <1>0, <2>1
<1>5. CASE ~Fails(Target(c), x) /\ c.ctx # Root
  <2>1. ExecuteInContext(c, x) = [c EXCEPT !.store.memories[c.ctx] = st.memories[c.ctx]]
    BY <1>1, <1>2, <1>5 DEF ExecuteInContext
  <2>2. [st EXCEPT !.memories[c.ctx] = st.memories[c.ctx]] = st
    BY <1>0 DEF IsStore, IsMap, Parts
  <2> QED BY <1>0, <2>1, <2>2
<1> QED BY <1>3, <1>4, <1>5

\* One more statement in a plan that is replayed.
LEMMA FrameStep ==
    ASSUME NEW st, NEW r, IsSeq(r), FramesRun(st, r), NEW x, IsClient(x)
    PROVE  FramesRun(st, Append(r, x))
<1> DEFINE c == Replay(st, Logged(r))
           r2 == Append(r, x)
           c2 == Replay(st, Logged(r2))
<1>1. /\ ContextOk(c) /\ TablesOf(st) \subseteq TablesOf(c.store)
      /\ Redeclared(r) \subseteq TablesOf(c.store)
      /\ \A t : Told(t, st) => Told(t, c.store)
  BY DEF FramesRun
<1>2. Redeclared(r2) = Redeclared(r) \cup (IF IsCreateStmt(x) THEN {x.table} ELSE {})
  BY RecordedGrows
<1>3. CASE IsLogged(x)
  <2>1. c2 = ExecuteInContext(c, x)
    <3>1. Logged(r2) = Append(Logged(r), x) /\ IsSeq(Logged(r))
      BY <1>3, LoggedEquations, KeptAreSequences
    <3> QED BY <3>1, FrameEquations
  <2>2. /\ ContextOk(c2) /\ TablesOf(c.store) \subseteq TablesOf(c2.store)
        /\ x.op = "create" => x.table \in TablesOf(c2.store)
        /\ \A t : Told(t, c.store) => Told(t, c2.store)
    BY <1>1, <2>1, StatementRuns
  <2>3. Redeclared(r2) \subseteq TablesOf(c2.store)
    BY <1>1, <1>2, <2>2 DEF IsCreateStmt
  <2>4. TablesOf(st) \subseteq TablesOf(c2.store) /\ \A t : Told(t, st) => Told(t, c2.store)
    BY <1>1, <2>2
  <2> HIDE DEF c, r2
  <2> QED BY <2>2, <2>3, <2>4 DEF FramesRun, r2
<1>4. CASE ~IsLogged(x)
  <2>1. c2 = c /\ ~IsCreateStmt(x)
    BY <1>4, LoggedEquations DEF IsLogged, IsCreateStmt, Mutations
  <2>2. Redeclared(r2) \subseteq TablesOf(c2.store)
    BY <1>1, <1>2, <2>1
  <2> HIDE DEF c, r2
  <2> QED BY <1>1, <2>1, <2>2 DEF FramesRun, r2
<1> QED BY <1>3, <1>4

\* A context of a plan is one of a recovery.
LEMMA ContextsRun == ASSUME NEW c, ContextOk(c) PROVE RunOk(c)
BY DEF ContextOk, RunOk, StoreOk, MemoriesOk, Shaped

\* One more statement in a plan that does not fail, beside its replay.
LEMMA AgreeStep ==
    ASSUME NEW st, NEW image, NEW r, IsSeq(r), PlanRuns(st, r), FramesRun(image, r),
           FramesAgree(st, r, image), NEW x, IsClient(x)
    PROVE  FramesAgree(st, Append(r, x), image)
<1> DEFINE c == ExecutePlan(st, r)
           e == Replay(image, Logged(r))
           r2 == Append(r, x)
           c2 == ExecutePlan(st, r2)
           e2 == Replay(image, Logged(r2))
<1>1. ContextOk(c) /\ ContextOk(e) /\ (~c.failed => ~e.failed /\ Alike(c, e))
  BY DEF PlanRuns, FramesRun, FramesAgree
<1>2. c2 = IF c.failed THEN c ELSE ExecuteInContext(c, x)
  BY PlanEquations
<1> SUFFICES ASSUME ~c2.failed PROVE ~e2.failed /\ Alike(c2, e2)
  BY DEF FramesAgree
<1>3. ~c.failed /\ c2 = ExecuteInContext(c, x) /\ ~e.failed /\ Alike(c, e)
  BY <1>1, <1>2
<1>4. CASE IsLogged(x)
  <2>1. e2 = ExecuteInContext(e, x)
    <3>1. Logged(r2) = Append(Logged(r), x) /\ IsSeq(Logged(r))
      BY <1>4, LoggedEquations, KeptAreSequences
    <3> QED BY <3>1, FrameEquations
  <2>2. RunOk(c) /\ RunOk(e) /\ x.op \notin TemporalReads
    BY <1>1, <1>4, ContextsRun DEF IsLogged, Mutations, TemporalReads
  <2> HIDE DEF c, e, c2, e2
  <2>3. /\ Alike(ExecuteInContext(c, x), ExecuteInContext(e, x))
        /\ ExecuteInContext(c, x).failed <=> ExecuteInContext(e, x).failed
    BY <1>3, <2>2, AlikeStep
  <2> QED BY <1>3, <2>1, <2>3
<1>5. CASE ~IsLogged(x)
  <2>1. e2 = e
    BY <1>5, LoggedEquations
  <2>2. c2 = c
    BY <1>1, <1>3, <1>5, UnloggedKeepsContext
  <2> QED BY <1>3, <2>1, <2>2
<1> QED BY <1>4, <1>5

\* Every plan, to its end.
LEMMA PlanFacts ==
    ASSUME NEW st, StoreOk(st), NEW plan, IsPlan(plan), NEW image, StoreOk(image)
    PROVE  /\ PlanRuns(st, plan) /\ FramesRun(image, plan)
           /\ Twins(st, image) => FramesAgree(st, plan, image)
<1> DEFINE E == Range(plan)
           Runs(r) == /\ PlanRuns(st, r) /\ FramesRun(image, r)
                      /\ Twins(st, image) => FramesAgree(st, r, image)
           good == {r \in Seq(E) : Runs(r)}
<1>1. <<>> \in good
  <2>1. <<>> \in Seq(E) /\ IsSeq(<<>>)
    BY EmptyFacts
  <2>2. ExecutePlan(st, <<>>) = AtRoot(st) /\ Replay(image, Logged(<<>>)) = AtRoot(image)
    BY PlanEquations, FrameEquations, LoggedEquations
  <2>3. Redeclared(<<>>) = {} /\ Recorded(st.tables, <<>>) = st.tables
    BY <2>1, RecordedGrows
  <2>4. PlanRuns(st, <<>>) /\ FramesRun(image, <<>>)
    BY <2>2, <2>3, StartOk DEF PlanRuns, FramesRun
  <2>5. Twins(st, image) => FramesAgree(st, <<>>, image)
    BY <2>2, StartOk DEF FramesAgree, Alike
  <2> QED BY <2>1, <2>4, <2>5
<1>2. ASSUME NEW r \in good, NEW x \in E PROVE Append(r, x) \in good
  <2>1. IsSeq(r) /\ Append(r, x) \in Seq(E) /\ Runs(r)
    BY DEF IsSeq, Range
  <2>2. IsClient(x)
    <3>1. DOMAIN plan = 1..Len(plan)
      BY SeqFacts DEF IsPlan
    <3> QED BY <3>1 DEF IsPlan, Range
  <2>3. PlanRuns(st, Append(r, x))
    BY <2>1, <2>2, PlanStep
  <2>4. FramesRun(image, Append(r, x))
    BY <2>1, <2>2, FrameStep
  <2>5. Twins(st, image) => FramesAgree(st, Append(r, x), image)
    BY <2>1, <2>2, AgreeStep
  <2> QED BY <2>1, <2>3, <2>4, <2>5
<1> HIDE DEF good, E
<1>3. plan \in Seq(E)
  BY DEF IsPlan, IsSeq, E
<1>4. plan \in good
  BY <1>1, <1>2, <1>3, PlanFold!SeqInduction
<1> QED BY <1>4 DEF good

(***************************************************************************)
(* The plans the programs run.                                             *)
(***************************************************************************)

\* A plan of one statement, and of two.
LEMMA ShortPlans ==
    ASSUME NEW x, IsClient(x)
    PROVE  /\ IsPlan(<<x>>) /\ IsPlan(<<>> \o <<x>>)
           /\ \A y : IsClient(y) => IsPlan(<<y>> \o <<x>>)
<1>1. IsPlan(<<x>>)
  BY DEF IsPlan, IsSeq, Range
<1>2. <<>> \o <<x>> = <<x>>
  OBVIOUS
<1>3. ASSUME NEW y, IsClient(y) PROVE IsPlan(<<y>> \o <<x>>)
  <2> DEFINE r == <<y>> \o <<x>>
             S == {x, y}
  <2>1. <<y>> \in Seq(S) /\ <<x>> \in Seq(S)
    OBVIOUS
  <2>2. Len(<<y>>) = 1 /\ Len(<<x>>) = 1 /\ <<y>>[1] = y /\ <<x>>[1] = x
    OBVIOUS
  <2> HIDE DEF S
  <2>3. r \in Seq(S) /\ Len(r) = 2 /\ r[1] = y /\ r[2] = x
    BY <2>1, <2>2
  <2> HIDE DEF r
  <2>4. IsSeq(r)
    <3>1. r \in Seq(S)
      BY <2>3
    <3> QED BY <3>1 DEF IsSeq, Range
  <2>5. \A i \in 1..Len(r) : i = 1 \/ i = 2
    BY <2>3
  <2> QED BY <1>3, <2>3, <2>4, <2>5 DEF IsPlan, r
<1> QED BY <1>1, <1>2, <1>3

\* What a line or a tool runs is a plan of statements a client can write.
LEMMA LinesArePlans == \A line \in Lines : IsPlan(line)
<1> SUFFICES ASSUME NEW line \in Lines PROVE IsPlan(line)
  OBVIOUS
<1>1. line \in Seq(Range(line)) /\ \A i \in DOMAIN line : line[i].op \notin {"snapshot", "reset"}
  BY LinesAssumption
<1>2. IsSeq(line)
  BY <1>1 DEF IsSeq
<1>3. DOMAIN line = 1..Len(line)
  BY <1>2, SeqFacts
<1> QED BY <1>1, <1>2, <1>3 DEF IsPlan, IsClient

\* The plans of the tools and of the REPL are plans of clients.
LEMMA CallsArePlans == \A plan \in CalledPlans : IsPlan(plan)
<1>1. \A table, dim : IsPlan(CreateTable(table, dim))
  BY ShortPlans DEF CreateTable, IsClient
<1>2. \A id, emb : IsPlan(InsertRecord(id, emb))
  BY ShortPlans DEF InsertRecord, IsClient
<1>3. \A from, to : IsPlan(RelateRecords(from, to))
  BY ShortPlans DEF RelateRecords, IsClient
<1>4. \A id : IsPlan(ForgetRecord(id))
  BY ShortPlans DEF ForgetRecord, IsClient
<1>a. ASSUME NEW id, NEW as_of PROVE IsPlan(MatchPath(id, as_of))
  <2> DEFINE x == IF as_of = <<>> THEN [op |-> "match", id |-> id]
                  ELSE [op |-> "match_as_of", id |-> id, ts |-> as_of[1]]
  <2>1. IsClient(x) /\ MatchPath(id, as_of) = <<x>>
    BY DEF IsClient, MatchPath
  <2> HIDE DEF x
  <2> QED BY <2>1, ShortPlans
<1>5. ASSUME NEW table, NEW memory, NEW order, NEW as_of
      PROVE  IsPlan(SelectRows(table, memory, order, as_of))
  <2> DEFINE x == IF as_of = <<>> THEN [op |-> "select", table |-> table, order |-> order, knn |-> FALSE]
                  ELSE [op |-> "as_of", table |-> table, order |-> order, knn |-> FALSE, ts |-> as_of[1]]
             y == [op |-> "memory", name |-> memory]
  <2>1. IsClient(x) /\ IsClient(y)
    BY DEF IsClient
  <2>2. SelectRows(table, memory, order, as_of) = IF memory = Root THEN <<>> \o <<x>> ELSE <<y>> \o <<x>>
    BY DEF SelectRows
  <2> HIDE DEF x, y
  <2> QED BY <2>1, <2>2, ShortPlans
<1>6. \A id, body, emb : \A plan \in InsertTool(id, body, emb) : IsPlan(plan)
  BY <1>2 DEF InsertTool
<1>7. \A from, to, props : \A plan \in RelateTool(from, to, props) : IsPlan(plan)
  BY <1>3 DEF RelateTool
<1>8. /\ \A id : \A plan \in ForgetTool(id) : IsPlan(plan)
      /\ \A start, steps, as_of : \A plan \in MatchTool(start, steps, as_of) : IsPlan(plan)
  BY <1>4, <1>a DEF ForgetTool, MatchTool
<1>9. \A table, memory, query, order, as_of :
         \A plan \in SelectTool(table, memory, query, order, as_of) : IsPlan(plan)
  BY <1>5 DEF SelectTool
<1>10. ASSUME NEW call \in Calls, NEW plan \in call PROVE IsPlan(plan)
  BY <1>1, <1>6, <1>7, <1>8, <1>9, LinesArePlans DEF Calls
<1> QED BY <1>10 DEF CalledPlans

(***************************************************************************)
(* The invariant.  What has been lost of the root's history is not known,  *)
(* but that some tables t were known before what is left of it.            *)
(***************************************************************************)

\* With the history q before that of the store, from some tables on.
ToldBehind(q, st) ==
    \E t : (\A i \in 1..Len(q) : KeepsDim(t, q, i)) /\ Told(DeclaredBy(q, t), st)

SessionInv ==
    /\ StoreOk(store) /\ StoreOk(disk) /\ IsSeq(tail) /\ (~saved => tail = <<>>)
    /\ pending \in {"none", "fresh", "stale"}
    /\ behind \in BOOLEAN /\ drift \in BOOLEAN /\ garbled \in BOOLEAN
    /\ FileCurrent
    /\ ~garbled => ToldBehind(Undecoded, store) /\ ToldBehind(tail, disk)
    /\ host = "server" =>
          /\ DOMAIN declared \subseteq TablesOf(disk) \cap TablesOf(store)
          /\ ~drift /\ DOMAIN store.memories = {} => declared = store.tables

\* Nothing before it is nothing to tell.
LEMMA ToldAlone ==
    ASSUME NEW st
    PROVE  ToldBehind(<<>>, st) <=> \E t : Told(t, st)
<1>1. Len(<<>>) = 0 /\ \A t : DeclaredBy(<<>>, t) = t
  BY EmptyFacts, DeclareEquations
<1>2. \A t : \A i \in 1..Len(<<>>) : KeepsDim(t, <<>>, i)
  <2> SUFFICES ASSUME NEW t, NEW i \in 1..Len(<<>>) PROVE FALSE
    OBVIOUS
  <2>1. i \in Int /\ 1 <= i /\ i <= 0
    BY <1>1
  <2> QED BY <2>1
<1>3. ASSUME NEW t PROVE Told(DeclaredBy(<<>>, t), st) <=> Told(t, st)
  BY <1>1
<1> QED BY <1>2, <1>3 DEF ToldBehind

\* A block without its history, and the history behind the tables it declares.
LEMMA ToldApart ==
    ASSUME NEW st, StoreOk(st)
    PROVE  /\ StoreOk(SnapshotOf(st)) /\ Twins(st, SnapshotOf(st))
           /\ TablesOf(SnapshotOf(st)) = TablesOf(st)
           /\ \A t : Told(t, st) => ToldBehind(st.history, SnapshotOf(st))
<1> DEFINE core == SnapshotOf(st)
<1>1. Shaped(st) /\ IsStore(st) /\ IsSeq(<<>>) /\ Len(<<>>) = 0
  BY EmptyFacts DEF StoreOk, Shaped
<1>2. /\ IsStore(core) /\ core.history = <<>> /\ core.tables = st.tables
      /\ core.vector_dims = st.vector_dims /\ core.memories = st.memories
      /\ SnapshotOf(core) = core
  BY <1>1 DEF SnapshotOf, IsStore, IsMap, Parts
<1> HIDE DEF core
<1>3. StoreOk(core)
  BY <1>1, <1>2 DEF StoreOk, Shaped
<1>4. TablesOf(core) = TablesOf(st)
  BY <1>2 DEF TablesOf
<1>5. ASSUME NEW t, Told(t, st) PROVE ToldBehind(st.history, core)
  <2>1. DeclaredBy(st.history, t) = st.tables /\ \A i \in 1..Len(st.history) : KeepsDim(t, st.history, i)
    BY <1>5 DEF Told, Explains
  <2>2. DeclaredBy(<<>>, st.tables) = st.tables
    BY DeclareEquations
  <2>3. Told(st.tables, core)
    BY <1>1, <1>2, <2>2 DEF Told, Explains
  <2> QED BY <2>1, <2>3 DEF ToldBehind
<1> QED BY <1>2, <1>3, <1>4, <1>5 DEF Twins, core

\* The store a plan starts from, with what it has read before its history.
Merged(read) == [store EXCEPT !.history = read \o @]

\* What is left undecoded when it has started.
LeftOf(plan) == IF PendingAfter(plan) = "fresh" THEN tail ELSE <<>>

\* A claim changes the root's history only.
LEMMA ClaimKeeps ==
    ASSUME SessionInv, NEW plan, NEW read \in Claimed(plan)
    PROVE  LET st == Merged(read)
           IN  /\ StoreOk(st) /\ Twins(store, st)
               /\ st.tables = store.tables /\ st.memories = store.memories
               /\ PendingAfter(plan) \in {"none", "fresh", "stale"}
               /\ ~(garbled \/ (pending = "stale" /\ read # <<>>)) => ToldBehind(LeftOf(plan), st)
<1> DEFINE h == store.history
           st == Merged(read)
<1>1. /\ StoreOk(store) /\ Shaped(store) /\ IsStore(store) /\ IsSeq(h) /\ IsSeq(tail)
      /\ pending \in {"none", "fresh", "stale"}
  BY DEF SessionInv, StoreOk, Shaped
<1>2. IsSeq(read)
  <2>1. \A q \in Decodings : IsSeq(q)
    BY DecodingsAreSequences DEF IsSeq
  <2> QED BY <1>1, <2>1, EmptyFacts DEF Claimed
<1>3. IsSeq(read \o h) /\ <<>> \o h = h
  <2>1. <<>> \o h = h
    <3> DEFINE S == Range(h)
    <3> HIDE DEF S
    <3>1. h \in Seq(S)
      BY <1>1 DEF IsSeq, S
    <3> QED BY <3>1
  <2> QED BY <1>1, <1>2, <2>1, DeclaredBehind
<1>4. /\ IsStore(st) /\ st.history = read \o h /\ st.tables = store.tables
      /\ st.vector_dims = store.vector_dims /\ st.memories = store.memories
      /\ SnapshotOf(st) = SnapshotOf(store)
      /\ st.history = h => st = store
  BY <1>1 DEF Merged, SnapshotOf, IsStore, IsMap, Parts
<1> HIDE DEF st
<1>5. StoreOk(st)
  BY <1>1, <1>3, <1>4 DEF StoreOk, Shaped
<1>6. PendingAfter(plan) \in {"none", "fresh", "stale"}
  BY <1>1 DEF PendingAfter
<1>7. ASSUME ~garbled, ~(pending = "stale" /\ read # <<>>)
      PROVE  ToldBehind(LeftOf(plan), st)
  <2>0. ToldBehind(Undecoded, store)
    BY <1>7 DEF SessionInv
  <2>1. CASE Temporal(plan) /\ pending = "fresh"
    <3>1. read = tail /\ LeftOf(plan) = <<>> /\ Undecoded = tail
      BY <2>1 DEF Claimed, LeftOf, PendingAfter, Undecoded
    <3>2. PICK t : (\A i \in 1..Len(tail) : KeepsDim(t, tail, i)) /\ Told(DeclaredBy(tail, t), store)
      BY <2>0, <3>1 DEF ToldBehind
    <3>3. Explains(t, tail \o h, store.tables)
      BY <1>1, <3>2, ExplainedTogether DEF Told
    <3>4. Told(t, st)
      BY <1>4, <3>1, <3>3 DEF Told
    <3> QED BY <3>1, <3>4, ToldAlone
  <2>2. CASE ~(Temporal(plan) /\ pending = "fresh")
    <3>1. read = <<>> /\ LeftOf(plan) = Undecoded
      BY <1>1, <1>7, <2>2 DEF Claimed, LeftOf, PendingAfter, Undecoded
    <3>2. st = store
      BY <1>3, <1>4, <3>1
    <3> QED BY <2>0, <3>1, <3>2
  <2> QED BY <2>1, <2>2
<1> QED BY <1>4, <1>5, <1>6, <1>7 DEF Twins, st

\* What has been read and run.
LEMMA RunKeeps ==
    ASSUME SessionInv, NEW plan, IsPlan(plan), NEW read \in Claimed(plan)
    PROVE  LET c == Run(plan, read)
           IN  /\ StoreOk(c.store) /\ TablesOf(store) \subseteq TablesOf(c.store)
               /\ DOMAIN store.memories \subseteq DOMAIN c.store.memories
               /\ ~c.failed => Redeclared(plan) \subseteq TablesOf(c.store)
               /\ ~c.failed /\ DOMAIN c.store.memories = {} =>
                     c.store.tables = Recorded(store.tables, plan)
               /\ ~(garbled \/ (pending = "stale" /\ read # <<>>)) => ToldBehind(LeftOf(plan), c.store)
               /\ Twins(store, disk) /\ ~c.failed => Twins(Replayed(plan).store, c.store)
<1> DEFINE st == Merged(read)
           c == Run(plan, read)
           e == Replay(disk, Logged(plan))
<1>1. /\ StoreOk(st) /\ Twins(store, st) /\ st.tables = store.tables /\ st.memories = store.memories
      /\ ~(garbled \/ (pending = "stale" /\ read # <<>>)) => ToldBehind(LeftOf(plan), st)
  BY ClaimKeeps
<1> HIDE DEF st
<1>2. c = ExecutePlan(st, plan) /\ Replayed(plan) = e
  BY DEF Run, Merged, Replayed, Replay, st
<1>3. PlanRuns(st, plan) /\ FramesRun(disk, plan) /\ (Twins(st, disk) => FramesAgree(st, plan, disk))
  BY <1>1, PlanFacts DEF SessionInv
<1> HIDE DEF c, e
<1>4. /\ ContextOk(c) /\ TablesOf(st) \subseteq TablesOf(c.store)
      /\ DOMAIN st.memories \subseteq DOMAIN c.store.memories
      /\ ~c.failed => Redeclared(plan) \subseteq TablesOf(c.store)
      /\ ~c.failed /\ DOMAIN c.store.memories = {} => c.store.tables = Recorded(st.tables, plan)
      /\ \A t : Told(t, st) => Told(t, c.store)
  BY <1>2, <1>3 DEF PlanRuns
<1>5. TablesOf(st) = TablesOf(store)
  BY <1>1 DEF TablesOf
<1>6. ToldBehind(LeftOf(plan), st) => ToldBehind(LeftOf(plan), c.store)
  BY <1>4 DEF ToldBehind
<1>7. Twins(store, disk) /\ ~c.failed => Twins(e.store, c.store)
  <2>1. Twins(store, disk) => Twins(st, disk)
    BY <1>1 DEF Twins
  <2> QED BY <1>2, <1>3, <2>1 DEF FramesAgree, Alike, Twins, e
<1>8. StoreOk(c.store)
  BY <1>4 DEF ContextOk
<1> QED BY <1>1, <1>2, <1>4, <1>5, <1>6, <1>7, <1>8 DEF c

\* What the invariant says of the files and of the undecoded history.
FilesOk ==
    /\ StoreOk(store) /\ StoreOk(disk) /\ IsSeq(tail) /\ (~saved => tail = <<>>)
    /\ pending \in {"none", "fresh", "stale"}
    /\ behind \in BOOLEAN /\ garbled \in BOOLEAN
    /\ ~garbled => ToldBehind(Undecoded, store) /\ ToldBehind(tail, disk)

\* A checkpoint: the new file has the history in memory, and what was not decoded is
\* behind it.
LEMMA CheckpointKeeps ==
    ASSUME NEW st, StoreOk(st), NEW range \in {"none", "fresh", "stale"}, Checkpoint(st, range),
           store' = st, garbled' \in BOOLEAN, NEW q, ~garbled' => ToldBehind(q, st)
    PROVE  FilesOk' /\ Twins(disk', store') /\ TablesOf(disk') = TablesOf(st)
<1>1. /\ disk' = SnapshotOf(st) /\ saved' = TRUE /\ tail' = st.history /\ behind' = FALSE
      /\ pending' \in {"none", "stale"}
  BY DEF Checkpoint
<1>2. /\ StoreOk(SnapshotOf(st)) /\ Twins(st, SnapshotOf(st)) /\ TablesOf(SnapshotOf(st)) = TablesOf(st)
      /\ \A t : Told(t, st) => ToldBehind(st.history, SnapshotOf(st))
  BY ToldApart
<1>3. Undecoded' = <<>>
  BY <1>1 DEF Undecoded
<1>4. ASSUME ~garbled' PROVE ToldBehind(<<>>, st) /\ ToldBehind(st.history, SnapshotOf(st))
  <2>1. PICK t : Told(t, st)
    BY <1>4 DEF ToldBehind
  <2> QED BY <1>2, <2>1, ToldAlone
<1>5. IsSeq(st.history)
  BY DEF StoreOk, Shaped
<1>6. ~garbled' => ToldBehind(Undecoded', store') /\ ToldBehind(tail', disk')
  BY <1>1, <1>3, <1>4
<1> QED BY <1>1, <1>2, <1>5, <1>6 DEF FilesOk, Twins

\* A plan that succeeds: the file has what the store has, and both have its tables.
LEMMA CommitKeeps ==
    ASSUME SessionInv, host # "none", NEW plan, IsPlan(plan), Commit(plan)
    PROVE  /\ FilesOk' /\ (~behind' => Twins(disk', store'))
           /\ TablesOf(disk) \cap TablesOf(store) \subseteq TablesOf(disk') \cap TablesOf(store')
           /\ Redeclared(plan) \subseteq TablesOf(disk') \cap TablesOf(store')
           /\ DOMAIN store'.memories = {} =>
                 DOMAIN store.memories = {} /\ store'.tables = Recorded(store.tables, plan)
<1>1. PICK read \in Claimed(plan) :
         /\ ~Run(plan, read).failed /\ Applied(Run(plan, read), read)
         /\ \/ /\ disk' = Replayed(plan).store
               /\ pending' = PendingAfter(plan)
               /\ UNCHANGED <<saved, tail, behind>>
            \/ Checkpoint(Run(plan, read).store, PendingAfter(plan))
  BY DEF Commit
<1> DEFINE c == Run(plan, read)
           e == Replay(disk, Logged(plan))
<1>2. store' = c.store /\ garbled' = (garbled \/ (pending = "stale" /\ read # <<>>)) /\ ~c.failed
  BY <1>1 DEF Applied
<1>3. /\ StoreOk(c.store) /\ TablesOf(store) \subseteq TablesOf(c.store)
      /\ DOMAIN store.memories \subseteq DOMAIN c.store.memories
      /\ Redeclared(plan) \subseteq TablesOf(c.store)
      /\ DOMAIN c.store.memories = {} => c.store.tables = Recorded(store.tables, plan)
      /\ ~garbled' => ToldBehind(LeftOf(plan), c.store)
      /\ Twins(store, disk) => Twins(Replayed(plan).store, c.store)
  BY <1>2, RunKeeps
<1>4. PendingAfter(plan) \in {"none", "fresh", "stale"}
  BY ClaimKeeps
<1>5. /\ ContextOk(e) /\ TablesOf(disk) \subseteq TablesOf(e.store)
      /\ Redeclared(plan) \subseteq TablesOf(e.store)
      /\ \A t : Told(t, disk) => Told(t, e.store)
  <2>1. FramesRun(disk, plan)
    BY PlanFacts DEF SessionInv
  <2> QED BY <2>1 DEF FramesRun
<1>6. Replayed(plan) = e /\ StoreOk(e.store)
  BY <1>5 DEF Replayed, Replay, ContextOk
<1> HIDE DEF c, e
<1>7. behind \in BOOLEAN /\ garbled' \in BOOLEAN /\ (~garbled' => ~garbled) /\ (~behind => Twins(store, disk))
  BY <1>2 DEF SessionInv, FileCurrent, Twins
<1>8. CASE disk' = Replayed(plan).store /\ pending' = PendingAfter(plan) /\ UNCHANGED <<saved, tail, behind>>
  <2>1. disk' = e.store /\ tail' = tail /\ saved' = saved /\ behind' = behind
    BY <1>6, <1>8
  <2>2. Undecoded' = LeftOf(plan)
    BY <1>8, <2>1 DEF Undecoded, LeftOf
  <2>3. ASSUME ~garbled' PROVE ToldBehind(tail, e.store)
    <3>1. ToldBehind(tail, disk)
      BY <1>7, <2>3 DEF SessionInv
    <3> QED BY <1>5, <3>1 DEF ToldBehind
  <2>4. FilesOk'
    BY <1>2, <1>3, <1>4, <1>6, <1>7, <1>8, <2>1, <2>2, <2>3 DEF FilesOk, SessionInv
  <2>5. ~behind' => Twins(disk', store')
    BY <1>2, <1>3, <1>7, <1>8, <2>1
  <2> QED BY <1>2, <1>3, <1>5, <2>1, <2>4, <2>5
<1>9. CASE Checkpoint(c.store, PendingAfter(plan))
  <2>1. FilesOk' /\ Twins(disk', store') /\ TablesOf(disk') = TablesOf(c.store)
    BY <1>2, <1>3, <1>4, <1>7, <1>9, CheckpointKeeps
  <2> QED BY <1>2, <1>3, <2>1
<1> QED BY <1>1, <1>8, <1>9 DEF c

\* A plan that fails: the file is as it was, and the store if nothing was done.
LEMMA AbortKeeps ==
    ASSUME SessionInv, NEW plan, IsPlan(plan), Abort(plan)
    PROVE  /\ FilesOk' /\ disk' = disk
           /\ ~behind' => ~behind /\ Twins(store', store)
           /\ TablesOf(store) \subseteq TablesOf(store')
           /\ DOMAIN store.memories \subseteq DOMAIN store'.memories
<1>1. disk' = disk /\ saved' = saved /\ tail' = tail /\ pending' = PendingAfter(plan)
  BY DEF Abort, fileVars
<1>2. Undecoded' = LeftOf(plan)
  BY <1>1 DEF Undecoded, LeftOf
<1>3. CASE ClaimFails(plan) /\ UNCHANGED <<store, behind, garbled>>
  <2>1. pending = "stale" /\ pending' = "none"
    BY <1>1, <1>3 DEF ClaimFails, PendingAfter
  <2>2. Undecoded' = <<>> /\ Undecoded = <<>>
    BY <2>1 DEF Undecoded
  <2>3. FilesOk'
    BY <1>1, <1>3, <2>1, <2>2 DEF FilesOk, SessionInv
  <2> QED BY <1>1, <1>3, <2>3 DEF Twins
<1>4. ASSUME NEW read \in Claimed(plan), Applied(Run(plan, read), read),
             behind' = (behind \/ SnapshotOf(Run(plan, read).store) # SnapshotOf(store))
      PROVE  /\ FilesOk' /\ (~behind' => ~behind /\ Twins(store', store))
             /\ TablesOf(store) \subseteq TablesOf(store')
             /\ DOMAIN store.memories \subseteq DOMAIN store'.memories
  <2> DEFINE c == Run(plan, read)
  <2>1. store' = c.store /\ garbled' = (garbled \/ (pending = "stale" /\ read # <<>>))
    BY <1>4 DEF Applied
  <2>2. /\ StoreOk(c.store) /\ TablesOf(store) \subseteq TablesOf(c.store)
        /\ DOMAIN store.memories \subseteq DOMAIN c.store.memories
        /\ ~garbled' => ToldBehind(LeftOf(plan), c.store)
    BY <2>1, RunKeeps
  <2>3. PendingAfter(plan) \in {"none", "fresh", "stale"}
    BY ClaimKeeps
  <2>4. ~behind' => ~behind /\ Twins(c.store, store)
    BY <1>4 DEF Twins
  <2> HIDE DEF c
  <2>5. behind' \in BOOLEAN /\ garbled' \in BOOLEAN
    BY <1>4, <2>1
  <2>6. FilesOk'
    BY <1>1, <1>2, <2>1, <2>2, <2>3, <2>5 DEF FilesOk, SessionInv
  <2> QED BY <2>1, <2>2, <2>4, <2>6
<1> QED BY <1>1, <1>3, <1>4 DEF Abort

\* What a server finds declared when it opens the file.
LEMMA SeedFacts ==
    ASSUME NEW st, StoreOk(st)
    PROVE  /\ DOMAIN SeedDeclared(st) = TablesOf(st)
           /\ DOMAIN st.memories = {} => SeedDeclared(st) = st.tables
<1>1. DOMAIN SeedDeclared(st) = TablesOf(st)
  BY DEF SeedDeclared, TablesOf
<1>2. ASSUME DOMAIN st.memories = {} PROVE SeedDeclared(st) = st.tables
  <2>1. SeedDeclared(st) = [t \in DOMAIN st.tables |-> st.tables[t]]
    BY <1>2 DEF SeedDeclared
  <2> QED BY <2>1 DEF StoreOk, Shaped, IsMap
<1> QED BY <1>1, <1>2

\* The file is current after a step that leaves it a twin of the store.
LEMMA CurrentAfter ==
    ASSUME FilesOk', ~behind' => Twins(disk', store'), drift' \in BOOLEAN,
           host' = "server" =>
              /\ DOMAIN declared' \subseteq TablesOf(disk') \cap TablesOf(store')
              /\ ~drift' /\ DOMAIN store'.memories = {} => declared' = store'.tables
    PROVE  SessionInv'
BY DEF SessionInv, FilesOk, FileCurrent, Twins

\* A line of the server keeps the invariant.
LEMMA LineKeeps ==
    ASSUME SessionInv, NEW line \in Lines, HandleLine(line) \/ FailLine(line)
    PROVE  SessionInv'
<1>1. CASE HandleLine(line)
  <2>1. host = "server" /\ host' = "server" /\ Commit(line) /\ declared' = Recorded(declared, line) /\ drift' = drift
    BY <1>1 DEF HandleLine
  <2>2. /\ FilesOk' /\ (~behind' => Twins(disk', store'))
        /\ TablesOf(disk) \cap TablesOf(store) \subseteq TablesOf(disk') \cap TablesOf(store')
        /\ Redeclared(line) \subseteq TablesOf(disk') \cap TablesOf(store')
        /\ DOMAIN store'.memories = {} =>
              DOMAIN store.memories = {} /\ store'.tables = Recorded(store.tables, line)
    BY <2>1, CommitKeeps, LinesArePlans
  <2>3. DOMAIN declared' = DOMAIN declared \cup Redeclared(line)
    BY <2>1, RecordedDomain, LinesArePlans DEF IsPlan
  <2>4. DOMAIN declared' \subseteq TablesOf(disk') \cap TablesOf(store')
    BY <2>1, <2>2, <2>3 DEF SessionInv
  <2>5. ASSUME ~drift', DOMAIN store'.memories = {} PROVE declared' = store'.tables
    BY <2>1, <2>2, <2>5 DEF SessionInv
  <2>6. drift' \in BOOLEAN
    BY <2>1 DEF SessionInv
  <2> QED BY <2>2, <2>4, <2>5, <2>6, CurrentAfter
<1>2. CASE FailLine(line)
  <2>1. /\ host = "server" /\ host' = "server" /\ Abort(line) /\ declared' = declared
        /\ drift' = (drift \/ store'.tables # store.tables)
    BY <1>2 DEF FailLine
  <2>2. /\ FilesOk' /\ disk' = disk
        /\ ~behind' => ~behind /\ Twins(store', store)
        /\ TablesOf(store) \subseteq TablesOf(store')
        /\ DOMAIN store.memories \subseteq DOMAIN store'.memories
    BY <2>1, AbortKeeps, LinesArePlans
  <2>3. drift' \in BOOLEAN /\ (~drift' => ~drift /\ store'.tables = store.tables)
    BY <2>1 DEF SessionInv
  <2>4. ~behind' => Twins(disk', store')
    BY <2>1, <2>2 DEF SessionInv, FileCurrent, Twins
  <2>5. DOMAIN declared' \subseteq TablesOf(disk') \cap TablesOf(store')
    BY <2>1, <2>2 DEF SessionInv
  <2>6. ASSUME ~drift', DOMAIN store'.memories = {} PROVE declared' = store'.tables
    BY <2>1, <2>2, <2>3, <2>6 DEF SessionInv
  <2> QED BY <2>2, <2>3, <2>4, <2>5, <2>6, CurrentAfter
<1> QED BY <1>1, <1>2

\* So does a call of a tool,
LEMMA CallKeeps ==
    ASSUME SessionInv, NEW plan \in CalledPlans, CallTool(plan) \/ FailTool(plan)
    PROVE  SessionInv'
<1>0. IsPlan(plan) /\ drift \in BOOLEAN
  BY CallsArePlans DEF SessionInv
<1>1. CASE CallTool(plan)
  <2>1. host = "mcp" /\ host' = "mcp" /\ Commit(plan) /\ drift' = drift
    BY <1>1 DEF CallTool
  <2>2. FilesOk' /\ (~behind' => Twins(disk', store'))
    BY <1>0, <2>1, CommitKeeps
  <2> QED BY <1>0, <2>1, <2>2, CurrentAfter
<1>2. CASE FailTool(plan)
  <2>1. host = "mcp" /\ host' = "mcp" /\ Abort(plan) /\ drift' = drift
    BY <1>2 DEF FailTool
  <2>2. FilesOk' /\ disk' = disk /\ (~behind' => ~behind /\ Twins(store', store))
    BY <1>0, <2>1, AbortKeeps
  <2>3. ~behind' => Twins(disk', store')
    BY <2>1, <2>2 DEF SessionInv, FileCurrent, Twins
  <2> QED BY <1>0, <2>1, <2>2, <2>3, CurrentAfter
<1> QED BY <1>1, <1>2

\* the empty store,
LEMMA EmptyStoreOk == StoreOk(EmptyStore) /\ ToldBehind(<<>>, EmptyStore) /\ IsSeq(<<>>)
BY EmptyBlock, EmptyFacts, ToldAlone DEF StoreOk, BlockOk, IsMap

\* the end of a session,
LEMMA CloseKeeps == ASSUME SessionInv, Close PROVE SessionInv'
<1>1. /\ host' = "none" /\ store' = EmptyStore /\ pending' = "none" /\ behind' = FALSE
      /\ disk' = disk /\ saved' = saved /\ tail' = tail /\ drift' = drift /\ garbled' = garbled
  BY DEF Close, fileVars
<1>2. Undecoded' = <<>>
  BY <1>1 DEF Undecoded
<1> QED BY <1>1, <1>2, EmptyStoreOk DEF SessionInv, FileCurrent

\* an input of the REPL,
LEMMA InputKeeps ==
    ASSUME SessionInv, Repl
    PROVE  SessionInv'
<1>1. CASE Clear
  BY <1>1, CloseKeeps DEF Clear
<1>2. CASE Flush
  <2>1. /\ host = "cli" /\ host' = "cli" /\ Checkpoint(store, pending) /\ store' = store
        /\ drift' = drift /\ garbled' = garbled
    BY <1>2 DEF Flush
  <2>2. /\ StoreOk(store) /\ pending \in {"none", "fresh", "stale"} /\ garbled \in BOOLEAN
        /\ drift \in BOOLEAN /\ (~garbled => ToldBehind(Undecoded, store))
    BY DEF SessionInv
  <2>3. FilesOk' /\ Twins(disk', store')
    BY <2>1, <2>2, CheckpointKeeps
  <2> QED BY <2>1, <2>2, <2>3, CurrentAfter
<1>3. ASSUME NEW input \in Lines, RunInput(input) PROVE SessionInv'
  <2>1. host = "cli" /\ host' = "cli" /\ Commit(input) /\ drift' = drift
    BY <1>3 DEF RunInput
  <2>2. FilesOk' /\ (~behind' => Twins(disk', store'))
    BY <2>1, CommitKeeps, LinesArePlans
  <2>3. drift' \in BOOLEAN
    BY <2>1 DEF SessionInv
  <2> QED BY <2>1, <2>2, <2>3, CurrentAfter
<1>4. ASSUME NEW input \in Lines, FailInput(input) PROVE SessionInv'
  BY <1>4, CloseKeeps DEF FailInput
<1> QED BY <1>1, <1>2, <1>3, <1>4 DEF Repl

\* and the next session on the file.
LEMMA ReopenKeeps ==
    ASSUME SessionInv, NEW next \in {"server", "mcp", "cli"}, Reopen(next)
    PROVE  SessionInv'
<1>1. /\ host' = next /\ store' = disk /\ disk' = disk /\ drift' = FALSE /\ behind' = FALSE
      /\ saved' = saved /\ tail' = tail /\ garbled' = garbled
      /\ pending' = IF saved THEN "fresh" ELSE "none"
      /\ declared' = IF next = "server" THEN SeedDeclared(disk) ELSE <<>>
  BY DEF Reopen, DeclaredAtOpen, fileVars
<1>2. /\ DOMAIN SeedDeclared(disk) = TablesOf(disk)
      /\ DOMAIN disk.memories = {} => SeedDeclared(disk) = disk.tables
  BY SeedFacts DEF SessionInv
<1>3. Undecoded' = tail
  BY <1>1 DEF Undecoded, SessionInv
<1> QED BY <1>1, <1>2, <1>3 DEF SessionInv, FileCurrent

\* Every step keeps the invariant.
LEMMA SessionInvInductive == ASSUME SessionInv, [Next]_vars PROVE SessionInv'
<1>1. CASE UNCHANGED vars
  BY <1>1 DEF vars, fileVars, SessionInv, FileCurrent, Undecoded
<1>2. CASE Serve
  BY <1>1, <1>2, LineKeeps DEF Serve, RefuseLine
<1>3. CASE Tool
  BY <1>1, <1>3, CallKeeps DEF Tool, RefuseTool
<1> QED BY <1>1, <1>2, <1>3, InputKeeps, ReopenKeeps DEF Next

(***************************************************************************)
(* The analyzer's context, and its verdict.                                *)
(***************************************************************************)

Declaration(known, t) == [op |-> "create", table |-> t, dim |-> known[t]]

\* The order in which known tables are declared again: every one of them.
LEMMA AllDeclared ==
    ASSUME NEW known, IsFiniteSet(DOMAIN known)
    PROVE  LET S == {Declaration(known, t) : t \in DOMAIN known}
           IN  SetToSeq(S) \in Seq(S) /\ Range(SetToSeq(S)) = S
<1> DEFINE S == {Declaration(known, t) : t \in DOMAIN known}
           f == [t \in DOMAIN known |-> Declaration(known, t)]
           q == SetToSeq(S)
           n == Cardinality(S)
<1>1. IsFiniteSet(S)
  <2>1. f \in Surjection(DOMAIN known, S)
    BY DEF Surjection
  <2> QED BY <2>1, FS_Surjection
<1> HIDE DEF S
<1>2. n \in Nat /\ \E g : g \in Bijection(1..n, S)
  BY <1>1, FS_CardinalityType DEF ExistsBijection
<1>3. q \in [1..n -> S] /\ IsInjective(q)
  <2>1. \E g \in [1..n -> S] : IsInjective(g)
    BY <1>2 DEF Bijection, Injection
  <2> QED BY <2>1 DEF SetToSeq
<1> HIDE DEF q, n
<1>4. IsFiniteSet(1..n) /\ Cardinality(1..n) = n
  BY <1>2, FS_Interval
<1>5. q \in Surjection(1..n, S)
  <2>1. q \in Injection(1..n, S)
    BY <1>3 DEF Injection
  <2> QED BY <1>1, <1>4, <2>1, FS_Injection DEF n
<1>6. q \in Seq(S)
  BY <1>2, <1>3
<1>7. Range(q) = S
  BY <1>3, <1>5 DEF Surjection, Range
<1> QED BY <1>6, <1>7 DEF q, S

\* What the analyzer knows after the declarations r of known tables.
Knows(known, r, ctx) ==
    /\ ctx = [declared |-> ctx.declared, dims |-> ctx.dims, refused |-> ctx.refused]
    /\ ctx.refused = FALSE
    /\ ctx.declared = BuiltinTables \cup {x.table : x \in Range(r)}
    /\ DOMAIN ctx.dims = {x.table : x \in {y \in Range(r) : y.dim # NoDim}}
    /\ IsMap(ctx.dims) /\ \A t \in DOMAIN ctx.dims : ctx.dims[t] = known[t]

\* One more declaration.
LEMMA KnowsMore ==
    ASSUME NEW known, NEW r, IsSeq(r), NEW ctx, Knows(known, r, ctx),
           NEW t \in DOMAIN known
    PROVE  Knows(known, Append(r, Declaration(known, t)), AnalyzeStatement(ctx, Declaration(known, t)))
<1> DEFINE x == Declaration(known, t)
           ctx2 == AnalyzeStatement(ctx, x)
           R == Range(r)
           R2 == Range(Append(r, x))
<1>1. x.op = "create" /\ x.table = t /\ x.dim = known[t]
  BY DEF Declaration
<1>2. R2 = R \cup {x}
  <2> HIDE DEF x
  <2>1. /\ DOMAIN r = 1..Len(r) /\ Len(r) \in Nat
        /\ DOMAIN Append(r, x) = 1..(Len(r) + 1)
        /\ Append(r, x)[Len(r) + 1] = x /\ \A i \in 1..Len(r) : Append(r, x)[i] = r[i]
    BY AppendFacts, SeqFacts
  <2>2. \A i \in 1..(Len(r) + 1) : i \in 1..Len(r) \/ i = Len(r) + 1
    BY <2>1
  <2>3. \A i \in 1..Len(r) : i \in 1..(Len(r) + 1)
    BY <2>1
  <2>4. Len(r) + 1 \in 1..(Len(r) + 1)
    BY <2>1
  <2> QED BY <2>1, <2>2, <2>3, <2>4 DEF Range
<1>3. ~Refuses(ctx, x)
  BY <1>1 DEF Refuses
<1> HIDE DEF x, R, R2
<1>4. ctx2 = [ctx EXCEPT !.declared = @ \cup {x.table},
                         !.dims = IF x.dim = NoDim THEN @ ELSE Put(@, x.table, x.dim)]
  BY <1>1, <1>3 DEF AnalyzeStatement, Knows
<1>5. /\ ctx2 = [declared |-> ctx2.declared, dims |-> ctx2.dims, refused |-> ctx2.refused]
      /\ ctx2.refused = FALSE
      /\ ctx2.declared = ctx.declared \cup {t}
      /\ ctx2.dims = IF x.dim = NoDim THEN ctx.dims ELSE Put(ctx.dims, t, known[t])
  BY <1>1, <1>4 DEF Knows
<1> HIDE DEF ctx2
<1>6. ctx.declared = BuiltinTables \cup {y.table : y \in R} /\ DOMAIN ctx.dims = {y.table : y \in {z \in R : z.dim # NoDim}}
      /\ IsMap(ctx.dims) /\ \A u \in DOMAIN ctx.dims : ctx.dims[u] = known[u]
  BY DEF Knows, R
<1>7. {y.table : y \in R2} = {y.table : y \in R} \cup {t}
  BY <1>1, <1>2
<1>8. {y.table : y \in {z \in R2 : z.dim # NoDim}} =
         {y.table : y \in {z \in R : z.dim # NoDim}} \cup (IF x.dim = NoDim THEN {} ELSE {t})
  <2>1. {z \in R2 : z.dim # NoDim} = {z \in R : z.dim # NoDim} \cup (IF x.dim = NoDim THEN {} ELSE {x})
    BY <1>2
  <2> QED BY <1>1, <2>1
<1>9. /\ DOMAIN ctx2.dims = DOMAIN ctx.dims \cup (IF x.dim = NoDim THEN {} ELSE {t})
      /\ IsMap(ctx2.dims) /\ \A u \in DOMAIN ctx2.dims : ctx2.dims[u] = known[u]
  <2> DEFINE more == Put(ctx.dims, t, known[t])
  <2>1. IsMap(more) /\ DOMAIN more = DOMAIN ctx.dims \cup {t}
    BY DEF Put, IsMap
  <2>2. \A u \in DOMAIN more : more[u] = known[u]
    BY <1>6 DEF Put
  <2> HIDE DEF more
  <2>3. CASE x.dim = NoDim
    <3>1. ctx2.dims = ctx.dims
      BY <1>5, <2>3
    <3> QED BY <1>6, <2>3, <3>1
  <2>4. CASE x.dim # NoDim
    <3>1. ctx2.dims = more
      BY <1>5, <2>4 DEF more
    <3> QED BY <2>1, <2>2, <2>4, <3>1
  <2> QED BY <2>3, <2>4
<1>10. /\ ctx2.declared = BuiltinTables \cup {y.table : y \in R2}
       /\ DOMAIN ctx2.dims = {y.table : y \in {z \in R2 : z.dim # NoDim}}
  BY <1>5, <1>6, <1>7, <1>8, <1>9
<1> QED BY <1>5, <1>9, <1>10 DEF Knows, R2, x, ctx2

\* Before the line's own statements: the tables known and the dimensions they have.
LEMMA ContextOfKnown ==
    ASSUME NEW known, IsFiniteSet(DOMAIN known)
    PROVE  LET ctx == Analyze(SetToSeq({Declaration(known, t) : t \in DOMAIN known}))
           IN  /\ ctx = [declared |-> ctx.declared, dims |-> ctx.dims, refused |-> ctx.refused]
               /\ ctx.refused = FALSE
               /\ ctx.declared = BuiltinTables \cup DOMAIN known
               /\ ctx.dims = DimsOf(known)
<1> DEFINE S == {Declaration(known, t) : t \in DOMAIN known}
           q == SetToSeq(S)
           good == {r \in Seq(S) : Knows(known, r, Analyze(r))}
<1>1. <<>> \in good
  <2>1. <<>> \in Seq(S) /\ Range(<<>>) = {}
    BY DEF Range
  <2>2. Knows(known, <<>>, NewCtx)
    BY <2>1 DEF Knows, NewCtx, IsMap
  <2> QED BY <2>1, <2>2, AnalyzeEquations
<1>2. ASSUME NEW r \in good, NEW x \in S PROVE Append(r, x) \in good
  <2>1. IsSeq(r) /\ Append(r, x) \in Seq(S)
    BY DEF IsSeq, Range
  <2>2. PICK t \in DOMAIN known : x = Declaration(known, t)
    OBVIOUS
  <2>3. Knows(known, Append(r, x), AnalyzeStatement(Analyze(r), x))
    BY <2>1, <2>2, KnowsMore
  <2> QED BY <2>1, <2>3, AnalyzeEquations
<1>3. q \in Seq(S) /\ Range(q) = S
  BY AllDeclared
<1> HIDE DEF good, q
<1>4. q \in good
  <2> HIDE DEF S
  <2> QED BY <1>1, <1>2, <1>3, PlanFold!SeqInduction
<1> DEFINE ctx == Analyze(q)
<1>5. Knows(known, q, ctx)
  BY <1>4 DEF good
<1> HIDE DEF ctx
<1>6. \A t : Declaration(known, t).table = t /\ Declaration(known, t).dim = known[t]
  BY DEF Declaration
<1>7. \A x \in S : x.table \in DOMAIN known /\ x.dim = known[x.table]
  BY <1>6
<1>8. \A t \in DOMAIN known : Declaration(known, t) \in S
  OBVIOUS
<1> HIDE DEF S
<1>9. {x.table : x \in S} = DOMAIN known
  BY <1>6, <1>7, <1>8
<1>10. {x.table : x \in {y \in S : y.dim # NoDim}} = {t \in DOMAIN known : known[t] # NoDim}
  BY <1>6, <1>7, <1>8
<1>11. ctx.declared = BuiltinTables \cup DOMAIN known /\ ctx.refused = FALSE
  BY <1>3, <1>5, <1>9 DEF Knows
<1>12. /\ DOMAIN ctx.dims = {t \in DOMAIN known : known[t] # NoDim} /\ IsMap(ctx.dims)
      /\ \A t \in DOMAIN ctx.dims : ctx.dims[t] = known[t]
  BY <1>3, <1>5, <1>10 DEF Knows
<1>13. ctx.dims = DimsOf(known)
  BY <1>12 DEF DimsOf, RestrictValues, Restrict, IsMap
<1>14. ctx = [declared |-> ctx.declared, dims |-> ctx.dims, refused |-> ctx.refused]
  BY <1>5 DEF Knows
<1> QED BY <1>11, <1>13, <1>14 DEF ctx, q, S

\* The verdict on a line of one statement that declares nothing.
LEMMA Verdict ==
    ASSUME NEW known, IsFiniteSet(DOMAIN known), NEW x, x.op # "create"
    PROVE  \E ctx : /\ Accepts(known, <<x>>) <=> ~Refuses(ctx, x)
                    /\ ctx.declared = BuiltinTables \cup DOMAIN known /\ ctx.dims = DimsOf(known)
<1> DEFINE S == {Declaration(known, t) : t \in DOMAIN known}
           q == SetToSeq(S)
           ctx == Analyze(q)
<1>1. Redeclared(<<x>>) = {}
  <2>1. IsSeq(<<>>) /\ Append(<<>>, x) = <<x>> /\ ~IsCreateStmt(x)
    BY EmptyFacts DEF IsCreateStmt
  <2>2. Redeclared(<<>>) = {} /\ Redeclared(Append(<<>>, x)) = Redeclared(<<>>) \cup {}
    BY <2>1, RecordedGrows
  <2> QED BY <2>1, <2>2
<1>2. Augmented(known, <<x>>) = q \o <<x>>
  <2>1. DOMAIN known \ Redeclared(<<x>>) = DOMAIN known
    BY <1>1
  <2> QED BY <2>1 DEF Augmented, Declaration
<1>3. q \in Seq(S)
  BY AllDeclared
<1> HIDE DEF S, q
<1>4. q \o <<x>> = Append(q, x) /\ IsSeq(q)
  <2>1. q \in Seq(S \cup {x}) /\ x \in S \cup {x}
    BY <1>3
  <2>2. IsSeq(q)
    BY <1>3 DEF IsSeq, Range
  <2> QED BY <2>1, <2>2, AppendIsConcat
<1>5. Analyze(Append(q, x)) = AnalyzeStatement(ctx, x)
  BY <1>4, AnalyzeEquations
<1>6. ctx.refused = FALSE /\ ctx.declared = BuiltinTables \cup DOMAIN known /\ ctx.dims = DimsOf(known)
  BY ContextOfKnown DEF q, S
<1>7. ctx = [declared |-> ctx.declared, dims |-> ctx.dims, refused |-> ctx.refused]
  BY ContextOfKnown DEF q, S
<1> HIDE DEF ctx
<1>8. Accepts(known, <<x>>) <=> ~AnalyzeStatement(ctx, x).refused
  BY <1>2, <1>4, <1>5 DEF Accepts
<1>9. AnalyzeStatement(ctx, x).refused <=> Refuses(ctx, x)
  <2>1. CASE Refuses(ctx, x)
    BY <1>7, <2>1 DEF AnalyzeStatement
  <2>2. CASE ~Refuses(ctx, x)
    BY <1>6, <2>2 DEF AnalyzeStatement
  <2> QED BY <2>1, <2>2
<1> QED BY <1>6, <1>8, <1>9

\* A line of one statement fails when the statement does.
LEMMA OneStatementFails ==
    ASSUME NEW st, StoreOk(st), NEW x, x.op \notin {"memory", "reset"}
    PROVE  ExecutePlan(st, <<x>>).failed <=> Fails(st, x)
<1> DEFINE c == AtRoot(st)
<1>1. ExecutePlan(st, <<x>>) = ExecuteInContext(c, x)
  <2>1. IsSeq(<<>>) /\ Append(<<>>, x) = <<x>>
    BY EmptyFacts
  <2>2. ~AtRoot(st).failed /\ ExecutePlan(st, <<>>) = AtRoot(st)
    BY PlanEquations DEF AtRoot
  <2>3. ExecutePlan(st, Append(<<>>, x)) =
           IF ExecutePlan(st, <<>>).failed THEN ExecutePlan(st, <<>>)
           ELSE ExecuteInContext(ExecutePlan(st, <<>>), x)
    BY <2>1, PlanEquations
  <2> QED BY <2>1, <2>2, <2>3
<1>2. c.ctx = Root /\ c.store = st /\ c.failed = FALSE /\ c = [store |-> st, ctx |-> Root, failed |-> FALSE]
  BY DEF AtRoot
<1> HIDE DEF c
<1>3. CASE Fails(st, x)
  <2>1. ExecuteInContext(c, x) = [c EXCEPT !.failed = TRUE]
    BY <1>2, <1>3 DEF ExecuteInContext, Target
  <2>2. [c EXCEPT !.failed = TRUE].failed = TRUE
    BY <1>2
  <2> QED BY <1>1, <1>3, <2>1, <2>2
<1>4. CASE ~Fails(st, x)
  <2>1. ExecuteInContext(c, x) = [c EXCEPT !.store = Execute(st, x)]
    BY <1>2, <1>4 DEF ExecuteInContext, Target
  <2>2. [c EXCEPT !.store = Execute(st, x)].failed = FALSE
    BY <1>2
  <2> QED BY <1>1, <1>4, <2>1, <2>2
<1> QED BY <1>3, <1>4

\* The verdict on an insert and on a select, with the declarations the store has.
LEMMA InsertVerdict ==
    ASSUME NEW st, StoreOk(st), NEW id, ~BadId(id), NEW emb
    PROVE  Accepts(st.tables, InsertRecord(id, emb)) <=>
              /\ id[1] \in DOMAIN st.tables \cup BuiltinTables
              /\ ~ExecutePlan(st, InsertRecord(id, emb)).failed
<1> DEFINE x == [op |-> "insert", id |-> id, body |-> "body", emb |-> emb, at |-> 0]
<1>1. InsertRecord(id, emb) = <<x>> /\ x.op = "insert" /\ x.id = id /\ x.emb = emb
  BY DEF InsertRecord
<1> HIDE DEF x
<1>2. IsFiniteSet(DOMAIN st.tables) /\ st.vector_dims = DimsOf(st.tables)
  BY DEF StoreOk, Shaped
<1>3. PICK ctx : /\ Accepts(st.tables, <<x>>) <=> ~Refuses(ctx, x)
                 /\ ctx.declared = BuiltinTables \cup DOMAIN st.tables /\ ctx.dims = DimsOf(st.tables)
  BY <1>1, <1>2, Verdict
<1>4. ExecutePlan(st, <<x>>).failed <=> Fails(st, x)
  BY <1>1, OneStatementFails
<1>5. Fails(st, x) <=> WrongDim(st, x)
  BY <1>1 DEF Fails, TemporalReads
<1>6. Refuses(ctx, x) <=> RefusesInsert(ctx, x)
  BY <1>1 DEF Refuses
<1> QED BY <1>1, <1>2, <1>3, <1>4, <1>5, <1>6 DEF RefusesInsert, WrongDim

\* What the analyzer says of a SELECT without a vector.
LEMMA SelectVerdict ==
    ASSUME NEW st, StoreOk(st), NEW t
    PROVE  Accepts(st.tables, SelectRows(t, Root, "none", <<>>)) <=> t \in DOMAIN st.tables \cup BuiltinTables
<1> DEFINE x == [op |-> "select", table |-> t, order |-> "none", knn |-> FALSE]
<1>1. SelectRows(t, Root, "none", <<>>) = <<x>>
  BY DEF SelectRows
<1>2. x.op = "select" /\ x.table = t /\ x.order = "none"
  OBVIOUS
<1> HIDE DEF x
<1>3. IsFiniteSet(DOMAIN st.tables)
  BY DEF StoreOk, Shaped
<1>4. PICK ctx : /\ Accepts(st.tables, <<x>>) <=> ~Refuses(ctx, x)
                 /\ ctx.declared = BuiltinTables \cup DOMAIN st.tables
  BY <1>2, <1>3, Verdict
<1>5. Refuses(ctx, x) <=> RefusesSelect(ctx, x)
  BY <1>2 DEF Refuses
<1> QED BY <1>1, <1>2, <1>4, <1>5 DEF RefusesSelect

(***************************************************************************)
(* The theorems.                                                           *)
(***************************************************************************)

\* The invariant holds.
THEOREM SessionSafe == Spec => []SessionInv
<1>1. Init => SessionInv
  <2> SUFFICES ASSUME Init PROVE SessionInv
    OBVIOUS
  <2>1. /\ host = "none" /\ store = EmptyStore /\ disk = EmptyStore /\ tail = <<>> /\ pending = "none"
        /\ drift = FALSE /\ behind = FALSE /\ garbled = FALSE
    BY DEF Init
  <2>2. Undecoded = <<>>
    BY <2>1 DEF Undecoded
  <2> QED BY <2>1, <2>2, EmptyStoreOk DEF SessionInv, FileCurrent
<1> QED BY <1>1, SessionInvInductive, PTL DEF Spec

\* FileCurrent: unless a plan has failed since, a reopen finds the store, but for the
\* root's history.
THEOREM FileIsCurrent == Spec => []FileCurrent
<1>1. SessionInv => FileCurrent
  BY DEF SessionInv
<1> QED BY <1>1, SessionSafe, PTL

\* RestartKeepsTables: what a line has declared is found in the file.
THEOREM NoTableIsForgotten == Spec => []RestartKeepsTables
<1>1. SessionInv => RestartKeepsTables
  BY SeedFacts DEF SessionInv, RestartKeepsTables
<1> QED BY <1>1, SessionSafe, PTL

\* DimensionsKept: every insert in a history had the dimension its table had by then.
THEOREM DimensionsAreKept == Spec => []DimensionsKept
<1>1. SessionInv => DimensionsKept
  <2> SUFFICES ASSUME SessionInv PROVE DimensionsKept
    OBVIOUS
  <2>1. ASSUME NEW st, StoreOk(st), NEW m \in DOMAIN st.memories,
               NEW i \in DOMAIN st.memories[m].history
        PROVE  KeepsDim(<<>>, st.memories[m].history, i)
    <3>1. Shaped(st.memories[m]) /\ Told(<<>>, st.memories[m])
      BY <2>1 DEF StoreOk, BlockOk
    <3>2. DOMAIN st.memories[m].history = 1..Len(st.memories[m].history)
      BY <3>1, SeqFacts DEF Shaped
    <3> QED BY <3>1, <3>2 DEF Told, Explains
  <2>2. ASSUME NEW st, StoreOk(st), NEW q, IsSeq(q), ToldBehind(q, st), NEW i \in DOMAIN (q \o st.history)
        PROVE  KeepsDim(<<>>, q \o st.history, i)
    <3> DEFINE w == q \o st.history
    <3>1. IsSeq(st.history)
      BY <2>2 DEF StoreOk, Shaped
    <3>2. IsSeq(w)
      BY <2>2, <3>1, DeclaredBehind
    <3>3. PICK t : (\A j \in 1..Len(q) : KeepsDim(t, q, j)) /\ Told(DeclaredBy(q, t), st)
      BY <2>2 DEF ToldBehind
    <3>4. Explains(t, w, st.tables)
      BY <2>2, <3>1, <3>3, ExplainedTogether DEF Told
    <3>5. i \in 1..Len(w)
      BY <2>2, <3>2, SeqFacts
    <3> HIDE DEF w
    <3>6. KeepsDim(t, w, i)
      BY <3>4, <3>5 DEF Explains
    <3>7. KeepsDim(<<>>, w, i)
      BY <3>2, <3>5, <3>6, KeepsDimFromLess
    <3> QED BY <3>7 DEF w
  <2>3. /\ StoreOk(store) /\ StoreOk(disk) /\ IsSeq(Undecoded) /\ IsSeq(tail)
        /\ ~garbled => ToldBehind(Undecoded, store) /\ ToldBehind(tail, disk)
    BY EmptyFacts DEF SessionInv, Undecoded
  <2>4. \A history \in HistoriesOf(store) \cup HistoriesOf(disk) :
           \A i \in DOMAIN history : KeepsDim(<<>>, history, i)
    BY <2>1, <2>3 DEF HistoriesOf
  <2>5. ~garbled => /\ \A i \in DOMAIN (Undecoded \o store.history) : KeepsDim(<<>>, Undecoded \o store.history, i)
                    /\ \A i \in DOMAIN (tail \o disk.history) : KeepsDim(<<>>, tail \o disk.history, i)
    BY <2>2, <2>3
  <2>6. \A history \in Histories : \A i \in DOMAIN history : KeepsDim(<<>>, history, i)
    BY <2>4, <2>5 DEF Histories
  <2> QED BY <2>6 DEF DimensionsKept, KeepsDim
<1> QED BY <1>1, SessionSafe, PTL

\* AnalyzerAgrees: without memories and drift, the analyzer refuses what the engine does.
THEOREM AnalyzerIsRight == Spec => []AnalyzerAgrees
<1>1. SessionInv => AnalyzerAgrees
  <2> SUFFICES ASSUME SessionInv, host = "server", ~drift, store.memories = <<>>
               PROVE  /\ \A id \in Ids, emb \in Dims \cup {NoDim} :
                            Accepts(declared, InsertRecord(id, emb)) <=>
                               /\ id[1] \in DOMAIN store.tables \cup BuiltinTables
                               /\ ~ExecutePlan(store, InsertRecord(id, emb)).failed
                      /\ \A t \in Tables :
                            Accepts(declared, SelectRows(t, Root, "none", <<>>)) <=>
                               t \in DOMAIN store.tables \cup BuiltinTables
    BY DEF AnalyzerAgrees
  <2>1. declared = store.tables /\ StoreOk(store)
    BY DEF SessionInv
  <2>2. \A id \in Ids : ~BadId(id)
    BY IdsAssumption DEF BadId
  <2> QED BY <2>1, <2>2, InsertVerdict, SelectVerdict
<1> QED BY <1>1, SessionSafe, PTL
==============================================================================
