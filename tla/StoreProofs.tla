------------------------------ MODULE StoreProofs ------------------------------
(***************************************************************************)
(* What the proofs about every component need of a store: its shape, what  *)
(* a mutation and a compaction do to it, and that the history of a store   *)
(* declares its tables.                                                    *)
(***************************************************************************)
EXTENDS NqStore, FiniteSetTheorems, TLAPS

IsMap(map) == map = [key \in DOMAIN map |-> map[key]]

IsSeq(q) == q \in Seq(Range(q))

Parts == {"records", "edges", "vector_dims", "clock", "history", "memories", "tables"}

IsStore(st) == IsMap(st) /\ DOMAIN st = Parts

\* What a statement may do to a block it is not aimed at: a compaction of the
\* root shortens its history.
Same(st, st2) ==
    [st2 EXCEPT !.history = <<>>, !.memories = <<>>] = [st EXCEPT !.history = <<>>, !.memories = <<>>]

\* A store is what it was but for history and memories if nothing happened.
LEMMA SameIsReflexive == \A st : Same(st, st)
BY DEF Same

(***************************************************************************)
(* The tables a history declares, and the declarations that a compaction   *)
(* keeps: folds, with their equations.                                     *)
(***************************************************************************)

IsCreate(entry) == entry.stmt.op = "create"
Declarations(q) == Retain(q, IsCreate)

Declaring(none, index, entry) == DeclareEntry(index, entry)
KeepingDeclarations(none, kept, entry) == IF IsCreate(entry) THEN Append(kept, entry) ELSE kept

DeclareFold == INSTANCE Folding WITH Op <- Declaring
CreateFold == INSTANCE Folding WITH Op <- KeepingDeclarations

\* The domain, the length and the elements of a sequence.
LEMMA SeqFacts ==
    ASSUME NEW q, IsSeq(q)
    PROVE  DOMAIN q = 1..Len(q) /\ Len(q) \in Nat /\ \A i \in 1..Len(q) : q[i] \in Range(q)
BY DEF IsSeq, Range

\* What appending an element does to a sequence and to its prefixes.
LEMMA AppendFacts ==
    ASSUME NEW q, IsSeq(q), NEW x
    PROVE  /\ IsSeq(Append(q, x)) /\ Len(Append(q, x)) = Len(q) + 1
           /\ Append(q, x)[Len(q) + 1] = x /\ \A i \in 1..Len(q) : Append(q, x)[i] = q[i]
           /\ \A n \in 0..Len(q) : SubSeq(Append(q, x), 1, n) = SubSeq(q, 1, n)
<1> DEFINE S == Range(q) \cup {x}
           r == Append(q, x)
<1>1. q \in Seq(S)
  BY DEF IsSeq
<1>2. x \in S
  OBVIOUS
<1> HIDE DEF S
<1>3. /\ r \in Seq(S) /\ Len(r) = Len(q) + 1 /\ Len(q) \in Nat
      /\ r[Len(q) + 1] = x /\ \A i \in 1..Len(q) : r[i] = q[i]
  BY <1>1, <1>2
<1>4. \A n \in 0..Len(q) : SubSeq(r, 1, n) = SubSeq(q, 1, n)
  BY <1>1, <1>2
<1>5. IsSeq(r)
  BY <1>3 DEF IsSeq, Range
<1> QED BY <1>3, <1>4, <1>5

\* The empty sequence.
LEMMA EmptyFacts == IsSeq(<<>>) /\ Len(<<>>) = 0
BY DEF IsSeq

\* The prefixes of a sequence, each the one before it and one element more.
LEMMA PrefixFacts ==
    ASSUME NEW q, IsSeq(q)
    PROVE  /\ SubSeq(q, 1, 0) = <<>> /\ SubSeq(q, 1, Len(q)) = q
           /\ \A n \in 0..Len(q) : IsSeq(SubSeq(q, 1, n)) /\ Len(SubSeq(q, 1, n)) = n
           /\ \A n \in Nat : n + 1 <= Len(q) =>
                 SubSeq(q, 1, n + 1) = Append(SubSeq(q, 1, n), q[n + 1])
<1>1. \A n \in 0..Len(q) : \A i \in 1..n : SubSeq(q, 1, n)[i] = q[i]
  BY DEF IsSeq
<1>2. ASSUME NEW n \in 0..Len(q) PROVE IsSeq(SubSeq(q, 1, n))
  <2> DEFINE r == SubSeq(q, 1, n)
  <2>1. q \in Seq(Range(q))
    BY DEF IsSeq
  <2>2. r \in Seq(Range(q)) /\ Len(r) = n
    BY <2>1, DeclareFold!PrefixesGrow
  <2> HIDE DEF r
  <2>3. r \in Seq({r[i] : i \in DOMAIN r})
    BY <2>2
  <2> QED BY <2>3 DEF r, IsSeq, Range
<1> QED BY <1>2, DeclareFold!PrefixesGrow DEF IsSeq

\* The tables a history declares beside those known before, entry by entry.
LEMMA DeclareEquations ==
    /\ \A t : DeclaredBy(<<>>, t) = t
    /\ \A t, q, x : IsSeq(q) => DeclaredBy(Append(q, x), t) = DeclareEntry(DeclaredBy(q, t), x)
<1>1. \A t, q : DeclaredBy(q, t) = DeclareFold!Fold(0, t, q)
  BY DEF DeclaredBy, Declaring, DeclareEntry, FoldLeft, MapThenFoldSet, Max,
        DeclareFold!Fold, DeclareFold!FoldLeft, DeclareFold!MapThenFoldSet, DeclareFold!Max
<1>2. ASSUME NEW t, NEW q, NEW x, IsSeq(q)
      PROVE  DeclaredBy(Append(q, x), t) = DeclareEntry(DeclaredBy(q, t), x)
  <2>1. q \in Seq(Range(q) \cup {x}) /\ x \in Range(q) \cup {x}
    BY <1>2 DEF IsSeq
  <2>2. DeclareFold!Fold(0, t, Append(q, x)) = Declaring(0, DeclareFold!Fold(0, t, q), x)
    BY <2>1, DeclareFold!FoldAppend
  <2> QED BY <1>1, <2>2 DEF Declaring
<1>3. \A t : DeclareFold!Fold(0, t, <<>>) = t
  BY DeclareFold!FoldEmpty
<1> QED BY <1>1, <1>2, <1>3

\* The declarations a compaction keeps, entry by entry.
LEMMA DeclarationEquations ==
    /\ Declarations(<<>>) = <<>>
    /\ \A q, x : IsSeq(q) => Declarations(Append(q, x)) = IF IsCreate(x) THEN Append(Declarations(q), x) ELSE Declarations(q)
<1>1. \A q : Declarations(q) = CreateFold!Fold(0, <<>>, q)
  BY DEF Declarations, Retain, KeepingDeclarations, IsCreate, FoldLeft, MapThenFoldSet, Max,
        CreateFold!Fold, CreateFold!FoldLeft, CreateFold!MapThenFoldSet, CreateFold!Max
<1>2. ASSUME NEW q, NEW x, IsSeq(q)
      PROVE  Declarations(Append(q, x)) = IF IsCreate(x) THEN Append(Declarations(q), x) ELSE Declarations(q)
  <2>1. q \in Seq(Range(q) \cup {x}) /\ x \in Range(q) \cup {x}
    BY <1>2 DEF IsSeq
  <2>2. CreateFold!Fold(0, <<>>, Append(q, x)) = KeepingDeclarations(0, CreateFold!Fold(0, <<>>, q), x)
    BY <2>1, CreateFold!FoldAppend
  <2> QED BY <1>1, <2>2 DEF KeepingDeclarations
<1>3. CreateFold!Fold(0, <<>>, <<>>) = <<>>
  BY CreateFold!FoldEmpty
<1> QED BY <1>1, <1>2, <1>3

\* The kept declarations are entries of the history.
LEMMA DeclarationFacts ==
    ASSUME NEW q, IsSeq(q)
    PROVE  /\ IsSeq(Declarations(q))
           /\ \A i \in 1..Len(Declarations(q)) : Declarations(q)[i] \in {x \in Range(q) : IsCreate(x)}
<1> DEFINE E == Range(q)
           C == {x \in E : IsCreate(x)}
           good == {r \in Seq(E) : Declarations(r) \in Seq(C)}
<1>1. <<>> \in good
  <2>1. <<>> \in Seq(E) /\ <<>> \in Seq(C)
    OBVIOUS
  <2> QED BY <2>1, DeclarationEquations
<1>2. ASSUME NEW r \in good, NEW x \in E PROVE Append(r, x) \in good
  <2>1. IsSeq(r)
    BY DEF IsSeq, Range
  <2>2. Declarations(Append(r, x)) = IF IsCreate(x) THEN Append(Declarations(r), x) ELSE Declarations(r)
    BY <2>1, DeclarationEquations
  <2>3. Declarations(r) \in Seq(C) /\ Append(r, x) \in Seq(E)
    OBVIOUS
  <2>4. IsCreate(x) => Append(Declarations(r), x) \in Seq(C)
    BY <2>3
  <2> QED BY <2>2, <2>3, <2>4
<1> HIDE DEF good, E
<1>3. q \in Seq(E)
  BY DEF IsSeq, E
<1>4. q \in good
  BY <1>1, <1>2, <1>3, DeclareFold!SeqInduction
<1>5. Declarations(q) \in Seq(C)
  BY <1>4 DEF good
<1>6. \A i \in 1..Len(Declarations(q)) : Declarations(q)[i] \in C
  BY <1>5
<1>7. IsSeq(Declarations(q))
  BY <1>5 DEF IsSeq, Range
<1> QED BY <1>6, <1>7 DEF E

\* They declare what the whole history declares.
LEMMA DeclarationsDeclare ==
    ASSUME NEW q, IsSeq(q), NEW t
    PROVE  DeclaredBy(Declarations(q), t) = DeclaredBy(q, t)
<1> DEFINE E == Range(q)
           good == {r \in Seq(E) : DeclaredBy(Declarations(r), t) = DeclaredBy(r, t)}
<1>1. <<>> \in good
  <2>1. <<>> \in Seq(E)
    OBVIOUS
  <2> QED BY <2>1, DeclarationEquations
<1>2. ASSUME NEW r \in good, NEW x \in E PROVE Append(r, x) \in good
  <2>1. IsSeq(r) /\ Append(r, x) \in Seq(E)
    BY DEF IsSeq, Range
  <2>2. IsSeq(Declarations(r))
    BY <2>1, DeclarationFacts
  <2>3. DeclaredBy(Append(Declarations(r), x), t) = DeclareEntry(DeclaredBy(Declarations(r), t), x)
    BY <2>2, DeclareEquations
  <2>4. DeclaredBy(Append(r, x), t) = DeclareEntry(DeclaredBy(r, t), x)
    BY <2>1, DeclareEquations
  <2>5. Declarations(Append(r, x)) = IF IsCreate(x) THEN Append(Declarations(r), x) ELSE Declarations(r)
    BY <2>1, DeclarationEquations
  <2>6. ~IsCreate(x) => DeclareEntry(DeclaredBy(r, t), x) = DeclaredBy(r, t)
    BY DEF DeclareEntry, IsCreate
  <2> QED BY <2>1, <2>3, <2>4, <2>5, <2>6
<1> HIDE DEF good, E
<1>3. q \in Seq(E)
  BY DEF IsSeq, E
<1>4. q \in good
  BY <1>1, <1>2, <1>3, DeclareFold!SeqInduction
<1> QED BY <1>4 DEF good

\* A history behind another one declares what it declares beside the first.
LEMMA DeclaredBehind ==
    ASSUME NEW u, IsSeq(u), NEW q, IsSeq(q)
    PROVE  /\ IsSeq(u \o q) /\ Len(u \o q) = Len(u) + Len(q)
           /\ \A i \in 1..Len(u) : (u \o q)[i] = u[i]
           /\ \A i \in 1..Len(q) : (u \o q)[Len(u) + i] = q[i]
           /\ \A t : DeclaredBy(u \o q, t) = DeclaredBy(q, DeclaredBy(u, t))
<1> DEFINE E == Range(q)
           U == Range(u) \cup E
           good == {r \in Seq(E) : \A t : DeclaredBy(u \o r, t) = DeclaredBy(r, DeclaredBy(u, t))}
<1>1. u \in Seq(U) /\ q \in Seq(U) /\ q \in Seq(E)
  BY DEF IsSeq
<1>2. \A w : w \in Seq(U) => IsSeq(w)
  BY DEF IsSeq, Range
<1>3. <<>> \in good
  <2>1. <<>> \in Seq(E) /\ u \o <<>> = u
    BY <1>1
  <2> QED BY <2>1, DeclareEquations
<1>4. ASSUME NEW r \in good, NEW x \in E PROVE Append(r, x) \in good
  <2>1. r \in Seq(U) /\ r \in Seq(E) /\ x \in U
    BY <1>1
  <2> HIDE DEF U, E
  <2>2. u \o Append(r, x) = Append(u \o r, x) /\ u \o r \in Seq(U) /\ Append(r, x) \in Seq(E)
    BY <1>1, <2>1
  <2>3. IsSeq(u \o r) /\ IsSeq(r)
    BY <1>2, <2>1, <2>2
  <2>4. \A t : DeclaredBy(u \o r, t) = DeclaredBy(r, DeclaredBy(u, t))
    OBVIOUS
  <2>5. /\ \A t : DeclaredBy(Append(u \o r, x), t) = DeclareEntry(DeclaredBy(u \o r, t), x)
        /\ \A t : DeclaredBy(Append(r, x), t) = DeclareEntry(DeclaredBy(r, t), x)
    BY <2>3, DeclareEquations
  <2>6. \A t : DeclaredBy(u \o Append(r, x), t) = DeclaredBy(Append(r, x), DeclaredBy(u, t))
    BY <2>2, <2>4, <2>5
  <2> QED BY <2>2, <2>6
<1> HIDE DEF good, E
<1>5. q \in good
  BY <1>1, <1>3, <1>4, DeclareFold!SeqInduction
<1> HIDE DEF U
<1>6. /\ u \o q \in Seq(U) /\ Len(u \o q) = Len(u) + Len(q)
      /\ \A i \in 1..Len(u) : (u \o q)[i] = u[i]
      /\ \A i \in 1..Len(q) : (u \o q)[Len(u) + i] = q[i]
  BY <1>1
<1> QED BY <1>2, <1>5, <1>6 DEF good

\* With fewer tables known before, fewer are known after, and those alike.
LEMMA DeclaredFromLess ==
    ASSUME NEW q, IsSeq(q), NEW t
    PROVE  \A table \in DOMAIN DeclaredBy(q, <<>>) :
              table \in DOMAIN DeclaredBy(q, t) /\ DeclaredBy(q, t)[table] = DeclaredBy(q, <<>>)[table]
<1> DEFINE E == Range(q)
           Less(a, b) == \A table \in DOMAIN a : table \in DOMAIN b /\ b[table] = a[table]
           good == {r \in Seq(E) : Less(DeclaredBy(r, <<>>), DeclaredBy(r, t))}
<1>1. <<>> \in good
  <2>1. <<>> \in Seq(E) /\ DOMAIN <<>> = {}
    OBVIOUS
  <2> QED BY <2>1, DeclareEquations
<1>2. ASSUME NEW r \in good, NEW x \in E PROVE Append(r, x) \in good
  <2>1. IsSeq(r) /\ Append(r, x) \in Seq(E)
    BY DEF IsSeq, Range
  <2> DEFINE a == DeclaredBy(r, <<>>)
             b == DeclaredBy(r, t)
  <2>2. Less(a, b)
    OBVIOUS
  <2>3. /\ DeclaredBy(Append(r, x), <<>>) = DeclareEntry(a, x)
        /\ DeclaredBy(Append(r, x), t) = DeclareEntry(b, x)
    BY <2>1, DeclareEquations
  <2> HIDE DEF a, b
  <2>4. Less(DeclareEntry(a, x), DeclareEntry(b, x))
    BY <2>2 DEF DeclareEntry, Put
  <2> QED BY <2>1, <2>3, <2>4
<1> HIDE DEF good, E
<1>3. q \in Seq(E)
  BY DEF IsSeq, E
<1>4. q \in good
  BY <1>1, <1>2, <1>3, DeclareFold!SeqInduction
<1> QED BY <1>4 DEF good

(***************************************************************************)
(* Statements against a store.                                             *)
(***************************************************************************)

\* A mutation keeps the shape of a store and leaves its memories alone.
LEMMA MutationsKeepBlocks ==
    ASSUME NEW st, NEW stmt, IsStore(st), stmt.op \in Mutations
    PROVE  IsStore(Execute(st, stmt)) /\ Execute(st, stmt).memories = st.memories
<1>1. ASSUME NEW st2, IsStore(st2), st2.memories = st.memories
      PROVE  IsStore(LogMutation(st2, stmt)) /\ LogMutation(st2, stmt).memories = st.memories
  BY <1>1 DEF LogMutation, IsStore, IsMap, Parts
<1>2. CASE stmt.op = "create"
  <2>1. IsStore(Declare(st, stmt)) /\ Declare(st, stmt).memories = st.memories
    BY DEF Declare, IsStore, IsMap, Parts
  <2> QED BY <1>1, <1>2, <2>1 DEF Execute
<1>3. CASE stmt.op = "insert"
  <2>1. IsStore(Upsert(st, stmt)) /\ Upsert(st, stmt).memories = st.memories
    BY DEF Upsert, IsStore, IsMap, Parts
  <2> QED BY <1>1, <1>3, <2>1 DEF Execute
<1>4. CASE stmt.op = "relate"
  <2>1. IsStore(Link(st, stmt)) /\ Link(st, stmt).memories = st.memories
    BY DEF Link, IsStore, IsMap, Parts
  <2> QED BY <1>1, <1>4, <2>1 DEF Execute
<1>5. CASE stmt.op = "forget"
  <2>1. IsStore(Erase(st, stmt)) /\ Erase(st, stmt).memories = st.memories
    BY DEF Erase, IsStore, IsMap, Parts
  <2> QED BY <1>1, <1>5, <2>1 DEF Execute
<1> QED BY <1>2, <1>3, <1>4, <1>5 DEF Mutations

\* Compacting one block changes nothing but its history.
LEMMA PruneOneKeepsState ==
    ASSUME NEW st, IsStore(st)
    PROVE  IsStore(PruneOne(st)) /\ Same(st, PruneOne(st)) /\ PruneOne(st).memories = st.memories
BY DEF PruneOne, IsStore, IsMap, Parts, Same

\* A compaction changes histories only: the root's and every memory's.
LEMMA PruneHistoryKeepsState ==
    ASSUME NEW st, IsStore(st)
    PROVE  /\ IsStore(PruneHistory(st)) /\ Same(st, PruneHistory(st))
           /\ PruneHistory(st).memories = [m \in DOMAIN st.memories |-> PruneOne(st.memories[m])]
<1> DEFINE compact == [st EXCEPT !.memories = [m \in DOMAIN @ |-> PruneOne(@[m])]]
<1>1. /\ IsStore(compact) /\ Same(st, compact)
      /\ compact.memories = [m \in DOMAIN st.memories |-> PruneOne(st.memories[m])]
  BY DEF IsStore, IsMap, Parts, Same
<1>2. PruneHistory(st) = PruneOne(compact)
  BY DEF PruneHistory
<1> QED BY ZenonT(30), <1>1, <1>2, PruneOneKeepsState DEF Same

\* What a mutation does to what a query sees, and whether it fails, depends
\* on that and on the clock alone.
LEMMA ViewDetermines ==
    ASSUME NEW a, NEW b, IsStore(a), IsStore(b), View(a) = View(b), a.clock = b.clock,
           NEW stmt, stmt.op \in Mutations
    PROVE  /\ Fails(a, stmt) <=> Fails(b, stmt)
           /\ View(Execute(a, stmt)) = View(Execute(b, stmt))
<1>1. a.records = b.records /\ a.edges = b.edges /\ a.vector_dims = b.vector_dims
  BY DEF View
<1>2. Fails(a, stmt) <=> Fails(b, stmt)
  BY <1>1 DEF Fails, Mutations, WrongDim, TemporalReads
<1>3. ASSUME NEW c, NEW e, IsStore(c), IsStore(e), View(c) = View(e)
      PROVE  View(LogMutation(c, stmt)) = View(LogMutation(e, stmt))
  BY <1>3 DEF LogMutation, View, IsStore, IsMap, Parts
<1>4. CASE stmt.op = "create"
  <2>1. /\ IsStore(Declare(a, stmt)) /\ IsStore(Declare(b, stmt))
        /\ View(Declare(a, stmt)) = View(Declare(b, stmt))
    BY <1>1 DEF Declare, View, IsStore, IsMap, Parts
  <2>2. View(LogMutation(Declare(a, stmt), stmt)) = View(LogMutation(Declare(b, stmt), stmt))
    BY <1>3, <2>1
  <2> QED BY <1>2, <1>4, <2>2 DEF Execute
<1>5. CASE stmt.op = "insert"
  <2>1. /\ IsStore(Upsert(a, stmt)) /\ IsStore(Upsert(b, stmt))
        /\ View(Upsert(a, stmt)) = View(Upsert(b, stmt))
    BY <1>1 DEF Upsert, View, IsStore, IsMap, Parts, Stamp
  <2>2. View(LogMutation(Upsert(a, stmt), stmt)) = View(LogMutation(Upsert(b, stmt), stmt))
    BY <1>3, <2>1
  <2> QED BY <1>2, <1>5, <2>2 DEF Execute
<1>6. CASE stmt.op = "relate"
  <2>1. /\ IsStore(Link(a, stmt)) /\ IsStore(Link(b, stmt))
        /\ View(Link(a, stmt)) = View(Link(b, stmt))
    BY <1>1 DEF Link, View, IsStore, IsMap, Parts, Stamp
  <2>2. View(LogMutation(Link(a, stmt), stmt)) = View(LogMutation(Link(b, stmt), stmt))
    BY <1>3, <2>1
  <2> QED BY <1>2, <1>6, <2>2 DEF Execute
<1>7. CASE stmt.op = "forget"
  <2>1. /\ IsStore(Erase(a, stmt)) /\ IsStore(Erase(b, stmt))
        /\ View(Erase(a, stmt)) = View(Erase(b, stmt))
    BY <1>1 DEF Erase, View, IsStore, IsMap, Parts
  <2>2. View(LogMutation(Erase(a, stmt), stmt)) = View(LogMutation(Erase(b, stmt), stmt))
    BY <1>3, <2>1
  <2> QED BY <1>2, <1>7, <2>2 DEF Execute
<1> QED BY <1>2, <1>4, <1>5, <1>6, <1>7 DEF Mutations

\* What else a mutation does.
LEMMA MutationFacts ==
    ASSUME NEW st, IsStore(st), NEW stmt, stmt.op \in Mutations
    PROVE  /\ Execute(st, stmt).clock = st.clock + 1
           /\ Execute(st, stmt).history = Append(st.history, [ts |-> st.clock + 1, stmt |-> stmt])
           /\ stmt.op # "create" => /\ Execute(st, stmt).tables = st.tables
                                    /\ Execute(st, stmt).vector_dims = st.vector_dims
           /\ stmt.op = "create" => /\ Execute(st, stmt).tables = Declare(st, stmt).tables
                                    /\ Execute(st, stmt).vector_dims = Declare(st, stmt).vector_dims
<1>1. ASSUME NEW c, IsStore(c)
      PROVE  /\ LogMutation(c, stmt).clock = c.clock + 1
             /\ LogMutation(c, stmt).history = Append(c.history, [ts |-> c.clock + 1, stmt |-> stmt])
             /\ LogMutation(c, stmt).tables = c.tables
             /\ LogMutation(c, stmt).vector_dims = c.vector_dims
  BY <1>1 DEF LogMutation, IsStore, IsMap, Parts
<1>2. CASE stmt.op = "create"
  <2>1. /\ IsStore(Declare(st, stmt)) /\ Declare(st, stmt).clock = st.clock
        /\ Declare(st, stmt).history = st.history
    BY DEF Declare, IsStore, IsMap, Parts
  <2> QED BY <1>1, <1>2, <2>1 DEF Execute
<1>3. CASE stmt.op = "insert"
  <2>1. /\ IsStore(Upsert(st, stmt)) /\ Upsert(st, stmt).clock = st.clock
        /\ Upsert(st, stmt).history = st.history
        /\ Upsert(st, stmt).tables = st.tables /\ Upsert(st, stmt).vector_dims = st.vector_dims
    BY DEF Upsert, IsStore, IsMap, Parts
  <2> QED BY <1>1, <1>3, <2>1 DEF Execute
<1>4. CASE stmt.op = "relate"
  <2>1. /\ IsStore(Link(st, stmt)) /\ Link(st, stmt).clock = st.clock
        /\ Link(st, stmt).history = st.history
        /\ Link(st, stmt).tables = st.tables /\ Link(st, stmt).vector_dims = st.vector_dims
    BY DEF Link, IsStore, IsMap, Parts
  <2> QED BY <1>1, <1>4, <2>1 DEF Execute
<1>5. CASE stmt.op = "forget"
  <2>1. /\ IsStore(Erase(st, stmt)) /\ Erase(st, stmt).clock = st.clock
        /\ Erase(st, stmt).history = st.history
        /\ Erase(st, stmt).tables = st.tables /\ Erase(st, stmt).vector_dims = st.vector_dims
    BY DEF Erase, IsStore, IsMap, Parts
  <2> QED BY <1>1, <1>5, <2>1 DEF Execute
<1> QED BY <1>2, <1>3, <1>4, <1>5 DEF Mutations

(***************************************************************************)
(* The table index is what the history declares.                           *)
(***************************************************************************)

DimsOf(tables) == RestrictValues(tables, LAMBDA dim : dim # NoDim)

DeclaresTables(st) ==
    /\ DeclaredBy(st.history, <<>>) = st.tables
    /\ st.vector_dims = DimsOf(st.tables)

\* Declaring a table keeps the dimensions those of the tables.
LEMMA DeclareKeepsDims ==
    ASSUME NEW st, IsStore(st), NEW stmt,
           st.vector_dims = DimsOf(st.tables)
    PROVE  /\ Declare(st, stmt).tables = Put(st.tables, stmt.table, stmt.dim)
           /\ Declare(st, stmt).vector_dims = DimsOf(Declare(st, stmt).tables)
<1> DEFINE dims == st.vector_dims
           tables == st.tables
           new == IF stmt.dim = NoDim THEN Drop(dims, stmt.table) ELSE Put(dims, stmt.table, stmt.dim)
<1>1. /\ Declare(st, stmt).tables = Put(tables, stmt.table, stmt.dim)
      /\ Declare(st, stmt).vector_dims = new
  BY DEF Declare, IsStore, IsMap, Parts
<1>2. new = DimsOf(Put(tables, stmt.table, stmt.dim))
  BY DEF DimsOf, RestrictValues, Restrict, Put, Drop
<1> QED BY <1>1, <1>2

\* What a mutation does to the tables: the history declares them as before, whatever
\* tables were known before it.
LEMMA MutationTables ==
    ASSUME NEW st, IsStore(st), IsSeq(st.history), st.vector_dims = DimsOf(st.tables),
           NEW stmt, stmt.op \in Mutations
    PROVE  /\ Execute(st, stmt).tables = IF stmt.op = "create" THEN Put(st.tables, stmt.table, stmt.dim)
                                         ELSE st.tables
           /\ Execute(st, stmt).vector_dims = DimsOf(Execute(st, stmt).tables)
           /\ \A t : DeclaredBy(st.history, t) = st.tables
                     => DeclaredBy(Execute(st, stmt).history, t) = Execute(st, stmt).tables
<1> DEFINE entry == [ts |-> st.clock + 1, stmt |-> stmt]
           st2 == Execute(st, stmt)
<1>1. ASSUME NEW t, DeclaredBy(st.history, t) = st.tables
      PROVE  DeclaredBy(st2.history, t) = DeclareEntry(st.tables, entry)
  <2>1. st2.history = Append(st.history, entry)
    BY MutationFacts
  <2>2. DeclaredBy(Append(st.history, entry), t) = DeclareEntry(DeclaredBy(st.history, t), entry)
    BY DeclareEquations
  <2> QED BY <1>1, <2>1, <2>2
<1>2. CASE stmt.op = "create"
  <2>1. /\ st2.tables = Put(st.tables, stmt.table, stmt.dim)
        /\ st2.vector_dims = DimsOf(st2.tables)
    <3>1. st2.tables = Declare(st, stmt).tables /\ st2.vector_dims = Declare(st, stmt).vector_dims
      BY ZenonT(30), <1>2, MutationFacts
    <3> QED BY <3>1, DeclareKeepsDims
  <2>2. DeclareEntry(st.tables, entry) = Put(st.tables, stmt.table, stmt.dim)
    BY <1>2 DEF DeclareEntry
  <2> QED BY <1>1, <1>2, <2>1, <2>2
<1>3. CASE stmt.op # "create"
  <2>1. st2.tables = st.tables /\ st2.vector_dims = st.vector_dims
    BY <1>3, MutationFacts
  <2>2. DeclareEntry(st.tables, entry) = st.tables
    BY <1>3 DEF DeclareEntry
  <2> QED BY <1>1, <1>3, <2>1, <2>2
<1> QED BY <1>2, <1>3

\* The history keeps declaring the tables.
LEMMA MutationDeclares ==
    ASSUME NEW st, IsStore(st), IsSeq(st.history), DeclaresTables(st),
           NEW stmt, stmt.op \in Mutations
    PROVE  DeclaresTables(Execute(st, stmt))
BY MutationTables DEF DeclaresTables

(***************************************************************************)
(* One block of a store, with what its history says.                       *)
(***************************************************************************)

\* The insert at i, if it is one, has the dimension its table has by then, when the
\* tables t were known before the history.
KeepsDim(t, history, i) ==
    LET stmt == history[i].stmt
        known == DeclaredBy(SubSeq(history, 1, i - 1), t)
    IN  stmt.op = "insert" /\ stmt.id[1] \in DOMAIN known /\ known[stmt.id[1]] # NoDim
        => stmt.emb \in {NoDim, known[stmt.id[1]]}

\* A history that explains the tables, from the tables t.
Explains(t, history, tables) ==
    /\ DeclaredBy(history, t) = tables
    /\ \A i \in 1..Len(history) : KeepsDim(t, history, i)

Told(t, st) == Explains(t, st.history, st.tables)

Shaped(st) ==
    /\ IsStore(st) /\ IsSeq(st.history) /\ st.vector_dims = DimsOf(st.tables)
    /\ IsMap(st.tables) /\ IsFiniteSet(DOMAIN st.tables)

\* A block with its whole history, as the memories are.
BlockOk(st) == Shaped(st) /\ Told(<<>>, st)

IsClient(stmt) == stmt.op \notin {"snapshot", "reset"}
IsPlan(plan) == IsSeq(plan) /\ \A i \in 1..Len(plan) : IsClient(plan[i])

\* One history behind another one.
LEMMA ExplainedTogether ==
    ASSUME NEW t, NEW u, IsSeq(u), NEW q, IsSeq(q), NEW tables,
           \A i \in 1..Len(u) : KeepsDim(t, u, i), Explains(DeclaredBy(u, t), q, tables)
    PROVE  Explains(t, u \o q, tables)
<1> DEFINE w == u \o q
<1>1. /\ IsSeq(w) /\ Len(w) = Len(u) + Len(q) /\ Len(u) \in Nat /\ Len(q) \in Nat
      /\ \A i \in 1..Len(u) : w[i] = u[i]
      /\ \A i \in 1..Len(q) : w[Len(u) + i] = q[i]
      /\ DeclaredBy(w, t) = DeclaredBy(q, DeclaredBy(u, t))
  BY DeclaredBehind, SeqFacts
<1>2. u \in Seq(Range(u) \cup Range(q)) /\ q \in Seq(Range(u) \cup Range(q))
  BY DEF IsSeq
<1>3. ASSUME NEW i \in 1..Len(w) PROVE KeepsDim(t, w, i)
  <2>1. CASE i \in 1..Len(u)
    <3>1. SubSeq(w, 1, i - 1) = SubSeq(u, 1, i - 1)
      <4> DEFINE S == Range(u) \cup Range(q)
      <4> HIDE DEF S
      <4>1. u \in Seq(S) /\ q \in Seq(S) /\ i - 1 \in 0..Len(u)
        BY <1>1, <1>2, <2>1 DEF S
      <4> QED BY <4>1
    <3>2. w[i] = u[i] /\ KeepsDim(t, u, i)
      BY <1>1, <2>1
    <3> HIDE DEF w
    <3> QED BY <3>1, <3>2 DEF KeepsDim
  <2>2. CASE i \notin 1..Len(u)
    <3> DEFINE k == i - Len(u)
    <3>1. k \in 1..Len(q) /\ i = Len(u) + k /\ w[i] = q[k]
      BY <1>1, <2>2
    <3>2. SubSeq(w, 1, i - 1) = u \o SubSeq(q, 1, k - 1)
      <4> DEFINE S == Range(u) \cup Range(q)
      <4> HIDE DEF S
      <4>1. u \in Seq(S) /\ q \in Seq(S) /\ k \in 1..Len(q) /\ i - 1 = Len(u) + (k - 1)
        BY <1>2, <3>1 DEF S
      <4> HIDE DEF k
      <4> QED BY <4>1
    <3>3. IsSeq(SubSeq(q, 1, k - 1))
      <4>1. k - 1 \in 0..Len(q)
        BY <1>1, <3>1
      <4> QED BY <4>1, PrefixFacts
    <3>4. DeclaredBy(SubSeq(w, 1, i - 1), t) = DeclaredBy(SubSeq(q, 1, k - 1), DeclaredBy(u, t))
      <4> DEFINE r == SubSeq(q, 1, k - 1)
      <4> HIDE DEF r
      <4>1. DeclaredBy(u \o r, t) = DeclaredBy(r, DeclaredBy(u, t))
        BY <3>3, DeclaredBehind DEF r
      <4> QED BY <3>2, <4>1 DEF r
    <3>5. KeepsDim(DeclaredBy(u, t), q, k)
      BY <3>1 DEF Explains
    <3> HIDE DEF w, k
    <3> QED BY <3>1, <3>4, <3>5 DEF KeepsDim
  <2> QED BY <2>1, <2>2
<1>4. DeclaredBy(q, DeclaredBy(u, t)) = tables
  BY DEF Explains
<1> HIDE DEF w
<1> QED BY <1>1, <1>3, <1>4 DEF Explains, w

\* What is known without the tables before the history was known with them.
LEMMA KeepsDimFromLess ==
    ASSUME NEW t, NEW q, IsSeq(q), NEW i \in 1..Len(q), KeepsDim(t, q, i)
    PROVE  KeepsDim(<<>>, q, i)
<1> DEFINE r == SubSeq(q, 1, i - 1)
<1>1. IsSeq(r)
  <2>1. i - 1 \in 0..Len(q)
    BY SeqFacts
  <2> QED BY <2>1, PrefixFacts
<1> HIDE DEF r
<1>2. \A table \in DOMAIN DeclaredBy(r, <<>>) :
         table \in DOMAIN DeclaredBy(r, t) /\ DeclaredBy(r, t)[table] = DeclaredBy(r, <<>>)[table]
  BY <1>1, DeclaredFromLess
<1> QED BY <1>2 DEF KeepsDim, r

\* A mutation keeps a block in order, and forgets none of its tables.
LEMMA MutateBlock ==
    ASSUME NEW st, Shaped(st), NEW stmt, stmt.op \in Mutations, ~Fails(st, stmt)
    PROVE  /\ Shaped(Execute(st, stmt)) /\ Execute(st, stmt).memories = st.memories
           /\ \A t : Told(t, st) => Told(t, Execute(st, stmt))
           /\ Execute(st, stmt).tables = IF stmt.op = "create" THEN Put(st.tables, stmt.table, stmt.dim)
                                         ELSE st.tables
<1> DEFINE st2 == Execute(st, stmt)
           entry == [ts |-> st.clock + 1, stmt |-> stmt]
           h == st.history
           h2 == Append(h, entry)
<1>1. /\ IsStore(st) /\ IsSeq(h) /\ st.vector_dims = DimsOf(st.tables)
      /\ IsMap(st.tables) /\ IsFiniteSet(DOMAIN st.tables)
  BY DEF Shaped
<1>2. IsStore(st2) /\ st2.memories = st.memories /\ st2.history = h2
  BY <1>1, MutationsKeepBlocks, MutationFacts
<1>3. /\ st2.tables = IF stmt.op = "create" THEN Put(st.tables, stmt.table, stmt.dim) ELSE st.tables
      /\ st2.vector_dims = DimsOf(st2.tables)
      /\ \A t : DeclaredBy(h, t) = st.tables => DeclaredBy(st2.history, t) = st2.tables
  BY <1>1, MutationTables
<1>5. IsMap(st2.tables) /\ IsFiniteSet(DOMAIN st2.tables)
  <2>1. IsMap(Put(st.tables, stmt.table, stmt.dim))
    BY DEF IsMap, Put
  <2>2. DOMAIN Put(st.tables, stmt.table, stmt.dim) = DOMAIN st.tables \cup {stmt.table}
    BY DEF Put
  <2>3. IsFiniteSet(DOMAIN st.tables \cup {stmt.table})
    BY <1>1, FS_AddElement
  <2> QED BY <1>1, <1>3, <2>1, <2>2, <2>3
<1>6. IsSeq(h2) /\ Len(h2) = Len(h) + 1 /\ h2[Len(h) + 1] = entry /\ Len(h) \in Nat
  BY <1>1, AppendFacts, SeqFacts
<1>7. ASSUME NEW t, Told(t, st), NEW i \in 1..Len(h2) PROVE KeepsDim(t, h2, i)
  <2>0. DeclaredBy(h, t) = st.tables /\ \A j \in 1..Len(h) : KeepsDim(t, h, j)
    BY <1>7 DEF Told, Explains
  <2>1. CASE i \in 1..Len(h)
    <3>1. h2[i] = h[i] /\ i - 1 \in 0..Len(h)
      BY <1>1, <1>6, <2>1, AppendFacts
    <3>2. SubSeq(h2, 1, i - 1) = SubSeq(h, 1, i - 1)
      BY <1>1, <3>1, AppendFacts
    <3>3. KeepsDim(t, h, i)
      BY <2>0, <2>1
    <3> QED BY <3>1, <3>2, <3>3 DEF KeepsDim
  <2>2. CASE i = Len(h) + 1
    <3>1. SubSeq(h2, 1, i - 1) = h
      <4>1. i - 1 = Len(h) /\ Len(h) \in 0..Len(h)
        BY <1>6, <2>2
      <4>2. SubSeq(h2, 1, Len(h)) = SubSeq(h, 1, Len(h))
        BY <1>1, <4>1, AppendFacts
      <4>3. SubSeq(h, 1, Len(h)) = h
        BY <1>1, PrefixFacts
      <4> QED BY <4>1, <4>2, <4>3
    <3>2. h2[i].stmt = stmt
      BY <1>6, <2>2
    <3>3. ASSUME stmt.op = "insert", stmt.id[1] \in DOMAIN st.tables, st.tables[stmt.id[1]] # NoDim
          PROVE  stmt.emb \in {NoDim, st.tables[stmt.id[1]]}
      <4>1. stmt.id[1] \in DOMAIN st.vector_dims /\ st.vector_dims[stmt.id[1]] = st.tables[stmt.id[1]]
        BY <1>1, <3>3 DEF DimsOf, RestrictValues, Restrict
      <4>2. ~WrongDim(st, stmt)
        BY <3>3 DEF Fails
      <4> QED BY <4>1, <4>2 DEF WrongDim
    <3> QED BY <2>0, <3>1, <3>2, <3>3 DEF KeepsDim
  <2> QED BY <1>6, <2>1, <2>2
<1> HIDE DEF st2, h2
<1>8. Shaped(st2)
  BY <1>2, <1>3, <1>5, <1>6 DEF Shaped
<1>9. ASSUME NEW t, Told(t, st) PROVE Told(t, st2)
  <2>1. DeclaredBy(h, t) = st.tables
    BY <1>9 DEF Told, Explains
  <2> QED BY <1>2, <1>3, <1>7, <1>9, <2>1 DEF Told, Explains
<1> QED BY <1>2, <1>3, <1>8, <1>9 DEF st2

\* So does a compaction, which leaves no insert in the history.
LEMMA PruneBlock ==
    ASSUME NEW st, Shaped(st)
    PROVE  /\ Shaped(PruneOne(st)) /\ PruneOne(st).tables = st.tables
           /\ PruneOne(st).memories = st.memories
           /\ \A t : Told(t, st) => Told(t, PruneOne(st))
<1> DEFINE st2 == PruneOne(st)
           kept == Declarations(st.history)
           snap == [ts |-> st.clock, stmt |-> [op |-> "snapshot", state |-> SnapshotOf(st)]]
           h2 == Append(kept, snap)
<1>1. /\ IsStore(st) /\ IsSeq(st.history) /\ st.vector_dims = DimsOf(st.tables)
      /\ IsMap(st.tables) /\ IsFiniteSet(DOMAIN st.tables)
  BY DEF Shaped
<1>2. /\ IsStore(st2) /\ st2.history = h2 /\ st2.tables = st.tables /\ st2.memories = st.memories
      /\ st2.vector_dims = st.vector_dims
  BY <1>1 DEF PruneOne, Declarations, IsCreate, IsStore, IsMap, Parts
<1>3. IsSeq(kept) /\ \A i \in 1..Len(kept) : IsCreate(kept[i])
  BY <1>1, DeclarationFacts
<1>a. \A t : DeclaredBy(kept, t) = DeclaredBy(st.history, t)
  BY <1>1, DeclarationsDeclare
<1> HIDE DEF kept, st2
<1>4. /\ IsSeq(h2) /\ Len(h2) = Len(kept) + 1 /\ Len(kept) \in Nat
      /\ h2[Len(kept) + 1] = snap /\ \A i \in 1..Len(kept) : h2[i] = kept[i]
  BY <1>3, AppendFacts, SeqFacts
<1>5. \A t : DeclaredBy(h2, t) = DeclaredBy(st.history, t)
  <2>1. \A t : DeclaredBy(h2, t) = DeclareEntry(DeclaredBy(kept, t), snap)
    BY <1>3, DeclareEquations
  <2>2. \A index : DeclareEntry(index, snap) = index
    BY DEF DeclareEntry
  <2> QED BY <1>a, <2>1, <2>2
<1>6. ASSUME NEW t, NEW i \in 1..Len(h2) PROVE KeepsDim(t, h2, i)
  <2>1. i \in 1..Len(kept) => h2[i].stmt.op = "create"
    BY <1>3, <1>4 DEF IsCreate
  <2>2. i = Len(kept) + 1 => h2[i].stmt.op = "snapshot"
    BY <1>4
  <2>3. h2[i].stmt.op # "insert"
    BY <1>4, <2>1, <2>2
  <2> QED BY <2>3 DEF KeepsDim
<1> HIDE DEF h2
<1>7. Shaped(st2)
  BY <1>1, <1>2, <1>4 DEF Shaped
<1>8. \A t : Told(t, st) => Told(t, st2)
  BY <1>2, <1>5, <1>6 DEF Told, Explains
<1> QED BY <1>2, <1>7, <1>8 DEF st2

\* A statement against one block, whichever it is.
LEMMA ExecuteBlock ==
    ASSUME NEW st, Shaped(st), NEW stmt, IsClient(stmt), ~Fails(st, stmt)
    PROVE  /\ Shaped(Execute(st, stmt))
           /\ \A t : Told(t, st) => Told(t, Execute(st, stmt))
           /\ Execute(st, stmt).tables = IF stmt.op = "create" THEN Put(st.tables, stmt.table, stmt.dim)
                                         ELSE st.tables
           /\ Execute(st, stmt).memories =
                 IF stmt.op = "prune" THEN [m \in DOMAIN st.memories |-> PruneOne(st.memories[m])]
                 ELSE st.memories
<1>1. CASE stmt.op \in Mutations
  <2>1. stmt.op # "prune"
    BY <1>1 DEF Mutations
  <2> QED BY <1>1, <2>1, MutateBlock
<1>2. CASE stmt.op = "prune"
  <2> DEFINE compact == [st EXCEPT !.memories = [m \in DOMAIN @ |-> PruneOne(@[m])]]
  <2>1. IsStore(st)
    BY DEF Shaped
  <2>2. /\ IsStore(compact) /\ compact.history = st.history /\ compact.tables = st.tables
        /\ compact.vector_dims = st.vector_dims
        /\ compact.memories = [m \in DOMAIN st.memories |-> PruneOne(st.memories[m])]
    BY <2>1 DEF IsStore, IsMap, Parts
  <2>3. Execute(st, stmt) = PruneOne(compact)
    BY <1>2 DEF Execute, PruneHistory
  <2> HIDE DEF compact
  <2>4. Shaped(compact) /\ \A t : Told(t, st) => Told(t, compact)
    BY <2>2 DEF Shaped, Told
  <2>5. /\ Shaped(PruneOne(compact)) /\ PruneOne(compact).tables = compact.tables
        /\ PruneOne(compact).memories = compact.memories
        /\ \A t : Told(t, compact) => Told(t, PruneOne(compact))
    BY <2>4, PruneBlock
  <2> QED BY <1>2, <2>2, <2>3, <2>4, <2>5
<1>3. CASE stmt.op \notin Mutations \cup {"prune"}
  <2>1. Execute(st, stmt) = st
    BY <1>3 DEF Execute, IsClient, Mutations
  <2> QED BY <1>3, <2>1 DEF Mutations
<1> QED BY <1>1, <1>2, <1>3

\* The empty block.
LEMMA EmptyBlock == BlockOk(EmptyStore) /\ EmptyStore.memories = <<>> /\ DOMAIN <<>> = {}
<1>1. /\ EmptyStore.history = <<>> /\ EmptyStore.tables = <<>> /\ EmptyStore.vector_dims = <<>>
      /\ EmptyStore.memories = <<>> /\ IsStore(EmptyStore)
  BY DEF EmptyStore, IsStore, IsMap, Parts
<1>2. IsMap(<<>>) /\ DOMAIN <<>> = {} /\ IsFiniteSet({})
  BY FS_EmptySet DEF IsMap
<1>3. DimsOf(<<>>) = <<>>
  BY DEF DimsOf, RestrictValues, Restrict
<1>4. IsSeq(<<>>) /\ Len(<<>>) = 0 /\ DeclaredBy(<<>>, <<>>) = <<>>
  BY EmptyFacts, DeclareEquations
<1> QED BY <1>1, <1>2, <1>3, <1>4 DEF BlockOk, Shaped, Told, Explains

(***************************************************************************)
(* Plans.                                                                  *)
(***************************************************************************)

Executing(none, c, stmt) == IF c.failed THEN c ELSE ExecuteInContext(c, stmt)

PlanFold == INSTANCE Folding WITH Op <- Executing

\* A plan runs statement by statement.
LEMMA PlanEquations ==
    /\ \A st : ExecutePlan(st, <<>>) = AtRoot(st)
    /\ \A st, q, x : IsSeq(q) => ExecutePlan(st, Append(q, x)) =
          IF ExecutePlan(st, q).failed THEN ExecutePlan(st, q) ELSE ExecuteInContext(ExecutePlan(st, q), x)
<1>1. \A st, q : ExecutePlan(st, q) = PlanFold!Fold(0, AtRoot(st), q)
  BY DEF ExecutePlan, Executing, FoldLeft, MapThenFoldSet, Max,
        PlanFold!Fold, PlanFold!FoldLeft, PlanFold!MapThenFoldSet, PlanFold!Max
<1>2. ASSUME NEW st, NEW q, NEW x, IsSeq(q)
      PROVE  ExecutePlan(st, Append(q, x)) =
                IF ExecutePlan(st, q).failed THEN ExecutePlan(st, q) ELSE ExecuteInContext(ExecutePlan(st, q), x)
  <2>1. q \in Seq(Range(q) \cup {x}) /\ x \in Range(q) \cup {x}
    BY <1>2 DEF IsSeq
  <2>2. PlanFold!Fold(0, AtRoot(st), Append(q, x)) = Executing(0, PlanFold!Fold(0, AtRoot(st), q), x)
    BY <2>1, PlanFold!FoldAppend
  <2> QED BY <1>1, <2>2 DEF Executing
<1>3. \A st : PlanFold!Fold(0, AtRoot(st), <<>>) = AtRoot(st)
  BY PlanFold!FoldEmpty
<1> QED BY <1>1, <1>2, <1>3

(***************************************************************************)
(* Two stores that differ in the history of the root only: what is run on  *)
(* the one and on the other, but for what reads that history.              *)
(***************************************************************************)

MemoriesOk(st) ==
    /\ IsStore(st) /\ IsMap(st.memories)
    /\ \A m \in DOMAIN st.memories : BlockOk(st.memories[m])

RunOk(c) ==
    /\ c = [store |-> c.store, ctx |-> c.ctx, failed |-> c.failed] /\ c.failed \in BOOLEAN
    /\ MemoriesOk(c.store) /\ c.ctx \in {Root} \cup DOMAIN c.store.memories

\* Equal but for the history of the root.
Twins(a, b) == SnapshotOf(a) = SnapshotOf(b)
Alike(c, d) == c.ctx = d.ctx /\ Twins(c.store, d.store)

\* Twins agree in everything but the history.
LEMMA TwinsAgree ==
    ASSUME NEW a, NEW b, IsStore(a), IsStore(b)
    PROVE  Twins(a, b) <=> /\ a.records = b.records /\ a.edges = b.edges
                           /\ a.vector_dims = b.vector_dims /\ a.clock = b.clock
                           /\ a.memories = b.memories /\ a.tables = b.tables
<1>1. /\ SnapshotOf(a).records = a.records /\ SnapshotOf(a).edges = a.edges
      /\ SnapshotOf(a).vector_dims = a.vector_dims /\ SnapshotOf(a).clock = a.clock
      /\ SnapshotOf(a).memories = a.memories /\ SnapshotOf(a).tables = a.tables
      /\ SnapshotOf(a).history = <<>> /\ IsStore(SnapshotOf(a))
  BY DEF SnapshotOf, IsStore, IsMap, Parts
<1>2. /\ SnapshotOf(b).records = b.records /\ SnapshotOf(b).edges = b.edges
      /\ SnapshotOf(b).vector_dims = b.vector_dims /\ SnapshotOf(b).clock = b.clock
      /\ SnapshotOf(b).memories = b.memories /\ SnapshotOf(b).tables = b.tables
      /\ SnapshotOf(b).history = <<>> /\ IsStore(SnapshotOf(b))
  BY DEF SnapshotOf, IsStore, IsMap, Parts
<1>3. ASSUME NEW x, NEW y, IsStore(x), IsStore(y), \A part \in Parts : x[part] = y[part]
      PROVE  x = y
  BY <1>3 DEF IsStore, IsMap
<1> QED BY <1>1, <1>2, <1>3 DEF Twins, Parts

\* A statement does the same to twins.
LEMMA TwinsExecute ==
    ASSUME NEW a, NEW b, IsStore(a), IsStore(b), Twins(a, b), NEW stmt, IsClient(stmt)
    PROVE  /\ Twins(Execute(a, stmt), Execute(b, stmt))
           /\ stmt.op \notin TemporalReads => (Fails(a, stmt) <=> Fails(b, stmt))
<1>1. /\ a.records = b.records /\ a.edges = b.edges
      /\ a.vector_dims = b.vector_dims /\ a.clock = b.clock
      /\ a.memories = b.memories /\ a.tables = b.tables
  BY TwinsAgree
<1>2. stmt.op \notin TemporalReads => (Fails(a, stmt) <=> Fails(b, stmt))
  BY <1>1 DEF Fails, WrongDim
<1>3. ASSUME NEW c, NEW e, IsStore(c), IsStore(e), Twins(c, e)
      PROVE  Twins(LogMutation(c, stmt), LogMutation(e, stmt))
  <2>1. c.clock = e.clock
    BY <1>3, TwinsAgree
  <2> QED BY <1>3, <2>1 DEF LogMutation, Twins, SnapshotOf, IsStore, IsMap, Parts
<1>4. CASE stmt.op = "create"
  <2>0. /\ IsStore(Declare(a, stmt)) /\ IsStore(Declare(b, stmt))
        /\ Declare(a, stmt).records = Declare(b, stmt).records
        /\ Declare(a, stmt).edges = Declare(b, stmt).edges
        /\ Declare(a, stmt).vector_dims = Declare(b, stmt).vector_dims
        /\ Declare(a, stmt).clock = Declare(b, stmt).clock
        /\ Declare(a, stmt).memories = Declare(b, stmt).memories
        /\ Declare(a, stmt).tables = Declare(b, stmt).tables
    BY <1>1 DEF Declare, IsStore, IsMap, Parts
  <2>1. IsStore(Declare(a, stmt)) /\ IsStore(Declare(b, stmt)) /\ Twins(Declare(a, stmt), Declare(b, stmt))
    BY <2>0, TwinsAgree
  <2> QED BY <1>2, <1>3, <1>4, <2>1 DEF Execute
<1>5. CASE stmt.op = "insert"
  <2>0. /\ IsStore(Upsert(a, stmt)) /\ IsStore(Upsert(b, stmt))
        /\ Upsert(a, stmt).records = Upsert(b, stmt).records
        /\ Upsert(a, stmt).edges = Upsert(b, stmt).edges
        /\ Upsert(a, stmt).vector_dims = Upsert(b, stmt).vector_dims
        /\ Upsert(a, stmt).clock = Upsert(b, stmt).clock
        /\ Upsert(a, stmt).memories = Upsert(b, stmt).memories
        /\ Upsert(a, stmt).tables = Upsert(b, stmt).tables
    BY <1>1 DEF Upsert, Stamp, IsStore, IsMap, Parts
  <2>1. IsStore(Upsert(a, stmt)) /\ IsStore(Upsert(b, stmt)) /\ Twins(Upsert(a, stmt), Upsert(b, stmt))
    BY <2>0, TwinsAgree
  <2> QED BY <1>2, <1>3, <1>5, <2>1 DEF Execute
<1>6. CASE stmt.op = "relate"
  <2>0. /\ IsStore(Link(a, stmt)) /\ IsStore(Link(b, stmt))
        /\ Link(a, stmt).records = Link(b, stmt).records
        /\ Link(a, stmt).edges = Link(b, stmt).edges
        /\ Link(a, stmt).vector_dims = Link(b, stmt).vector_dims
        /\ Link(a, stmt).clock = Link(b, stmt).clock
        /\ Link(a, stmt).memories = Link(b, stmt).memories
        /\ Link(a, stmt).tables = Link(b, stmt).tables
    BY <1>1 DEF Link, Stamp, IsStore, IsMap, Parts
  <2>1. IsStore(Link(a, stmt)) /\ IsStore(Link(b, stmt)) /\ Twins(Link(a, stmt), Link(b, stmt))
    BY <2>0, TwinsAgree
  <2> QED BY <1>2, <1>3, <1>6, <2>1 DEF Execute
<1>7. CASE stmt.op = "forget"
  <2>0. /\ IsStore(Erase(a, stmt)) /\ IsStore(Erase(b, stmt))
        /\ Erase(a, stmt).records = Erase(b, stmt).records
        /\ Erase(a, stmt).edges = Erase(b, stmt).edges
        /\ Erase(a, stmt).vector_dims = Erase(b, stmt).vector_dims
        /\ Erase(a, stmt).clock = Erase(b, stmt).clock
        /\ Erase(a, stmt).memories = Erase(b, stmt).memories
        /\ Erase(a, stmt).tables = Erase(b, stmt).tables
    BY <1>1 DEF Erase, IsStore, IsMap, Parts
  <2>1. IsStore(Erase(a, stmt)) /\ IsStore(Erase(b, stmt)) /\ Twins(Erase(a, stmt), Erase(b, stmt))
    BY <2>0, TwinsAgree
  <2> QED BY <1>2, <1>3, <1>7, <2>1 DEF Execute
<1>8. CASE stmt.op = "prune"
  <2>1. ASSUME NEW c, IsStore(c)
        PROVE  /\ IsStore(PruneHistory(c)) /\ Same(c, PruneHistory(c))
               /\ PruneHistory(c).memories = [m \in DOMAIN c.memories |-> PruneOne(c.memories[m])]
    BY <2>1, PruneHistoryKeepsState
  <2>2. ASSUME NEW c, IsStore(c)
        PROVE  /\ PruneHistory(c).records = c.records /\ PruneHistory(c).edges = c.edges
               /\ PruneHistory(c).vector_dims = c.vector_dims /\ PruneHistory(c).clock = c.clock
               /\ PruneHistory(c).tables = c.tables
    <3> DEFINE p == PruneHistory(c)
    <3>1. IsStore(p) /\ Same(c, p)
      BY <2>1, <2>2
    <3> HIDE DEF p
    <3>2. /\ p.records = c.records /\ p.edges = c.edges
          /\ p.vector_dims = c.vector_dims /\ p.clock = c.clock /\ p.tables = c.tables
      BY <2>2, <3>1 DEF Same, IsStore, IsMap, Parts
    <3> QED BY <3>2 DEF p
  <2>3. PruneHistory(a).memories = PruneHistory(b).memories
    <3>1. PruneHistory(a).memories = [m \in DOMAIN a.memories |-> PruneOne(a.memories[m])]
      BY <2>1
    <3>2. PruneHistory(b).memories = [m \in DOMAIN b.memories |-> PruneOne(b.memories[m])]
      BY <2>1
    <3> QED BY <1>1, <3>1, <3>2
  <2>4. /\ PruneHistory(a).records = PruneHistory(b).records
        /\ PruneHistory(a).edges = PruneHistory(b).edges
        /\ PruneHistory(a).vector_dims = PruneHistory(b).vector_dims
        /\ PruneHistory(a).clock = PruneHistory(b).clock
        /\ PruneHistory(a).tables = PruneHistory(b).tables
    BY <1>1, <2>2
  <2>5. Twins(PruneHistory(a), PruneHistory(b))
    BY <2>1, <2>3, <2>4, TwinsAgree
  <2> QED BY <1>2, <1>8, <2>5 DEF Execute
<1>9. CASE stmt.op \notin {"create", "insert", "relate", "forget", "prune"}
  <2>1. Execute(a, stmt) = a /\ Execute(b, stmt) = b
    BY <1>9 DEF Execute, IsClient
  <2> QED BY <1>2, <2>1
<1> QED BY <1>4, <1>5, <1>6, <1>7, <1>8, <1>9

\* A statement keeps the memories in order, and their names.
LEMMA ExecuteKeepsMemories ==
    ASSUME NEW st, MemoriesOk(st), NEW stmt, IsClient(stmt)
    PROVE  MemoriesOk(Execute(st, stmt)) /\ DOMAIN Execute(st, stmt).memories = DOMAIN st.memories
<1>1. IsStore(st) /\ IsMap(st.memories)
  BY DEF MemoriesOk
<1>2. CASE stmt.op \in Mutations
  BY <1>1, <1>2, MutationsKeepBlocks DEF MemoriesOk
<1>3. CASE stmt.op = "prune"
  <2> DEFINE st2 == PruneHistory(st)
  <2>1. IsStore(st2) /\ st2.memories = [m \in DOMAIN st.memories |-> PruneOne(st.memories[m])]
    BY <1>1, PruneHistoryKeepsState
  <2>2. Execute(st, stmt) = st2
    BY <1>3 DEF Execute
  <2> HIDE DEF st2
  <2>3. \A m \in DOMAIN st.memories : BlockOk(PruneOne(st.memories[m]))
    BY PruneBlock DEF MemoriesOk, BlockOk
  <2>4. IsMap(st2.memories) /\ DOMAIN st2.memories = DOMAIN st.memories
    BY <2>1 DEF IsMap
  <2> QED BY <2>1, <2>2, <2>3, <2>4 DEF MemoriesOk
<1>4. CASE stmt.op \notin Mutations \cup {"prune"}
  <2>1. Execute(st, stmt) = st
    BY <1>4 DEF Execute, IsClient, Mutations
  <2> QED BY <2>1
<1> QED BY <1>2, <1>3, <1>4

(***************************************************************************)
(* One statement in a plan, and one frame in a replay.                     *)
(***************************************************************************)

WithMemory(st, name) ==
    [st EXCEPT !.memories = IF name \in DOMAIN @ THEN @ ELSE Put(@, name, EmptyStore)]

\* A memory the context switches to exists afterwards, and is in order.
LEMMA SwitchKeeps ==
    ASSUME NEW st, MemoriesOk(st), NEW name
    PROVE  MemoriesOk(WithMemory(st, name)) /\ name \in DOMAIN WithMemory(st, name).memories
<1> DEFINE st2 == WithMemory(st, name)
<1>1. IsStore(st) /\ IsMap(st.memories) /\ \A m \in DOMAIN st.memories : BlockOk(st.memories[m])
  BY DEF MemoriesOk
<1>2. IsStore(st2) /\ st2.memories = IF name \in DOMAIN st.memories THEN st.memories
                                     ELSE Put(st.memories, name, EmptyStore)
  BY <1>1 DEF WithMemory, IsStore, IsMap, Parts
<1> HIDE DEF st2
<1>3. ASSUME name \in DOMAIN st.memories PROVE MemoriesOk(st2) /\ name \in DOMAIN st2.memories
  BY <1>1, <1>2, <1>3 DEF MemoriesOk
<1>4. ASSUME name \notin DOMAIN st.memories PROVE MemoriesOk(st2) /\ name \in DOMAIN st2.memories
  <2>1. /\ IsMap(st2.memories) /\ DOMAIN st2.memories = DOMAIN st.memories \cup {name}
        /\ \A m \in DOMAIN st.memories : st2.memories[m] = st.memories[m]
        /\ st2.memories[name] = EmptyStore
    BY <1>2, <1>4 DEF Put, IsMap
  <2>2. \A m \in DOMAIN st2.memories : BlockOk(st2.memories[m])
    BY <1>1, <2>1, EmptyBlock
  <2> QED BY <1>2, <2>1, <2>2 DEF MemoriesOk
<1> QED BY <1>3, <1>4 DEF st2

\* A statement, or the reset, keeps a run in order.
LEMMA RunStep ==
    ASSUME NEW c, RunOk(c), NEW stmt, IsClient(stmt) \/ stmt = ResetStmt
    PROVE  RunOk(ExecuteInContext(c, stmt))
<1> DEFINE c2 == ExecuteInContext(c, stmt)
           st == c.store
<1> SUFFICES RunOk(c2)
  OBVIOUS
<1>1. /\ c = [store |-> st, ctx |-> c.ctx, failed |-> c.failed] /\ c.failed \in BOOLEAN
      /\ MemoriesOk(st) /\ c.ctx \in {Root} \cup DOMAIN st.memories
  BY DEF RunOk
<1>2. CASE stmt.op = "memory"
  <2> DEFINE st2 == WithMemory(st, stmt.name)
  <2>1. c2 = [store |-> st2, ctx |-> stmt.name, failed |-> c.failed]
    BY <1>1, <1>2 DEF ExecuteInContext, WithMemory
  <2>2. MemoriesOk(st2) /\ stmt.name \in DOMAIN st2.memories
    BY <1>1, SwitchKeeps
  <2> HIDE DEF st2
  <2> QED BY <1>1, <2>1, <2>2 DEF RunOk
<1>3. CASE stmt.op = "reset"
  <2>1. c2 = [store |-> st, ctx |-> Root, failed |-> c.failed]
    BY <1>1, <1>3 DEF ExecuteInContext
  <2> QED BY <1>1, <2>1 DEF RunOk
<1>4. ASSUME stmt.op \notin {"memory", "reset"} PROVE RunOk(c2)
  <2>0. IsClient(stmt)
    BY <1>4 DEF ResetStmt
  <2>1. CASE Fails(Target(c), stmt)
    <3>1. c2 = [store |-> st, ctx |-> c.ctx, failed |-> TRUE]
      BY <1>1, <1>4, <2>1 DEF ExecuteInContext
    <3> QED BY <1>1, <3>1 DEF RunOk
  <2>2. CASE ~Fails(Target(c), stmt) /\ c.ctx = Root
    <3> DEFINE st2 == Execute(st, stmt)
    <3>1. c2 = [store |-> st2, ctx |-> c.ctx, failed |-> c.failed]
      BY <1>1, <1>4, <2>2 DEF ExecuteInContext
    <3>2. MemoriesOk(st2) /\ DOMAIN st2.memories = DOMAIN st.memories
      BY <1>1, <2>0, ExecuteKeepsMemories
    <3> HIDE DEF st2
    <3> QED BY <1>1, <3>1, <3>2 DEF RunOk
  <2>3. CASE ~Fails(Target(c), stmt) /\ c.ctx # Root
    <3> DEFINE m0 == c.ctx
               block == Execute(st.memories[m0], stmt)
               st2 == [st EXCEPT !.memories[m0] = block]
    <3>0. m0 \in DOMAIN st.memories /\ BlockOk(st.memories[m0]) /\ ~Fails(st.memories[m0], stmt)
      BY <1>1, <2>3 DEF MemoriesOk, Target
    <3>1. c2 = [store |-> st2, ctx |-> c.ctx, failed |-> c.failed]
      BY <1>1, <1>4, <2>3 DEF ExecuteInContext
    <3>2. BlockOk(block)
      BY <2>0, <3>0, ExecuteBlock DEF BlockOk
    <3> HIDE DEF block
    <3>3. /\ IsStore(st2) /\ IsMap(st2.memories) /\ DOMAIN st2.memories = DOMAIN st.memories
          /\ \A m \in DOMAIN st.memories : st2.memories[m] = IF m = m0 THEN block ELSE st.memories[m]
      BY <1>1, <3>0 DEF MemoriesOk, IsStore, IsMap, Parts
    <3> HIDE DEF st2
    <3>4. MemoriesOk(st2)
      BY <1>1, <3>2, <3>3 DEF MemoriesOk
    <3> QED BY <1>1, <3>1, <3>3, <3>4 DEF RunOk
  <2> QED BY <2>1, <2>2, <2>3
<1> HIDE DEF c2
<1> QED BY <1>2, <1>3, <1>4

\* Two runs that are alike stay so, and fail alike, but for temporal reads.
LEMMA AlikeStep ==
    ASSUME NEW c, RunOk(c), ~c.failed, NEW d, RunOk(d), ~d.failed, Alike(c, d),
           NEW stmt, IsClient(stmt) \/ stmt = ResetStmt, stmt.op \notin TemporalReads
    PROVE  /\ Alike(ExecuteInContext(c, stmt), ExecuteInContext(d, stmt))
           /\ ExecuteInContext(c, stmt).failed <=> ExecuteInContext(d, stmt).failed
<1> DEFINE c2 == ExecuteInContext(c, stmt)
           d2 == ExecuteInContext(d, stmt)
           a == c.store
           b == d.store
           ctx == c.ctx
<1> SUFFICES Alike(c2, d2) /\ (c2.failed <=> d2.failed)
  OBVIOUS
<1>1. /\ c = [store |-> a, ctx |-> ctx, failed |-> c.failed] /\ c.failed = FALSE
      /\ IsStore(a) /\ MemoriesOk(a) /\ ctx \in {Root} \cup DOMAIN a.memories
  BY DEF RunOk, MemoriesOk
<1>2. /\ d = [store |-> b, ctx |-> ctx, failed |-> d.failed] /\ d.failed = FALSE
      /\ IsStore(b) /\ MemoriesOk(b) /\ Twins(a, b) /\ a.memories = b.memories
  BY <1>1, TwinsAgree DEF RunOk, MemoriesOk, Alike
<1>3. ASSUME NEW f, NEW st, NEW st2, IsStore(st), IsStore(st2), Twins(st, st2)
      PROVE  Twins([st EXCEPT !.memories = f], [st2 EXCEPT !.memories = f])
  <2> DEFINE x == [st EXCEPT !.memories = f]
             y == [st2 EXCEPT !.memories = f]
  <2>1. /\ IsStore(x) /\ x.memories = f /\ x.records = st.records /\ x.edges = st.edges
        /\ x.vector_dims = st.vector_dims /\ x.clock = st.clock /\ x.tables = st.tables
    BY <1>3 DEF IsStore, IsMap, Parts
  <2>2. /\ IsStore(y) /\ y.memories = f /\ y.records = st2.records /\ y.edges = st2.edges
        /\ y.vector_dims = st2.vector_dims /\ y.clock = st2.clock /\ y.tables = st2.tables
    BY <1>3 DEF IsStore, IsMap, Parts
  <2> HIDE DEF x, y
  <2>3. Twins(x, y)
    BY <1>3, <2>1, <2>2, TwinsAgree
  <2> QED BY <2>3 DEF x, y
<1>4. CASE stmt.op = "memory"
  <2> DEFINE ms == IF stmt.name \in DOMAIN a.memories THEN a.memories ELSE Put(a.memories, stmt.name, EmptyStore)
  <2>1. c2 = [store |-> [a EXCEPT !.memories = ms], ctx |-> stmt.name, failed |-> FALSE]
    BY <1>1, <1>4 DEF ExecuteInContext
  <2>2. d2 = [store |-> [b EXCEPT !.memories = ms], ctx |-> stmt.name, failed |-> FALSE]
    BY <1>2, <1>4 DEF ExecuteInContext
  <2> HIDE DEF ms
  <2> QED BY <1>1, <1>2, <1>3, <2>1, <2>2 DEF Alike
<1>5. CASE stmt.op = "reset"
  <2>1. /\ c2 = [store |-> a, ctx |-> Root, failed |-> FALSE]
        /\ d2 = [store |-> b, ctx |-> Root, failed |-> FALSE]
    BY <1>1, <1>2, <1>5 DEF ExecuteInContext
  <2> QED BY <1>2, <2>1 DEF Alike
<1>6. ASSUME stmt.op \notin {"memory", "reset"} PROVE Alike(c2, d2) /\ (c2.failed <=> d2.failed)
  <2>0. IsClient(stmt)
    BY <1>6 DEF ResetStmt
  <2>1. Fails(Target(c), stmt) <=> Fails(Target(d), stmt)
    <3>1. CASE ctx = Root
      BY <1>1, <1>2, <2>0, <3>1, TwinsExecute DEF Target
    <3>2. CASE ctx # Root
      <4>1. Target(c) = Target(d)
        BY <1>1, <1>2, <3>2 DEF Target
      <4> QED BY <4>1
    <3> QED BY <3>1, <3>2
  <2>2. CASE Fails(Target(c), stmt)
    <3>0. Fails(Target(d), stmt) /\ d.ctx = ctx
      BY <1>2, <2>1, <2>2
    <3>1. c2 = [store |-> a, ctx |-> ctx, failed |-> TRUE]
      BY <1>1, <1>6, <2>2 DEF ExecuteInContext
    <3>2. d2 = [store |-> b, ctx |-> ctx, failed |-> TRUE]
      BY <1>2, <1>6, <3>0 DEF ExecuteInContext
    <3> QED BY <1>2, <3>1, <3>2 DEF Alike
  <2>3. CASE ~Fails(Target(c), stmt) /\ ctx = Root
    <3>0. ~Fails(Target(d), stmt) /\ d.ctx = ctx
      BY <1>2, <2>1, <2>3
    <3>1. c2 = [store |-> Execute(a, stmt), ctx |-> ctx, failed |-> FALSE]
      BY <1>1, <1>6, <2>3 DEF ExecuteInContext
    <3>2. d2 = [store |-> Execute(b, stmt), ctx |-> ctx, failed |-> FALSE]
      BY <1>2, <1>6, <3>0, <2>3 DEF ExecuteInContext
    <3>3. Twins(Execute(a, stmt), Execute(b, stmt))
      BY <1>1, <1>2, <2>0, TwinsExecute
    <3> QED BY <3>1, <3>2, <3>3 DEF Alike
  <2>4. CASE ~Fails(Target(c), stmt) /\ ctx # Root
    <3>0. ~Fails(Target(d), stmt) /\ d.ctx = ctx
      BY <1>2, <2>1, <2>4
    <3> DEFINE ms == [a.memories EXCEPT ![ctx] = Execute(@, stmt)]
    <3>1. c2 = [store |-> [a EXCEPT !.memories = ms], ctx |-> ctx, failed |-> FALSE]
      BY <1>1, <1>6, <2>4 DEF ExecuteInContext
    <3>2. d2 = [store |-> [b EXCEPT !.memories = ms], ctx |-> ctx, failed |-> FALSE]
      BY <1>2, <1>6, <3>0, <2>4 DEF ExecuteInContext
    <3> HIDE DEF ms
    <3> QED BY <1>1, <1>2, <1>3, <3>1, <3>2 DEF Alike
  <2> HIDE DEF c2, d2
  <2> QED BY <2>2, <2>3, <2>4
<1> HIDE DEF c2, d2
<1> QED BY <1>4, <1>5, <1>6
==============================================================================
