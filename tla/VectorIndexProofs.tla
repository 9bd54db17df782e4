-------------------------- MODULE VectorIndexProofs --------------------------
(***************************************************************************)
(* VectorIndex for any ids, vectors and bounds: what every search of the   *)
(* exact and of the approximate index returns, whatever calls came before. *)
(***************************************************************************)
EXTENDS VectorIndex, FiniteSetTheorems, FunctionTheorems, TLAPS

Plus(p, sum, x) == sum + x

F == INSTANCE Folding WITH Op <- Plus

\* What its facts are stated with is what this module has.
LEMMA Shared ==
    /\ \A S : F!Cardinality(S) = Cardinality(S) /\ (F!IsFiniteSet(S) <=> IsFiniteSet(S))
    /\ \A S, T : F!Bijection(S, T) = Bijection(S, T)
    /\ \A S : F!Ascending(S) = Ascending(S) /\ F!Min(S) = Min(S)
<1>1. \A S : F!Cardinality(S) = Cardinality(S)
    BY DEF Cardinality, F!Cardinality
<1>2. \A S : F!IsFiniteSet(S) <=> IsFiniteSet(S)
    BY DEF IsFiniteSet, F!IsFiniteSet
<1>3. \A S, T : F!Bijection(S, T) = Bijection(S, T)
    BY DEF Bijection, Injection, Surjection, IsInjective,
           F!Bijection, F!Injection, F!Surjection, F!IsInjective
<1>4. \A S : F!Ascending(S) = Ascending(S)
  <2> TAKE S
  <2> DEFINE Is(n) == CHOOSE id \in S : Cardinality({i \in S : i < id}) = n - 1
             Is2(n) == CHOOSE id \in S : F!Cardinality({i \in S : i < id}) = n - 1
  <2>1. \A n : Is(n) = Is2(n)
      BY <1>1
  <2>2. Ascending(S) = [n \in 1 .. Cardinality(S) |-> Is(n)]
      BY DEF Ascending
  <2>3. F!Ascending(S) = [n \in 1 .. F!Cardinality(S) |-> Is2(n)]
      BY DEF F!Ascending
  <2> HIDE DEF Is, Is2
  <2> QED BY <1>1, <2>1, <2>2, <2>3
<1>5. \A S : F!Min(S) = Min(S)
    BY DEF Min, F!Min
<1> QED BY <1>1, <1>2, <1>3, <1>4, <1>5

\* The facts used, in these terms: bijections,
LEMMA BijectionIs ==
    ASSUME NEW S, NEW T, NEW k \in Bijection(S, T)
    PROVE  /\ k \in [S -> T]
           /\ \A a, b \in S : k[a] = k[b] => a = b
           /\ \A x \in T : \E a \in S : k[a] = x
BY Shared, F!BijectionIs

LEMMA IsBijection ==
    ASSUME NEW S, NEW T, NEW k \in [S -> T],
           \A a, b \in S : k[a] = k[b] => a = b,
           \A x \in T : \E a \in S : k[a] = x
    PROVE  k \in Bijection(S, T)
BY Shared, F!IsBijection

LEMMA Iterated ==
    ASSUME NEW S \in SUBSET Nat, IsFiniteSet(S)
    PROVE  Ascending(S) \in Bijection(1 .. Cardinality(S), S)
BY Shared, F!Iterated

\* ranks in an order,
LEMMA RankOrdered ==
    ASSUME NEW S, IsFiniteSet(S), NEW R, F!StrictOrder(R, S), NEW x \in S, NEW y \in S,
           <<x, y>> \in R
    PROVE  F!Rank(R, S, x) < F!Rank(R, S, y)
BY Shared, F!RankOrdered

LEMMA RankUnique ==
    ASSUME NEW S, IsFiniteSet(S), NEW R, F!StrictOrder(R, S),
           NEW x \in S, NEW y \in S, F!Rank(R, S, x) = F!Rank(R, S, y)
    PROVE  x = y
BY Shared, F!RankUnique

LEMMA SortedByRank ==
    ASSUME NEW S, IsFiniteSet(S), NEW R, F!StrictOrder(R, S),
           NEW k \in Bijection(1 .. Cardinality(S), S),
           \A r \in 2 .. Cardinality(S) : <<k[r], k[r - 1]>> \notin R
    PROVE  \A r \in 1 .. Cardinality(S) : F!Rank(R, S, k[r]) = r - 1
BY Shared, F!SortedByRank

LEMMA ByRank ==
    ASSUME NEW S, IsFiniteSet(S), NEW R, F!StrictOrder(R, S), NEW k, k = F!Ranked(R, S)
    PROVE  /\ k \in Bijection(1 .. Cardinality(S), S)
           /\ \A r \in 1 .. Cardinality(S) : F!Rank(R, S, k[r]) = r - 1
           /\ \A r \in 2 .. Cardinality(S) : <<k[r], k[r - 1]>> \notin R
BY Shared, F!ByRank

\* and the number of rows.
LEMMA MinOfTwo ==
    ASSUME NEW a \in Int, NEW b \in Int
    PROVE  Min({a, b}) = IF a <= b THEN a ELSE b
BY Shared, F!MinOfTwo

LEMMA RowsLen ==
    ASSUME NEW n \in Nat, NEW rows, rows = [r \in 1..n |-> rows[r]]
    PROVE  /\ rows \in Seq({rows[r] : r \in 1..n}) /\ Len(rows) = n
           /\ DOMAIN rows = 1..n
BY F!RowsLen

\* Enumerating a finite set reaches every element once.
LEMMA Enumerated ==
    ASSUME NEW S, IsFiniteSet(S)
    PROVE  /\ Cardinality(S) \in Nat
           /\ SetToSeq(S) \in Bijection(1 .. Cardinality(S), S)
<1> DEFINE n == Cardinality(S)
<1>1. n \in Nat /\ Bijection(1..n, S) # {}
    BY FS_CardinalityType DEF ExistsBijection
<1>2. \E k \in [1..n -> S] : IsInjective(k)
    BY <1>1 DEF Bijection, Injection
<1>3. SetToSeq(S) \in [1..n -> S] /\ IsInjective(SetToSeq(S))
    BY <1>2, Zenon DEF SetToSeq
<1>4. IsFiniteSet(1..n) /\ Cardinality(1..n) = n
    BY <1>1, FS_Interval
<1> HIDE DEF n
<1>5. SetToSeq(S) \in Injection(1..n, S)
    BY <1>3 DEF Injection
<1>6. SetToSeq(S) \in Surjection(1..n, S)
    BY <1>4, <1>5, FS_Injection DEF n
<1> QED BY <1>1, <1>5, <1>6 DEF Bijection, n

(***************************************************************************)
(* What the calls keep.                                                    *)
(***************************************************************************)

Entries == [id : Ids, vec : Vectors]

\* The types, and how many records the exact index holds is a number.
TypeInv ==
    /\ vectors \in [DOMAIN vectors -> Vectors] /\ DOMAIN vectors \subseteq Ids
    /\ IsFiniteSet(DOMAIN vectors)
    /\ graph \in Seq(Entries) /\ live \in [DOMAIN live -> DOMAIN graph]

\* live points at an entry of the id for every id that has one, and at the last
\* vector for every id that the exact index holds.
LiveInv ==
    /\ LiveIds = DOMAIN vectors
    /\ \A i \in DOMAIN graph : graph[i].id \in DOMAIN live
    /\ \A id \in DOMAIN live : graph[live[id]].id = id
    /\ \A id \in LiveIds : graph[live[id]].vec = vectors[id]

LEMMA IndexInit == Init => TypeInv /\ LiveInv
<1> SUFFICES ASSUME Init PROVE TypeInv /\ LiveInv
    OBVIOUS
<1>1. vectors = <<>> /\ graph = <<>> /\ live = <<>> /\ removed = {}
    BY DEF Init
<1>2. DOMAIN vectors = {} /\ DOMAIN graph = {} /\ DOMAIN live = {}
    BY <1>1
<1>3. graph \in Seq(Entries) /\ IsFiniteSet({})
    BY <1>1, FS_EmptySet
<1>4. vectors \in [DOMAIN vectors -> Vectors] /\ live \in [DOMAIN live -> DOMAIN graph]
    BY <1>1, <1>2
<1> QED BY <1>2, <1>3, <1>4 DEF TypeInv, LiveInv, LiveIds

LEMMA IndexNext == TypeInv /\ LiveInv /\ [Next]_vars => TypeInv' /\ LiveInv'
<1> SUFFICES ASSUME TypeInv, LiveInv, [Next]_vars PROVE TypeInv' /\ LiveInv'
    OBVIOUS
<1> USE DEF TypeInv, LiveInv, LiveIds
<1>1. ASSUME NEW id \in Ids, RemoveId(id) PROVE TypeInv' /\ LiveInv'
  <2>1. /\ vectors' = [k \in DOMAIN vectors \ {id} |-> vectors[k]]
        /\ removed' = removed \cup {id} /\ graph' = graph /\ live' = live
      BY <1>1 DEF RemoveId, Restrict
  <2>2. DOMAIN vectors' = DOMAIN vectors \ {id} /\ \A k \in DOMAIN vectors' : vectors'[k] = vectors[k]
      BY <2>1
  <2>3. IsFiniteSet(DOMAIN vectors')
    <3>1. IsFiniteSet(DOMAIN vectors \ {id})
        BY FS_RemoveElement
    <3> QED BY <2>2, <3>1
  <2>4. TypeInv'
      BY <2>1, <2>2, <2>3
  <2>5. LiveIds' = DOMAIN vectors'
      BY <2>1, <2>2
  <2> QED BY <2>1, <2>2, <2>4, <2>5
<1>2. ASSUME NEW id \in Ids, NEW v \in Vectors, Upsert(id, v) PROVE TypeInv' /\ LiveInv'
  <2>1. /\ vectors' = Put(vectors, id, v)
        /\ graph' = Append(graph, [id |-> id, vec |-> v])
        /\ removed' = (IF id \in DOMAIN live THEN removed \cup {id} ELSE removed) \ {id}
        /\ live' = Put(live, id, Len(graph) + 1)
      BY <1>2 DEF Upsert
  <2>2. /\ DOMAIN vectors' = DOMAIN vectors \cup {id} /\ vectors'[id] = v
        /\ \A k \in DOMAIN vectors' : k # id => k \in DOMAIN vectors /\ vectors'[k] = vectors[k]
      BY <2>1 DEF Put
  <2>3. /\ DOMAIN live' = DOMAIN live \cup {id} /\ live'[id] = Len(graph) + 1
        /\ \A k \in DOMAIN live' : k # id => k \in DOMAIN live /\ live'[k] = live[k]
      BY <2>1 DEF Put
  <2>4. [id |-> id, vec |-> v] \in Entries
      BY DEF Entries
  <2>5. /\ graph' \in Seq(Entries) /\ Len(graph) \in Nat /\ DOMAIN graph = 1..Len(graph)
        /\ DOMAIN graph' = 1 .. Len(graph) + 1
        /\ graph'[Len(graph) + 1] = [id |-> id, vec |-> v]
        /\ \A i \in 1..Len(graph) : graph'[i] = graph[i]
      BY <2>1, <2>4
  <2>6. IsFiniteSet(DOMAIN vectors')
    <3>1. IsFiniteSet(DOMAIN vectors \cup {id})
        BY FS_AddElement
    <3> QED BY <2>2, <3>1
  <2>7. vectors' \in [DOMAIN vectors' -> Vectors]
    <3>1. \A k \in DOMAIN vectors' : vectors'[k] \in Vectors
        BY <2>2
    <3>2. vectors' = [k \in DOMAIN vectors' |-> vectors'[k]]
        BY <2>1 DEF Put
    <3> QED BY <3>1, <3>2
  <2>8. live' \in [DOMAIN live' -> DOMAIN graph']
    <3>1. \A k \in DOMAIN live' : live'[k] \in DOMAIN graph'
        BY <2>3, <2>5
    <3>2. live' = [k \in DOMAIN live' |-> live'[k]]
        BY <2>1 DEF Put
    <3> QED BY <3>1, <3>2
  <2>9. TypeInv'
      BY <2>2, <2>5, <2>6, <2>7, <2>8
  <2>10. LiveIds' = DOMAIN vectors'
    <3>1. \A k : k \in DOMAIN live' \ removed' <=> k \in DOMAIN vectors'
        BY <2>1, <2>2, <2>3
    <3> QED BY <3>1
  <2>11. \A i \in DOMAIN graph' : graph'[i].id \in DOMAIN live'
    <3> TAKE i \in DOMAIN graph'
    <3>1. CASE i = Len(graph) + 1
        BY <2>3, <2>5, <3>1
    <3>2. CASE i # Len(graph) + 1
      <4>1. i \in DOMAIN graph /\ graph'[i] = graph[i]
          BY <2>5, <3>2
      <4> QED BY <2>3, <4>1
    <3> QED BY <3>1, <3>2
  <2>12. \A k \in DOMAIN live' : graph'[live'[k]].id = k
    <3> TAKE k \in DOMAIN live'
    <3>1. CASE k = id
        BY <2>3, <2>5, <3>1
    <3>2. CASE k # id
        BY <2>3, <2>5, <3>2
    <3> QED BY <3>1, <3>2
  <2>13. \A k \in LiveIds' : graph'[live'[k]].vec = vectors'[k]
    <3> TAKE k \in LiveIds'
    <3>1. CASE k = id
        BY <2>2, <2>3, <2>5, <3>1
    <3>2. CASE k # id
      <4>1. k \in LiveIds /\ live'[k] = live[k] /\ vectors'[k] = vectors[k]
          BY <2>2, <2>3, <2>10, <3>2
      <4> QED BY <2>5, <4>1
    <3> QED BY <3>1, <3>2
  <2> QED BY <2>9, <2>10, <2>11, <2>12, <2>13
<1>3. CASE UNCHANGED vars
    BY <1>3 DEF vars
<1> QED BY <1>1, <1>2, <1>3 DEF Next

(***************************************************************************)
(* Sorting and cutting off rows.                                           *)
(***************************************************************************)

\* Cutting off keeps the first rows.
LEMMA Cut ==
    ASSUME NEW n \in Nat, NEW rows, rows = [r \in 1..n |-> rows[r]], NEW m \in Nat
    PROVE  Truncate(rows, m) = [r \in 1 .. Min({m, n}) |-> rows[r]]
<1> DEFINE T == {rows[r] : r \in 1..n}
<1>1. rows \in Seq(T) /\ Len(rows) = n
    BY RowsLen
<1>2. Min({m, n}) \in 0..n
  <2>1. Min({m, n}) = IF m <= n THEN m ELSE n
      BY MinOfTwo
  <2> QED BY <2>1
<1> HIDE DEF T
<1>3. SubSeq(rows, 1, Min({m, n})) = [r \in 1 .. Min({m, n}) |-> rows[r]]
    BY <1>1, <1>2
<1> QED BY <1>1, <1>3 DEF Truncate

\* The rows of the elements listed, and whether no neighbours are the wrong way round.
Listed(n, row, k) == [r \in 1..n |-> row[k[r]]]
InOrder(n, row, k) == \A r \in 2..n : ~Precedes(row[k[r]], row[k[r - 1]])

\* Sorting rows that stand for the elements of a set, one for each, gives the
\* elements in every order with no neighbours the wrong way round.
LEMMA SortsAre ==
    ASSUME NEW n \in Nat, NEW S, NEW k \in Bijection(1..n, S), NEW row
    PROVE  \A sorted : sorted \in Sorts(Listed(n, row, k)) <=>
              \E j \in Bijection(1..n, S) : sorted = Listed(n, row, j) /\ InOrder(n, row, j)
<1> DEFINE D == 1..n
           rows == Listed(n, row, k)
<1>r. rows = [r \in 1..n |-> row[k[r]]]
    BY DEF Listed
<1> HIDE DEF rows
<1>1. Len(rows) = n /\ DOMAIN rows = D /\ \A r \in D : rows[r] = row[k[r]]
  <2>1. rows = [r \in 1..n |-> rows[r]]
      BY <1>r
  <2> QED BY <1>r, <2>1, RowsLen
<1>2. \A r \in 2..n : r \in D /\ r - 1 \in D
    OBVIOUS
<1>k. k \in Bijection(D, S)
    OBVIOUS
<1> HIDE DEF D
<1>3. /\ k \in [D -> S]
      /\ \A a, b \in D : k[a] = k[b] => a = b
      /\ \A x \in S : \E a \in D : k[a] = x
    BY <1>k, BijectionIs
<1>4. ASSUME NEW sorted \in Sorts(rows)
      PROVE  \E j \in Bijection(D, S) :
                 /\ sorted = [r \in D |-> row[j[r]]]
                 /\ \A r \in 2..n : ~Precedes(row[j[r]], row[j[r - 1]])
  <2>1. PICK order \in Bijection(D, D) : sorted = [r \in D |-> rows[order[r]]]
      BY <1>1 DEF Sorts, Arrangements
  <2>2. \A r \in 2..n : ~Precedes(sorted[r], sorted[r - 1])
      BY <1>1 DEF Sorts, Arrangements
  <2>3. /\ order \in [D -> D]
        /\ \A a, b \in D : order[a] = order[b] => a = b
        /\ \A x \in D : \E a \in D : order[a] = x
      BY <2>1, BijectionIs
  <2> DEFINE j == [r \in D |-> k[order[r]]]
  <2>4. j \in [D -> S]
      BY <1>3, <2>3
  <2>5. \A a, b \in D : j[a] = j[b] => a = b
      BY <1>3, <2>3
  <2>6. \A x \in S : \E a \in D : j[a] = x
      BY <1>3, <2>3
  <2>7. \A r \in D : sorted[r] = row[j[r]]
      BY <1>1, <2>1, <2>3
  <2>8. sorted = [r \in D |-> sorted[r]]
      BY <2>1
  <2> HIDE DEF j
  <2>9. j \in Bijection(D, S)
      BY <2>4, <2>5, <2>6, IsBijection
  <2>10. sorted = [r \in D |-> row[j[r]]]
      BY <2>7, <2>8
  <2>11. \A r \in 2..n : ~Precedes(row[j[r]], row[j[r - 1]])
      BY <1>2, <2>2, <2>7
  <2> QED BY <2>9, <2>10, <2>11
<1>5. ASSUME NEW j \in Bijection(D, S),
             \A r \in 2..n : ~Precedes(row[j[r]], row[j[r - 1]])
      PROVE  [r \in D |-> row[j[r]]] \in Sorts(rows)
  <2>1. /\ j \in [D -> S]
        /\ \A a, b \in D : j[a] = j[b] => a = b
        /\ \A x \in S : \E a \in D : j[a] = x
      BY BijectionIs
  <2> DEFINE order == [r \in D |-> CHOOSE a \in D : k[a] = j[r]]
             sorted == [r \in D |-> row[j[r]]]
  <2>2. \A r \in D : order[r] \in D /\ k[order[r]] = j[r]
      BY <1>3, <2>1
  <2>3. order \in [D -> D]
      BY <2>2
  <2>4. \A a, b \in D : order[a] = order[b] => a = b
      BY <2>1, <2>2
  <2>5. ASSUME NEW x \in D PROVE \E a \in D : order[a] = x
    <3>1. PICK a \in D : j[a] = k[x]
        BY <1>3, <2>1
    <3>2. order[a] = x
        BY <1>3, <2>2, <3>1
    <3> QED BY <3>2
  <2>6. \A r \in D : sorted[r] = rows[order[r]]
      BY <1>1, <2>2
  <2>7. \A r \in 2..n : ~Precedes(sorted[r], sorted[r - 1])
      BY <1>2, <1>5
  <2>8. sorted = [r \in D |-> sorted[r]]
      OBVIOUS
  <2> HIDE DEF order, sorted
  <2>9. order \in Bijection(D, D)
      BY <2>3, <2>4, <2>5, IsBijection
  <2>10. sorted = [r \in D |-> rows[order[r]]]
      BY <2>6, <2>8
  <2>11. sorted \in Sorts(rows)
    <3>1. sorted \in {[r \in D |-> rows[o[r]]] : o \in Bijection(D, D)}
        BY <2>9, <2>10, Zenon
    <3>2. sorted \in {[r \in DOMAIN rows |-> rows[o[r]]] : o \in Bijection(DOMAIN rows, DOMAIN rows)}
        BY <1>1, <3>1
    <3> QED BY <1>1, <2>7, <3>2 DEF Sorts, Arrangements
  <2> QED BY <2>11 DEF sorted
<1>6. \A sorted : sorted \in Sorts(rows) <=>
              \E j \in Bijection(D, S) :
                 /\ sorted = [r \in D |-> row[j[r]]]
                 /\ \A r \in 2..n : ~Precedes(row[j[r]], row[j[r - 1]])
    BY <1>4, <1>5
<1> QED BY <1>6 DEF D, Listed, InOrder, rows

(***************************************************************************)
(* The approximate index.                                                  *)
(***************************************************************************)

HitRow(q) == [i \in DOMAIN graph |-> [id |-> graph[i].id, score |-> Cosine(graph[i].vec, q)]]

\* What is left after filtering is a finite set of entries of live ids, and no
\* larger than what was found.
LEMMA HitsAre ==
    ASSUME TypeInv, LiveInv, NEW found \in SUBSET DOMAIN graph
    PROVE  /\ Hits(found) \in SUBSET DOMAIN graph /\ IsFiniteSet(Hits(found))
           /\ Cardinality(Hits(found)) \in Nat /\ Cardinality(found) \in Nat
           /\ Cardinality(Hits(found)) <= Cardinality(found)
           /\ found = {} <=> Cardinality(found) = 0
           /\ {graph[i].id : i \in Hits(found)} = {id \in LiveIds : \E i \in found : graph[i].id = id}
<1>1. Hits(found) \in SUBSET found
    BY DEF Hits
<1>2. DOMAIN graph = 1..Len(graph) /\ Len(graph) \in Nat
    BY DEF TypeInv
<1>3. IsFiniteSet(found)
  <2>1. IsFiniteSet(1..Len(graph))
      BY <1>2, FS_Interval
  <2> QED BY <1>2, <2>1, FS_Subset
<1>4. IsFiniteSet(Hits(found)) /\ Cardinality(Hits(found)) <= Cardinality(found)
    BY <1>1, <1>3, FS_Subset
<1>5. Cardinality(Hits(found)) \in Nat /\ Cardinality(found) \in Nat
    BY <1>3, <1>4, FS_CardinalityType
<1>6. found = {} <=> Cardinality(found) = 0
    BY <1>3, FS_EmptySet
<1>7. \A id : id \in {graph[i].id : i \in Hits(found)} <=>
                 id \in {d \in LiveIds : \E i \in found : graph[i].id = d}
    BY DEF Hits, LiveInv, LiveIds
<1>8. {graph[i].id : i \in Hits(found)} = {id \in LiveIds : \E i \in found : graph[i].id = id}
    BY <1>7
<1> QED BY <1>1, <1>4, <1>5, <1>6, <1>8

\* An answer of the approximate index, to a search that is not cut short, has a
\* row for each entry that is left.
LEMMA HnswAnswersAre ==
    ASSUME TypeInv, LiveInv, NEW n \in Nat, NEW found \in GraphSearch(n), NEW q,
           n # 0, LiveIds # {}, NEW rows \in HnswAnswers(found, q, n)
    PROVE  LET m == Cardinality(Hits(found)) IN
           \E j \in Bijection(1..m, Hits(found)) : rows = Listed(m, HitRow(q), j)
<1> DEFINE m == Cardinality(Hits(found))
           k == SetToSeq(Hits(found))
           S == Hits(found)
           row == HitRow(q)
<1>1. found \in SUBSET DOMAIN graph /\ Cardinality(found) <= n
    BY DEF GraphSearch
<1>2. S \in SUBSET DOMAIN graph /\ IsFiniteSet(S) /\ m \in Nat /\ m <= n
    BY <1>1, HitsAre
<1>3. k \in Bijection(1..m, S)
    BY <1>2, Enumerated
<1>4. PICK sorted \in Sorts(HnswRows(found, q)) : rows = Truncate(sorted, n)
    BY DEF HnswAnswers
<1>5. HnswRows(found, q) = Listed(m, row, k)
  <2> DEFINE D == 1..m
  <2>1. k \in Bijection(D, S)
      BY <1>3
  <2> HIDE DEF k, D, S
  <2>2. k \in [D -> S]
      BY <2>1, BijectionIs
  <2>3. DOMAIN k = D /\ \A r \in D : k[r] \in DOMAIN graph
      BY <1>2, <2>2
  <2>4. HnswRows(found, q) =
           [r \in DOMAIN k |-> [id |-> graph[k[r]].id, score |-> Cosine(graph[k[r]].vec, q)]]
      BY DEF HnswRows, k
  <2>5. \A r \in D : row[k[r]] = [id |-> graph[k[r]].id, score |-> Cosine(graph[k[r]].vec, q)]
      BY <2>3 DEF HitRow
  <2> HIDE DEF row
  <2>6. HnswRows(found, q) = [r \in D |-> row[k[r]]]
      BY <2>3, <2>4, <2>5
  <2> QED BY <2>6 DEF D, Listed
<1> HIDE DEF m, k, S, row
<1>6. PICK j \in Bijection(1..m, S) : sorted = Listed(m, row, j)
    BY <1>2, <1>3, <1>4, <1>5, SortsAre
<1>7. Truncate(sorted, n) = sorted
  <2>1. Min({n, m}) = m
      BY <1>2, MinOfTwo
  <2>2. sorted = [r \in 1..m |-> sorted[r]]
      BY <1>6 DEF Listed
  <2>3. Truncate(sorted, n) = [r \in 1..m |-> sorted[r]]
      BY <1>2, <2>1, <2>2, Cut
  <2> QED BY <2>2, <2>3
<1> QED BY <1>4, <1>6, <1>7 DEF m, S, row

\* An id that is in the graph once has its vector there.
LEMMA OnlyEntry ==
    ASSUME TypeInv, LiveInv, NEW i \in DOMAIN graph, graph[i].id \in LiveIds,
           Cardinality({a \in DOMAIN graph : graph[a].id = graph[i].id}) = 1
    PROVE  graph[i].vec = vectors[graph[i].id]
<1> DEFINE id == graph[i].id
           T == {a \in DOMAIN graph : graph[a].id = id}
<1>1. id \in DOMAIN live /\ live[id] \in DOMAIN graph /\ graph[live[id]].id = id
    BY DEF TypeInv, LiveInv, LiveIds
<1>2. i \in T /\ live[id] \in T
    BY <1>1
<1>3. IsFiniteSet(T)
  <2>1. DOMAIN graph = 1..Len(graph) /\ Len(graph) \in Nat
      BY DEF TypeInv
  <2>2. IsFiniteSet(DOMAIN graph)
      BY <2>1, FS_Interval
  <2>3. T \in SUBSET DOMAIN graph
      OBVIOUS
  <2> QED BY <2>2, <2>3, FS_Subset
<1>4. Cardinality(T) = 1
    OBVIOUS
<1> HIDE DEF T
<1>5. i = live[id]
    BY <1>2, <1>3, <1>4, FS_Singleton
<1> QED BY <1>5 DEF LiveInv

\* Whatever the graph comes up with, the answer has its live ids and no other, no
\* more rows than asked for, and the one row and the score of an id that was
\* upserted once.
LEMMA HnswAnswerSound ==
    ASSUME TypeInv, LiveInv, NEW q, NEW n \in Nat, NEW found \in GraphSearch(n),
           NEW rows \in HnswAnswers(found, q, n)
    PROVE  /\ Len(rows) <= n
           /\ IdsOf(rows) = {id \in LiveIds : \E i \in found : graph[i].id = id}
           /\ \A r \in DOMAIN rows : Cardinality({i \in DOMAIN graph : graph[i].id = rows[r].id}) = 1 =>
                 /\ rows[r].score = Cosine(vectors[rows[r].id], q)
                 /\ \A s \in DOMAIN rows : rows[s].id = rows[r].id => s = r
<1>1. found \in SUBSET DOMAIN graph /\ Cardinality(found) <= n
    BY DEF GraphSearch
<1>2. CASE n = 0 \/ LiveIds = {}
  <2>1. rows = <<>>
      BY <1>2 DEF HnswAnswers
  <2>2. Len(rows) = 0 /\ DOMAIN rows = {} /\ IdsOf(rows) = {}
      BY <2>1 DEF IdsOf
  <2>3. n = 0 => found = {}
    <3>1. (found = {} <=> Cardinality(found) = 0) /\ Cardinality(found) \in Nat
        BY <1>1, HitsAre
    <3> QED BY <1>1, <3>1
  <2> QED BY <1>2, <2>2, <2>3
<1>3. CASE n # 0 /\ LiveIds # {}
  <2> DEFINE m == Cardinality(Hits(found))
             D == 1..m
             S == Hits(found)
             row == HitRow(q)
  <2>1. /\ S \in SUBSET DOMAIN graph /\ m \in Nat /\ m <= n
        /\ {graph[i].id : i \in S} = {id \in LiveIds : \E i \in found : graph[i].id = id}
      BY <1>1, HitsAre
  <2>2. PICK j \in Bijection(D, S) : rows = [r \in D |-> row[j[r]]]
      BY <1>3, HnswAnswersAre DEF Listed
  <2>3. Len(rows) = m
    <3>1. rows = [r \in 1..m |-> rows[r]]
        BY <2>2
    <3> QED BY <2>1, <3>1, RowsLen
  <2> HIDE DEF m, D, S
  <2>4. /\ j \in [D -> S]
        /\ \A a, b \in D : j[a] = j[b] => a = b
        /\ \A x \in S : \E a \in D : j[a] = x
      BY <2>2, BijectionIs
  <2>5. /\ DOMAIN rows = D
        /\ \A r \in D : /\ j[r] \in S /\ j[r] \in DOMAIN graph
                        /\ rows[r].id = graph[j[r]].id
                        /\ rows[r].score = Cosine(graph[j[r]].vec, q)
      BY <2>1, <2>2, <2>4 DEF HitRow
  <2> HIDE DEF row
  <2>6. IdsOf(rows) = {graph[i].id : i \in S}
    <3>1. ASSUME NEW id \in IdsOf(rows) PROVE id \in {graph[i].id : i \in S}
        BY <2>5 DEF IdsOf
    <3>2. ASSUME NEW i \in S PROVE graph[i].id \in IdsOf(rows)
        BY <2>4, <2>5 DEF IdsOf
    <3> QED BY <3>1, <3>2
  <2>7. ASSUME NEW r \in D, Cardinality({i \in DOMAIN graph : graph[i].id = rows[r].id}) = 1
        PROVE  /\ rows[r].score = Cosine(vectors[rows[r].id], q)
               /\ \A s \in D : rows[s].id = rows[r].id => s = r
    <3>1. /\ j[r] \in S /\ j[r] \in DOMAIN graph /\ rows[r].id = graph[j[r]].id
          /\ rows[r].score = Cosine(graph[j[r]].vec, q)
        BY <2>5
    <3>2. graph[j[r]].id \in LiveIds
        BY <2>1, <3>1
    <3>3. graph[j[r]].vec = vectors[rows[r].id]
        BY <2>7, <3>1, <3>2, OnlyEntry
    <3>4. ASSUME NEW s \in D, rows[s].id = rows[r].id PROVE s = r
      <4> DEFINE T == {i \in DOMAIN graph : graph[i].id = rows[r].id}
      <4>1. j[r] \in T /\ j[s] \in T
          BY <2>5, <3>1, <3>4
      <4>2. IsFiniteSet(T)
        <5>1. DOMAIN graph = 1..Len(graph) /\ Len(graph) \in Nat
            BY DEF TypeInv
        <5>2. IsFiniteSet(DOMAIN graph)
            BY <5>1, FS_Interval
        <5>3. T \in SUBSET DOMAIN graph
            OBVIOUS
        <5> QED BY <5>2, <5>3, FS_Subset
      <4>3. Cardinality(T) = 1
          BY <2>7
      <4> HIDE DEF T
      <4>4. j[r] = j[s]
          BY <4>1, <4>2, <4>3, FS_Singleton
      <4> QED BY <2>4, <4>4
    <3> QED BY <3>1, <3>3, <3>4
  <2> QED BY <2>1, <2>3, <2>5, <2>6, <2>7
<1> QED BY <1>2, <1>3

\* The approximate index agrees with the exact one on which ids are live and on
\* their vectors, and answers soundly whatever the graph comes up with.
THEOREM HnswIsSound == Spec => []HnswSound
<1>1. TypeInv /\ LiveInv => HnswSound
  <2> SUFFICES ASSUME TypeInv, LiveInv PROVE HnswSound
      OBVIOUS
  <2>1. LiveIds = DOMAIN vectors
      BY DEF LiveInv
  <2>2. ASSUME NEW id \in LiveIds PROVE graph[live[id]] = [id |-> id, vec |-> vectors[id]]
    <3>1. id \in DOMAIN live /\ live[id] \in DOMAIN graph
        BY DEF TypeInv, LiveIds
    <3>2. graph[live[id]] \in Entries
        BY <3>1 DEF TypeInv
    <3>3. graph[live[id]].id = id /\ graph[live[id]].vec = vectors[id]
        BY <3>1 DEF LiveInv
    <3> QED BY <3>2, <3>3 DEF Entries
  <2>3. \A n \in Ks : n \in Nat
      BY DEF Ks
  <2> QED BY ZenonT(30), <2>1, <2>2, <2>3, HnswAnswerSound DEF HnswSound
<1>2. Spec => [](TypeInv /\ LiveInv)
    BY IndexInit, IndexNext, PTL DEF Spec
<1> QED BY <1>1, <1>2, PTL

(***************************************************************************)
(* The similarity is a number, or NaN.                                     *)
(***************************************************************************)

\* Sums of integers, and of numbers that are not negative.
LEMMA SumTyped ==
    /\ \A q \in Seq(Int) : FoldLeft(+, 0, q) \in Int
    /\ \A q \in Seq(Nat) : FoldLeft(+, 0, q) \in Nat
<1> DEFINE total(q) == F!Fold(0, 0, q)
<1>1. \A q : FoldLeft(+, 0, q) = total(q)
    BY DEF Plus, FoldLeft, MapThenFoldSet, Max, F!Fold, F!FoldLeft, F!MapThenFoldSet, F!Max
<1>2. total(<<>>) = 0
    BY F!FoldEmpty
<1>3. ASSUME NEW T, NEW q \in Seq(T), NEW x \in T PROVE total(Append(q, x)) = total(q) + x
    BY F!FoldAppend DEF Plus
<1> HIDE DEF total
<1>4. ASSUME NEW q \in Seq(Int) PROVE total(q) \in Int
  <2> DEFINE good == {u \in Seq(Int) : total(u) \in Int}
  <2>1. <<>> \in good
      BY <1>2
  <2>2. ASSUME NEW u \in good, NEW x \in Int PROVE Append(u, x) \in good
    <3>1. total(Append(u, x)) = total(u) + x /\ total(u) \in Int
        BY <1>3
    <3>2. Append(u, x) \in Seq(Int)
        OBVIOUS
    <3> QED BY <3>1, <3>2
  <2> HIDE DEF good
  <2>3. Seq(Int) \subseteq good
      BY <2>1, <2>2, F!SeqInduction
  <2> QED BY <2>3 DEF good
<1>5. ASSUME NEW q \in Seq(Nat) PROVE total(q) \in Nat
  <2> DEFINE good == {u \in Seq(Nat) : total(u) \in Nat}
  <2>1. <<>> \in good
      BY <1>2
  <2>2. ASSUME NEW u \in good, NEW x \in Nat PROVE Append(u, x) \in good
    <3>1. total(Append(u, x)) = total(u) + x /\ total(u) \in Nat
        BY <1>3
    <3>2. Append(u, x) \in Seq(Nat)
        OBVIOUS
    <3> QED BY <3>1, <3>2
  <2> HIDE DEF good
  <2>3. Seq(Nat) \subseteq good
      BY <2>1, <2>2, F!SeqInduction
  <2> QED BY <2>3 DEF good
<1> QED BY <1>1, <1>4, <1>5

\* The product of an integer with itself is not negative; a product of positive
\* numbers is positive.
LEMMA Squares ==
    /\ \A i \in Int : i * i \in Nat
    /\ \A a, b \in Nat \ {0} : a * b \in Nat \ {0}
    OBVIOUS

\* So a dot product is an integer, and the square of a norm not a negative one.
LEMMA ProductsTyped ==
    ASSUME NEW v \in Seq(Int), NEW w \in Seq(Int)
    PROVE  Products(v, w) \in Int /\ Products(v, v) \in Nat
<1>1. Min({Len(v), Len(w)}) \in 0..Len(v) /\ Min({Len(v), Len(w)}) \in 0..Len(w)
  <2>1. Min({Len(v), Len(w)}) = IF Len(v) <= Len(w) THEN Len(v) ELSE Len(w)
      BY SMTT(30), MinOfTwo
  <2> QED BY <2>1
<1>2. Min({Len(v), Len(v)}) = Len(v)
  <2>1. Len(v) \in Int
      OBVIOUS
  <2>2. Min({Len(v), Len(v)}) = IF Len(v) <= Len(v) THEN Len(v) ELSE Len(v)
      BY ONLY <2>1, MinOfTwo
  <2> QED BY <2>2
<1> DEFINE n == Min({Len(v), Len(w)})
<1>n. n \in 0..Len(v) /\ n \in 0..Len(w)
    BY <1>1
<1>3. [i \in 1..n |-> v[i] * w[i]] \in Seq(Int)
  <2> HIDE DEF n
  <2>1. n \in Nat /\ \A i \in 1..n : v[i] \in Int /\ w[i] \in Int
      BY <1>n
  <2>2. \A i \in 1..n : v[i] * w[i] \in Int
      BY <2>1
  <2> QED BY <2>1, <2>2
<1>4. [i \in 1..Len(v) |-> v[i] * v[i]] \in Seq(Nat)
  <2>1. \A i \in 1..Len(v) : v[i] * v[i] \in Nat
      BY Squares
  <2> QED BY <2>1
<1> QED BY <1>2, <1>3, <1>4, SumTyped DEF Products

\* The common part of two vectors is a vector.
LEMMA ShorterTyped ==
    ASSUME NEW v \in Seq(Int), NEW w \in Seq(Int)
    PROVE  Shorter(v, w) \in Seq(Int)
<1>1. Min({Len(v), Len(w)}) \in 0..Len(v)
  <2>1. Min({Len(v), Len(w)}) = IF Len(v) <= Len(w) THEN Len(v) ELSE Len(w)
      BY SMTT(30), MinOfTwo
  <2> QED BY <2>1
<1>2. SubSeq(v, 1, Min({Len(v), Len(w)})) \in Seq(Int)
  <2> DEFINE n == Min({Len(v), Len(w)})
  <2>1. n \in 0..Len(v)
      BY <1>1
  <2> HIDE DEF n
  <2>2. SubSeq(v, 1, n) \in Seq(Int)
      BY <2>1
  <2> QED BY <2>2 DEF n
<1> QED BY <1>2 DEF Shorter

LEMMA CosineTyped ==
    ASSUME NEW v \in Vectors, NEW w \in Vectors
    PROVE  Cosine(v, w) \in Int \cup {NaN}
<1> DEFINE a   == Shorter(v, w)
           b   == Shorter(w, v)
           dot == Products(a, b)
           na  == Finite(Products(a, a))
           nb  == Finite(Products(b, b))
<1>1. a \in Seq(Int) /\ b \in Seq(Int)
    BY VectorsAssumption, ShorterTyped
<1>2. dot \in Int /\ Products(a, a) \in Nat /\ Products(b, b) \in Nat
    BY <1>1, ProductsTyped
<1>3. na \in Nat \cup {Infinity} /\ nb \in Nat \cup {Infinity}
    BY <1>2 DEF Finite
<1>4. Cosine(v, w) =
         CASE na = 0 \/ nb = 0 -> 0
           [] 0 \notin {na, nb} /\ Infinity \notin {na, nb} ->
                 (IF dot < 0 THEN -1 ELSE 1) * ((100 * dot * dot) \div (na * nb))
           [] OTHER -> IF Infinity \in {Finite(dot), Finite(-dot)} THEN NaN ELSE 0
    BY DEF Cosine
<1> HIDE DEF a, b, dot, na, nb
<1>5. CASE na = 0 \/ nb = 0
  <2>1. Cosine(v, w) = 0
      BY <1>4, <1>5
  <2> QED BY <2>1
<1>6. CASE 0 \notin {na, nb} /\ Infinity \notin {na, nb}
  <2>1. na * nb \in Nat \ {0}
      BY <1>3, <1>6, Squares
  <2>2. 100 * dot * dot \in Int
      BY <1>2
  <2>3. (100 * dot * dot) \div (na * nb) \in Int
      BY <2>1, <2>2
  <2>4. (IF dot < 0 THEN -1 ELSE 1) * ((100 * dot * dot) \div (na * nb)) \in Int
      BY <2>3
  <2>5. Cosine(v, w) = (IF dot < 0 THEN -1 ELSE 1) * ((100 * dot * dot) \div (na * nb))
      BY <1>4, <1>6
  <2> QED BY <2>4, <2>5
<1>7. CASE 0 \notin {na, nb} /\ Infinity \in {na, nb}
  <2>1. Cosine(v, w) = IF Infinity \in {Finite(dot), Finite(-dot)} THEN NaN ELSE 0
      BY <1>4, <1>7
  <2> QED BY <2>1
<1> QED BY <1>5, <1>6, <1>7

(***************************************************************************)
(* The exact index.                                                        *)
(***************************************************************************)

VectorRow(q) == [id \in DOMAIN vectors |-> [id |-> id, score |-> Cosine(vectors[id], q)]]

\* The pairs of records the first of which comes before the other.
Before(q) ==
    {p \in (DOMAIN vectors) \X (DOMAIN vectors) : Precedes(VectorRow(q)[p[1]], VectorRow(q)[p[2]])}

NoNaN(q) == \A id \in DOMAIN vectors : Cosine(vectors[id], q) # NaN

\* As long as no similarity is NaN, coming before is a strict total order.
LEMMA BeforeIsOrder ==
    ASSUME TypeInv, NEW q \in Vectors, NoNaN(q)
    PROVE  F!StrictOrder(Before(q), DOMAIN vectors)
<1> DEFINE S == DOMAIN vectors
           c(id) == Cosine(vectors[id], q)
<1>1. \A id \in S : id \in Int /\ c(id) \in Int /\ c(id) # NaN
    BY CosineTyped, IdsAssumption DEF TypeInv, NoNaN
<1>2. \A x, y \in S : <<x, y>> \in Before(q) <=>
         IF c(x) = c(y) THEN x < y ELSE c(x) > c(y)
  <2> TAKE x, y \in S
  <2>1. <<x, y>> \in Before(q) <=> Precedes(VectorRow(q)[x], VectorRow(q)[y])
      BY DEF Before
  <2>2. /\ VectorRow(q)[x] = [id |-> x, score |-> c(x)]
        /\ VectorRow(q)[y] = [id |-> y, score |-> c(y)]
      BY DEF VectorRow
  <2>3. /\ VectorRow(q)[x].id = x /\ VectorRow(q)[x].score = c(x)
        /\ VectorRow(q)[y].id = y /\ VectorRow(q)[y].score = c(y)
      BY <2>2
  <2>4. Ties(VectorRow(q)[x], VectorRow(q)[y]) <=> c(x) = c(y)
      BY <1>1, <2>3 DEF Ties
  <2> HIDE DEF c
  <2> QED BY <2>1, <2>3, <2>4 DEF Precedes
<1> HIDE DEF c, S
<1>3. \A x \in S : <<x, x>> \notin Before(q)
    BY <1>1, <1>2
<1>4. \A x, y \in S : x # y => <<x, y>> \in Before(q) \/ <<y, x>> \in Before(q)
    BY <1>1, <1>2
<1>5. \A x, y, z \in S : <<x, y>> \in Before(q) /\ <<y, z>> \in Before(q) => <<x, z>> \in Before(q)
    BY <1>1, <1>2
<1> QED BY <1>3, <1>4, <1>5 DEF F!StrictOrder, S

\* The sorted rows are those of the ids in some order without neighbours the
\* wrong way round.
LEMMA SortedScores ==
    ASSUME TypeInv, NEW q
    PROVE  LET m == Cardinality(DOMAIN vectors) IN
           /\ m \in Nat
           /\ \A sorted : sorted \in Sorts(ScoredRows(q)) <=>
                 \E j \in Bijection(1..m, DOMAIN vectors) :
                    sorted = Listed(m, VectorRow(q), j) /\ InOrder(m, VectorRow(q), j)
<1> DEFINE S == DOMAIN vectors
           m == Cardinality(S)
           D == 1..m
           k == Ascending(S)
<1>1. m \in Nat
    BY FS_CardinalityType DEF TypeInv
<1>2. k \in Bijection(D, S)
    BY Iterated, IdsAssumption DEF TypeInv
<1>3. ScoredRows(q) = [r \in DOMAIN k |-> [id |-> k[r], score |-> Cosine(vectors[k[r]], q)]]
    BY DEF ScoredRows
<1> HIDE DEF k, D, m
<1>4. k \in [D -> S]
    BY <1>2, BijectionIs
<1>5. \A r \in D : VectorRow(q)[k[r]] = [id |-> k[r], score |-> Cosine(vectors[k[r]], q)]
    BY <1>4 DEF VectorRow
<1>6. ScoredRows(q) = Listed(m, VectorRow(q), k)
    BY <1>3, <1>4, <1>5 DEF Listed, D
<1>7. k \in Bijection(1..m, S)
    BY <1>2 DEF D
<1> HIDE DEF S
<1>8. \A sorted : sorted \in Sorts(Listed(m, VectorRow(q), k)) <=>
                 \E j \in Bijection(1..m, S) :
                    sorted = Listed(m, VectorRow(q), j) /\ InOrder(m, VectorRow(q), j)
    BY <1>1, <1>7, SortsAre
<1> QED BY <1>1, <1>6, <1>8 DEF S, m

\* An order of the ids without neighbours the wrong way round is by rank.
LEMMA OneOrder ==
    ASSUME TypeInv, NEW q \in Vectors, NoNaN(q),
           NEW j \in Bijection(1 .. Cardinality(DOMAIN vectors), DOMAIN vectors)
    PROVE  InOrder(Cardinality(DOMAIN vectors), VectorRow(q), j) <=>
              \A r \in 1 .. Cardinality(DOMAIN vectors) : F!Rank(Before(q), DOMAIN vectors, j[r]) = r - 1
<1> DEFINE S == DOMAIN vectors
           m == Cardinality(S)
           R == Before(q)
<1>1. m \in Nat /\ IsFiniteSet(S)
    BY FS_CardinalityType DEF TypeInv
<1>2. F!StrictOrder(R, S)
    BY BeforeIsOrder
<1>3. j \in [1..m -> S]
  <2> DEFINE D == 1..m
  <2>1. j \in Bijection(D, S)
      OBVIOUS
  <2> HIDE DEF D
  <2>2. j \in [D -> S]
      BY <2>1, BijectionIs
  <2> QED BY <2>2 DEF D
<1>4. \A r \in 2..m : r \in 1..m /\ r - 1 \in 1..m
    BY <1>1
<1>5. \A x, y \in S : <<x, y>> \in R <=> Precedes(VectorRow(q)[x], VectorRow(q)[y])
    BY DEF Before
<1>j. j \in Bijection(1 .. Cardinality(S), S)
    OBVIOUS
<1> HIDE DEF R, S
<1>6. ASSUME InOrder(m, VectorRow(q), j), NEW r \in 1..m PROVE F!Rank(R, S, j[r]) = r - 1
  <2>1. \A i \in 2..m : <<j[i], j[i - 1]>> \notin R
      BY <1>3, <1>4, <1>5, <1>6 DEF InOrder
  <2> QED BY <1>1, <1>2, <1>j, <2>1, SortedByRank
<1>7. ASSUME \A r \in 1..m : F!Rank(R, S, j[r]) = r - 1
      PROVE  InOrder(m, VectorRow(q), j)
  <2>1. ASSUME NEW r \in 2..m PROVE <<j[r], j[r - 1]>> \notin R
    <3>1. F!Rank(R, S, j[r]) = r - 1 /\ F!Rank(R, S, j[r - 1]) = (r - 1) - 1
        BY <1>4, <1>7
    <3>2. j[r] \in S /\ j[r - 1] \in S
        BY <1>3, <1>4
    <3>3. ~ (F!Rank(R, S, j[r]) < F!Rank(R, S, j[r - 1]))
        BY <3>1
    <3> QED BY <1>1, <1>2, <3>2, <3>3, RankOrdered
  <2> QED BY <1>3, <1>4, <1>5, <2>1 DEF InOrder
<1> QED BY <1>6, <1>7 DEF S, R

\* Cutting off rows that are listed.
LEMMA ListedCut ==
    ASSUME NEW m \in Nat, NEW n \in Nat, NEW row, NEW j
    PROVE  Truncate(Listed(m, row, j), n) = Listed(Min({n, m}), row, j)
<1> DEFINE rows == Listed(m, row, j)
           k == Min({n, m})
<1>1. rows = [r \in 1..m |-> rows[r]] /\ \A r \in 1..m : rows[r] = row[j[r]]
    BY DEF Listed
<1>2. k \in 0..m
  <2>1. k = IF n <= m THEN n ELSE m
      BY MinOfTwo
  <2> QED BY <2>1
<1> HIDE DEF rows
<1>3. Truncate(rows, n) = [r \in 1..k |-> rows[r]]
    BY ZenonT(30), <1>1, Cut
<1> HIDE DEF k
<1>4. \A r \in 1..k : rows[r] = row[j[r]]
    BY <1>1, <1>2
<1>5. [r \in 1..k |-> rows[r]] = Listed(k, row, j)
    BY <1>4 DEF Listed
<1> QED BY <1>3, <1>5 DEF rows, k

\* An answer of the exact index lists the first of its ids in such an order.
LEMMA AnswersAre ==
    ASSUME TypeInv, NEW q, NEW n \in Nat
    PROVE  LET m == Cardinality(DOMAIN vectors) IN
           \A rows : rows \in BruteForceAnswers(q, n) <=>
              \E j \in Bijection(1..m, DOMAIN vectors) :
                 rows = Listed(Min({n, m}), VectorRow(q), j) /\ InOrder(m, VectorRow(q), j)
<1> DEFINE m == Cardinality(DOMAIN vectors)
           B == Bijection(1..m, DOMAIN vectors)
<1>1. /\ m \in Nat
      /\ \A sorted : sorted \in Sorts(ScoredRows(q)) <=>
            \E j \in B : sorted = Listed(m, VectorRow(q), j) /\ InOrder(m, VectorRow(q), j)
    BY SortedScores
<1> HIDE DEF m, B
<1>2. \A j : Truncate(Listed(m, VectorRow(q), j), n) = Listed(Min({n, m}), VectorRow(q), j)
    BY <1>1, ListedCut
<1>3. ASSUME NEW rows PROVE rows \in BruteForceAnswers(q, n) <=>
         \E j \in B : rows = Listed(Min({n, m}), VectorRow(q), j) /\ InOrder(m, VectorRow(q), j)
  <2>1. rows \in BruteForceAnswers(q, n) <=>
           \E sorted \in Sorts(ScoredRows(q)) : rows = Truncate(sorted, n)
      BY DEF BruteForceAnswers
  <2>2. ASSUME rows \in BruteForceAnswers(q, n)
        PROVE  \E j \in B : rows = Listed(Min({n, m}), VectorRow(q), j) /\ InOrder(m, VectorRow(q), j)
    <3>1. PICK sorted \in Sorts(ScoredRows(q)) : rows = Truncate(sorted, n)
        BY <2>1, <2>2
    <3>2. PICK j \in B : sorted = Listed(m, VectorRow(q), j) /\ InOrder(m, VectorRow(q), j)
        BY <1>1, <3>1
    <3> QED BY <1>2, <3>1, <3>2
  <2>3. ASSUME NEW j \in B, rows = Listed(Min({n, m}), VectorRow(q), j), InOrder(m, VectorRow(q), j)
        PROVE  rows \in BruteForceAnswers(q, n)
    <3>1. Listed(m, VectorRow(q), j) \in Sorts(ScoredRows(q))
        BY <1>1, <2>3
    <3> QED BY <1>2, <2>1, <2>3, <3>1
  <2> QED BY <2>2, <2>3
<1> QED BY <1>3 DEF m, B

\* An answer has as many rows as it can, each record once, with its score.
LEMMA ExactAnswerSound ==
    ASSUME TypeInv, NEW q, NEW n \in Nat, NEW rows \in BruteForceAnswers(q, n)
    PROVE  /\ Len(rows) = Min({n, Cardinality(DOMAIN vectors)})
           /\ Cardinality(IdsOf(rows)) = Len(rows)
           /\ \A r \in DOMAIN rows : rows[r].score = Cosine(vectors[rows[r].id], q)
<1> DEFINE m == Cardinality(DOMAIN vectors)
           S == DOMAIN vectors
           D == 1..m
           len == Min({n, m})
           L == 1..len
<1>1. m \in Nat
    BY FS_CardinalityType DEF TypeInv
<1>2. len \in 0..m /\ \A r \in L : r \in D
  <2>1. len = IF n <= m THEN n ELSE m
      BY <1>1, MinOfTwo
  <2>2. len \in 0..m
      BY <1>1, <2>1
  <2> HIDE DEF len, m
  <2> QED BY <1>1, <2>2
<1>a. \A x : x \in BruteForceAnswers(q, n) <=>
         \E j \in Bijection(D, S) : x = Listed(len, VectorRow(q), j) /\ InOrder(m, VectorRow(q), j)
    BY AnswersAre
<1>3. PICK j \in Bijection(D, S) : rows = Listed(len, VectorRow(q), j)
    BY <1>a
<1> HIDE DEF m, D, L, len
<1>4. /\ j \in [D -> S]
      /\ \A a, b \in D : j[a] = j[b] => a = b
    BY <1>3, BijectionIs
<1>5. rows = [r \in L |-> VectorRow(q)[j[r]]]
    BY <1>3 DEF Listed, L
<1>6. \A r \in L : /\ j[r] \in S /\ rows[r].id = j[r]
                   /\ rows[r].score = Cosine(vectors[j[r]], q)
    BY <1>2, <1>4, <1>5 DEF VectorRow
<1>7. len \in Nat
    BY <1>2
<1>8. Len(rows) = len /\ DOMAIN rows = L
  <2>1. rows = [r \in 1..len |-> rows[r]]
      BY <1>5 DEF L
  <2> QED BY <1>7, <2>1, RowsLen DEF L
<1>9. Cardinality(IdsOf(rows)) = len
  <2> DEFINE T == IdsOf(rows)
             g == [r \in L |-> j[r]]
  <2>1. \A r \in L : j[r] \in T
      BY <1>6, <1>8 DEF IdsOf
  <2>2. \A x \in T : \E r \in L : j[r] = x
      BY <1>6, <1>8 DEF IdsOf
  <2>3. IsFiniteSet(L) /\ Cardinality(L) = len
      BY <1>7, FS_Interval DEF L
  <2> HIDE DEF T
  <2>4. g \in [L -> T] /\ \A x \in T : \E r \in L : g[r] = x
      BY <2>1, <2>2
  <2>5. \A a, b \in L : g[a] = g[b] => a = b
      BY <1>2, <1>4
  <2>6. g \in Surjection(L, T) /\ g \in Injection(L, T)
      BY <2>4, <2>5, Fun_IsSurj, Fun_IsInj
  <2>7. Cardinality(T) = Cardinality(L)
      BY <2>3, <2>6, FS_Surjection
  <2> QED BY <2>3, <2>7 DEF T
<1> QED BY <1>6, <1>8, <1>9 DEF len, m

\* As long as no similarity is NaN there is one, and a record's place in it is the
\* number of those that come before it.
LEMMA OneExactAnswer ==
    ASSUME TypeInv, NEW q \in Vectors, NoNaN(q), NEW n \in Nat
    PROVE  /\ Cardinality(BruteForceAnswers(q, n)) = 1
           /\ \A rows \in BruteForceAnswers(q, n) : \A r \in DOMAIN rows :
                 Cardinality({id \in DOMAIN vectors :
                    Precedes([id |-> id, score |-> Cosine(vectors[id], q)], rows[r])}) = r - 1
<1> DEFINE S == DOMAIN vectors
           m == Cardinality(S)
           B == Bijection(1..m, S)
           R == Before(q)
           len == Min({n, m})
           k == F!Ranked(R, S)
<1>1. m \in Nat /\ IsFiniteSet(S)
    BY FS_CardinalityType DEF TypeInv
<1>2. F!StrictOrder(R, S)
    BY BeforeIsOrder
<1>3. len \in 0..m /\ \A r \in 1..len : r \in 1..m
  <2>1. len = IF n <= m THEN n ELSE m
      BY <1>1, MinOfTwo
  <2>2. len \in 0..m
      BY <1>1, <2>1
  <2> HIDE DEF len, m
  <2> QED BY <1>1, <2>2
<1>4. k \in B /\ \A r \in 1..m : F!Rank(R, S, k[r]) = r - 1
  <2> HIDE DEF R, S
  <2> QED BY <1>1, <1>2, ByRank
<1>5. \A j \in B : InOrder(m, VectorRow(q), j) <=> \A r \in 1..m : F!Rank(R, S, j[r]) = r - 1
    BY OneOrder
<1>6. \A rows : rows \in BruteForceAnswers(q, n) <=>
         \E j \in B : rows = Listed(len, VectorRow(q), j) /\ InOrder(m, VectorRow(q), j)
    BY AnswersAre
<1>7. \A x, y \in S : <<x, y>> \in R <=> Precedes(VectorRow(q)[x], VectorRow(q)[y])
    BY DEF Before
<1>8. \A j \in B : \A r \in 1..m : j[r] \in S
  <2> TAKE j \in B
  <2> DEFINE D == 1..m
  <2>1. j \in Bijection(D, S)
      OBVIOUS
  <2> HIDE DEF D
  <2>2. j \in [D -> S]
      BY <2>1, BijectionIs
  <2> QED BY <2>2 DEF D
<1> HIDE DEF k, B, R, len, m
<1>9. ASSUME NEW j \in B, InOrder(m, VectorRow(q), j)
      PROVE  Listed(len, VectorRow(q), j) = Listed(len, VectorRow(q), k)
  <2>1. ASSUME NEW r \in 1..len PROVE j[r] = k[r]
    <3>1. j[r] \in S /\ k[r] \in S
        BY <1>3, <1>4, <1>8
    <3>2. F!Rank(R, S, j[r]) = r - 1 /\ F!Rank(R, S, k[r]) = r - 1
        BY <1>3, <1>4, <1>5, <1>9
    <3> HIDE DEF S
    <3> QED BY <1>1, <1>2, <3>1, <3>2, RankUnique
  <2> QED BY <2>1 DEF Listed
<1>10. BruteForceAnswers(q, n) = {Listed(len, VectorRow(q), k)}
  <2>1. Listed(len, VectorRow(q), k) \in BruteForceAnswers(q, n)
      BY <1>4, <1>5, <1>6
  <2>2. ASSUME NEW rows \in BruteForceAnswers(q, n) PROVE rows = Listed(len, VectorRow(q), k)
      BY <1>6, <1>9
  <2> QED BY <2>1, <2>2
<1>11. ASSUME NEW r \in 1..len
       PROVE  Cardinality({id \in S : Precedes([id |-> id, score |-> Cosine(vectors[id], q)],
                                               VectorRow(q)[k[r]])}) = r - 1
  <2>1. k[r] \in S /\ F!Rank(R, S, k[r]) = r - 1
      BY <1>3, <1>4, <1>8
  <2>2. \A id \in S : VectorRow(q)[id] = [id |-> id, score |-> Cosine(vectors[id], q)]
      BY DEF VectorRow
  <2>3. F!Below(R, S, k[r]) = {id \in S : Precedes([id |-> id, score |-> Cosine(vectors[id], q)],
                                                VectorRow(q)[k[r]])}
    <3> HIDE DEF S
    <3> QED BY <1>7, <2>1, <2>2 DEF F!Below
  <2> QED BY <2>1, <2>3, Shared DEF F!Rank
<1>12. Cardinality(BruteForceAnswers(q, n)) = 1
    BY <1>10, FS_Singleton
<1>13. ASSUME NEW rows \in BruteForceAnswers(q, n), NEW r \in DOMAIN rows
       PROVE  Cardinality({id \in S : Precedes([id |-> id, score |-> Cosine(vectors[id], q)],
                                               rows[r])}) = r - 1
  <2>1. rows = Listed(len, VectorRow(q), k)
      BY <1>10
  <2>2. r \in 1..len /\ rows[r] = VectorRow(q)[k[r]]
      BY <2>1 DEF Listed
  <2> QED BY <1>11, <2>2
<1> QED BY <1>12, <1>13

\* The exact index answers with as many rows as it can, every record once and with
\* its similarity, and in the one order there is, whatever the calls before were.
THEOREM ExactIsRanked == Spec => []ExactSearch
<1>1. TypeInv => ExactSearch
  <2> SUFFICES ASSUME TypeInv, NEW q \in Vectors, NEW n \in Ks
               PROVE  LET answers == BruteForceAnswers(q, n) IN
                      /\ \A rows \in answers :
                            /\ Len(rows) = Min({n, Cardinality(DOMAIN vectors)})
                            /\ Cardinality(IdsOf(rows)) = Len(rows)
                            /\ \A r \in DOMAIN rows : rows[r].score = Cosine(vectors[rows[r].id], q)
                      /\ (\A id \in DOMAIN vectors : Cosine(vectors[id], q) # NaN) =>
                            /\ Cardinality(answers) = 1
                            /\ \A rows \in answers : \A r \in DOMAIN rows :
                                  Cardinality({id \in DOMAIN vectors :
                                     Precedes([id |-> id, score |-> Cosine(vectors[id], q)], rows[r])})
                                     = r - 1
      BY DEF ExactSearch
  <2>1. n \in Nat
      BY DEF Ks
  <2> QED BY <2>1, ExactAnswerSound, OneExactAnswer DEF NoNaN
<1>2. Spec => [](TypeInv /\ LiveInv)
    BY IndexInit, IndexNext, PTL DEF Spec
<1> QED BY <1>1, <1>2, PTL
==============================================================================
