--------------------------- MODULE RetrievalProofs ---------------------------
(***************************************************************************)
(* Retrieval for any stores and queries: that the values are totally       *)
(* ordered, which rows a page has, in which order and with which scores,   *)
(* and how scores from texts and from votes compare.                       *)
(***************************************************************************)
EXTENDS Retrieval, FiniteSetTheorems, FunctionTheorems, TLAPS

\* Facts about sets, orders and sums, and about the fold that builds the index.
F == INSTANCE Folding WITH Op <- IndexText

\* What these facts are stated with is what this module has.
LEMMA Shared ==
    /\ \A S : F!Cardinality(S) = Cardinality(S) /\ (F!IsFiniteSet(S) <=> IsFiniteSet(S))
    /\ \A S, T : F!Bijection(S, T) = Bijection(S, T)
    /\ \A S : F!Ascending(S) = Ascending(S)
    /\ \A S : F!Max(S) = Max(S) /\ F!Min(S) = Min(S)
    /\ \A f : F!Total(f) = Total(f)
    /\ \A map, key, value : F!Put(map, key, value) = Put(map, key, value)
<1>1. \A S : F!Cardinality(S) = Cardinality(S)
    BY DEF Cardinality, F!Cardinality
<1>2. \A S : F!IsFiniteSet(S) <=> IsFiniteSet(S)
    BY DEF IsFiniteSet, F!IsFiniteSet
<1>3. \A S, T : F!Bijection(S, T) = Bijection(S, T)
    BY DEF Bijection, Injection, Surjection, IsInjective,
           F!Bijection, F!Injection, F!Surjection, F!IsInjective
<1>4. \A S : F!Ascending(S) = Ascending(S)
  <2> TAKE S
  <2> DEFINE Is(n) == CHOOSE id \in S : Cardinality({i \in S : i < id}) = n - 1
             Is2(n) == CHOOSE id \in S : F!Cardinality({i \in S : i < id}) = n - 1
  <2>1. \A n : Is(n) = Is2(n)
      BY <1>1
  <2>2. Ascending(S) = [n \in 1 .. Cardinality(S) |-> Is(n)]
      BY DEF Ascending
  <2>3. F!Ascending(S) = [n \in 1 .. F!Cardinality(S) |-> Is2(n)]
      BY DEF F!Ascending
  <2> HIDE DEF Is, Is2
  <2> QED BY <1>1, <2>1, <2>2, <2>3
<1>5. \A S : F!Max(S) = Max(S) /\ F!Min(S) = Min(S)
    BY DEF Max, Min, F!Max, F!Min
<1>6. \A f : F!Total(f) = Total(f)
    BY DEF Total, FoldFunction, FoldFunctionOnSet, MapThenFoldSet,
           F!Total, F!FoldFunction, F!FoldFunctionOnSet, F!MapThenFoldSet
<1>7. \A map, key, value : F!Put(map, key, value) = Put(map, key, value)
    BY DEF Put, F!Put
<1> QED BY <1>1, <1>2, <1>3, <1>4, <1>5, <1>6, <1>7

(***************************************************************************)
(* The facts used most, in these terms.                                    *)
(***************************************************************************)

\* The sum over no elements, over any, and with an entry put into a map.
LEMMA EmptySum == ASSUME NEW f, DOMAIN f = {} PROVE Total(f) = 0
BY Shared, F!TotalEmpty

LEMMA SumIsInt ==
    ASSUME NEW f, IsFiniteSet(DOMAIN f), \A x \in DOMAIN f : f[x] \in Int
    PROVE  Total(f) \in Int /\ ((\A x \in DOMAIN f : f[x] \in Nat) => Total(f) \in Nat)
BY Shared, F!TotalTyped

LEMMA SumPut ==
    ASSUME NEW f, IsFiniteSet(DOMAIN f), \A x \in DOMAIN f : f[x] \in Int,
           f = [x \in DOMAIN f |-> f[x]], NEW key, NEW value \in Int
    PROVE  Total(Put(f, key, value))
             = Total(f) + value - (IF key \in DOMAIN f THEN f[key] ELSE 0)
BY Shared, F!TotalPut

\* Iterating over a set of naturals.
LEMMA AscendingIs ==
    ASSUME NEW S \in SUBSET Nat, IsFiniteSet(S)
    PROVE  /\ Cardinality(S) \in Nat
           /\ Ascending(S) \in [1 .. Cardinality(S) -> S]
           /\ Ascending(S) \in Bijection(1 .. Cardinality(S), S)
           /\ Ascending(S) \in Seq(S) /\ Len(Ascending(S)) = Cardinality(S)
           /\ {Ascending(S)[r] : r \in 1 .. Cardinality(S)} = S
           /\ \A r \in 1 .. Cardinality(S) : Cardinality({i \in S : i < Ascending(S)[r]}) = r - 1
<1> DEFINE n == Cardinality(S)
           D == 1..n
           list == Ascending(S)
<1>1. n \in Nat
    BY FS_CardinalityType
<1>2. list \in Bijection(D, S) /\ \A r \in D : Cardinality({i \in S : i < list[r]}) = r - 1
    BY Shared, F!Iterated
<1> HIDE DEF D, list
<1>3. list \in [D -> S] /\ \A x \in S : \E r \in D : list[r] = x
    BY <1>2, Shared, F!BijectionIs
<1>4. {list[r] : r \in D} = S
    BY <1>3
<1>5. list \in Seq(S) /\ Len(list) = n
    BY <1>1, <1>3 DEF D
<1> QED BY <1>1, <1>2, <1>3, <1>4, <1>5 DEF D, list

\* A sequence has finitely many elements.
LEMMA RangeFinite ==
    ASSUME NEW E, NEW q \in Seq(E)
    PROVE  IsFiniteSet(Range(q)) /\ Range(q) \in SUBSET E /\ IsFiniteSet(DOMAIN q)
<1>1. DOMAIN q = 1 .. Len(q) /\ Len(q) \in Nat
    OBVIOUS
<1>2. IsFiniteSet(DOMAIN q)
    BY <1>1, FS_Interval
<1>3. IsFiniteSet({q[k] : k \in DOMAIN q})
    BY <1>2, Shared, F!ImageFinite
<1>4. Range(q) = {q[k] : k \in DOMAIN q}
    BY DEF Range
<1>5. Range(q) \in SUBSET E
    BY <1>4
<1> QED BY <1>2, <1>3, <1>4, <1>5

(***************************************************************************)
(* Tokens and their counts.                                                *)
(***************************************************************************)

\* The tokens of a text are a sequence.
LEMMA TokensTyped ==
    ASSUME NEW text \in Seq(STRING)
    PROVE  \E E : Tokenize(text) \in Seq(E)
<1> DEFINE S == Begins(text)
           q == Tokenize(text)
           E == {q[t] : t \in DOMAIN q}
<1>1. S \in SUBSET DOMAIN text /\ DOMAIN text \in SUBSET Nat /\ IsFiniteSet(DOMAIN text)
    BY RangeFinite DEF Begins
<1>2. S \in SUBSET Nat /\ IsFiniteSet(S)
    BY <1>1, FS_Subset
<1>3. Cardinality(S) \in Nat /\ DOMAIN Ascending(S) = 1 .. Cardinality(S)
    BY <1>2, AscendingIs
<1>4. q = [t \in DOMAIN Ascending(S) |-> q[t]]
    BY DEF Tokenize
<1> HIDE DEF q
<1>5. q \in [1 .. Cardinality(S) -> E]
    BY <1>3, <1>4
<1>6. q \in Seq(E)
  <2> DEFINE n == Cardinality(S)
  <2>1. n \in Nat /\ q \in [1..n -> E]
      BY <1>3, <1>5
  <2> HIDE DEF n, E
  <2> QED BY <2>1
<1> QED BY <1>6 DEF q

\* How often a token occurs is a number, positive for those there are.
LEMMA OccurrencesTyped ==
    ASSUME NEW E, NEW q \in Seq(E), NEW t
    PROVE  Occurrences(t, q) \in Nat /\ (t \notin Range(q) => Occurrences(t, q) = 0)
<1> DEFINE S == {k \in DOMAIN q : q[k] = t}
<1>1. IsFiniteSet(S)
    BY RangeFinite, FS_Subset
<1>2. t \notin Range(q) => S = {}
    BY DEF Range
<1> QED BY <1>1, <1>2, FS_CardinalityType, FS_EmptySet DEF Occurrences

\* One token more.
LEMMA OneMore ==
    ASSUME NEW E, NEW q \in Seq(E), NEW x \in E
    PROVE  /\ Range(Append(q, x)) = Range(q) \cup {x}
           /\ \A t : Occurrences(t, Append(q, x)) = Occurrences(t, q) + (IF t = x THEN 1 ELSE 0)
<1> DEFINE r == Append(q, x)
           n == Len(q)
<1>1. /\ n \in Nat /\ DOMAIN q = 1..n /\ DOMAIN r = (1..n) \cup {n + 1}
      /\ r[n + 1] = x /\ \A k \in 1..n : r[k] = q[k] /\ n + 1 \notin 1..n
    OBVIOUS
<1> HIDE DEF r, n
<1>2. Range(r) = Range(q) \cup {x}
    BY <1>1 DEF Range
<1>3. ASSUME NEW t PROVE Occurrences(t, r) = Occurrences(t, q) + (IF t = x THEN 1 ELSE 0)
  <2> DEFINE S == {k \in DOMAIN q : q[k] = t}
             T == {k \in DOMAIN r : r[k] = t}
  <2>1. IsFiniteSet(S) /\ n + 1 \notin S
      BY <1>1, RangeFinite, FS_Subset
  <2>0. Occurrences(t, r) = Cardinality(T) /\ Occurrences(t, q) = Cardinality(S)
      BY DEF Occurrences
  <2>2. CASE t = x
    <3>1. T = S \cup {n + 1}
        BY <1>1, <2>2
    <3>2. Cardinality(T) = Cardinality(S) + 1
      <4> HIDE DEF S, T
      <4> QED BY <2>1, <3>1, FS_AddElement
    <3> QED BY <2>0, <2>2, <3>2
  <2>3. CASE t # x
    <3>1. T = S
        BY <1>1, <2>3
    <3>2. Cardinality(S) \in Nat
        BY <2>1, FS_CardinalityType
    <3> HIDE DEF S, T
    <3> QED BY <2>0, <2>3, <3>1, <3>2
  <2> QED BY <2>2, <2>3
<1> QED BY <1>2, <1>3 DEF r

\* The counts of the tokens add up to their number.
LEMMA CountsAddUp ==
    ASSUME NEW E, NEW q \in Seq(E)
    PROVE  Total(CountsOf(q)) = Len(q)
<1> DEFINE good == {r \in Seq(E) : Total(CountsOf(r)) = Len(r)}
<1>1. <<>> \in good
  <2>1. <<>> \in Seq(E) /\ Len(<<>>) = 0 /\ DOMAIN CountsOf(<<>>) = {}
      BY DEF CountsOf, Range
  <2> QED BY <2>1, EmptySum
<1>2. ASSUME NEW r \in good, NEW x \in E PROVE Append(r, x) \in good
  <2> DEFINE counts == CountsOf(r)
             more == CountsOf(Append(r, x))
             value == Occurrences(x, r) + 1
  <2>1. r \in Seq(E) /\ Total(counts) = Len(r) /\ Len(r) \in Nat
      BY <1>2
  <2>2. /\ DOMAIN counts = Range(r) /\ IsFiniteSet(DOMAIN counts)
        /\ \A t \in DOMAIN counts : counts[t] = Occurrences(t, r) /\ counts[t] \in Int
        /\ counts = [t \in DOMAIN counts |-> counts[t]]
      BY <2>1, RangeFinite, OccurrencesTyped DEF CountsOf
  <2>3. value \in Int /\ value = Occurrences(x, r) + 1 /\ Occurrences(x, r) \in Nat
      BY <2>1, OccurrencesTyped
  <2>4. more = Put(counts, x, value)
    <3>1. DOMAIN more = DOMAIN counts \cup {x}
        BY <2>1, <2>2, OneMore DEF CountsOf
    <3>2. \A t \in DOMAIN more : more[t] = IF t = x THEN value ELSE counts[t]
      <4> TAKE t \in DOMAIN more
      <4>1. more[t] = Occurrences(t, Append(r, x))
          BY DEF CountsOf
      <4>2. more[t] = Occurrences(t, r) + (IF t = x THEN 1 ELSE 0)
          BY <2>1, <4>1, OneMore
      <4>3. t # x => t \in DOMAIN counts /\ counts[t] = Occurrences(t, r) /\ Occurrences(t, r) \in Nat
          BY <2>1, <2>2, <3>1, OccurrencesTyped
      <4> HIDE DEF counts, more
      <4> QED BY <4>2, <4>3
    <3>3. more = [t \in DOMAIN more |-> more[t]]
        BY DEF CountsOf
    <3> HIDE DEF counts, more, value
    <3> QED BY <3>1, <3>2, <3>3 DEF Put
  <2>5. x \notin DOMAIN counts => Occurrences(x, r) = 0
      BY <2>1, <2>2, OccurrencesTyped
  <2> HIDE DEF counts, more, value
  <2>6. Total(more) = Total(counts) + value - (IF x \in DOMAIN counts THEN counts[x] ELSE 0)
      BY <2>2, <2>3, <2>4, SumPut
  <2>7. Total(more) = Len(r) + 1
      BY <2>1, <2>2, <2>3, <2>5, <2>6
  <2>8. Append(r, x) \in Seq(E) /\ Len(Append(r, x)) = Len(r) + 1
      BY <2>1
  <2> QED BY <2>7, <2>8 DEF more
<1> HIDE DEF good
<1>3. q \in good
    BY <1>1, <1>2, F!SeqInduction
<1> QED BY <1>3 DEF good

(***************************************************************************)
(* The stores and queries.                                                 *)
(***************************************************************************)

Inputs == IsStore(store) /\ IsSelect(sel)

\* What the positions of a store hold.
LEMMA StoreHolds ==
    ASSUME IsStore(store)
    PROVE  /\ DOMAIN Records = 1 .. Len(Records) /\ Len(Records) \in Nat
           /\ IsFiniteSet(DOMAIN Records) /\ DOMAIN Records \in SUBSET Nat
           /\ IsFiniteSet(DOMAIN store.edges)
           /\ \A i \in DOMAIN Records :
                 /\ Records[i].similarity \in Seq(Int) /\ Records[i].text \in Seq(Seq(STRING))
                 /\ Records[i].created \in Int
                 /\ "importance" \in DOMAIN Body(i) /\ IsNumber(Body(i).importance) =>
                       Halves(Body(i).importance) \in Int
           /\ \A e \in DOMAIN store.edges :
                 /\ store.edges[e].weight \in Seq(Int) /\ store.edges[e].created \in Int
                 /\ store.edges[e].value # <<>> /\ IsNumber(store.edges[e].value[1]) =>
                       Halves(store.edges[e].value[1]) \in Int
<1>1. Records \in Seq(Range(Records)) /\ store.edges \in Seq(Range(store.edges))
    BY DEF IsStore, Records
<1>2. DOMAIN Records = 1 .. Len(Records) /\ Len(Records) \in Nat
    BY <1>1
<1>3. IsFiniteSet(DOMAIN Records) /\ IsFiniteSet(DOMAIN store.edges)
    BY <1>1, RangeFinite
<1>4. DOMAIN Records \in SUBSET Nat
    BY <1>2
<1>5. /\ \A i \in DOMAIN Records : Records[i] \in Range(Records)
      /\ \A e \in DOMAIN store.edges : store.edges[e] \in Range(store.edges)
    BY DEF Range
<1>6. \A i \in DOMAIN Records :
          /\ Records[i].similarity \in Seq(Int) /\ Records[i].text \in Seq(Seq(STRING))
          /\ Records[i].created \in Int
          /\ "importance" \in DOMAIN Body(i) /\ IsNumber(Body(i).importance) =>
                Halves(Body(i).importance) \in Int
    BY <1>5 DEF IsStore, Records, Body
<1>7. \A e \in DOMAIN store.edges :
          /\ store.edges[e].weight \in Seq(Int) /\ store.edges[e].created \in Int
          /\ store.edges[e].value # <<>> /\ IsNumber(store.edges[e].value[1]) =>
                Halves(store.edges[e].value[1]) \in Int
    BY <1>5 DEF IsStore
<1> QED BY <1>2, <1>3, <1>4, <1>6, <1>7

\* The matching records are finitely many positions.
LEMMA MatchingTyped ==
    ASSUME IsStore(store)
    PROVE  /\ Matching \in SUBSET Nat /\ Matching \in SUBSET DOMAIN Records
           /\ IsFiniteSet(Matching) /\ Cardinality(Matching) \in Nat
<1>1. Matching \in SUBSET DOMAIN Records
    BY DEF Matching
<1>2. IsFiniteSet(DOMAIN Records) /\ DOMAIN Records \in SUBSET Nat
    BY StoreHolds
<1>3. IsFiniteSet(Matching)
    BY <1>1, <1>2, FS_Subset
<1> QED BY <1>1, <1>2, <1>3, FS_CardinalityType

(***************************************************************************)
(* The index.                                                              *)
(***************************************************************************)

DocumentsIn(C) == {i \in C : Records[i].text # <<>>}

\* How many of some records have a token.
HaveToken(C, t) == Cardinality({j \in DocumentsIn(C) : t \in Range(Tokens(j))})

Lengths(C) == [j \in DocumentsIn(C) |-> Len(Tokens(j))]

\* The index of some records.
IsIndexOf(index, C) ==
    /\ DOMAIN index.docs = DocumentsIn(C)
    /\ \A i \in DocumentsIn(C) : index.docs[i] = CountsOf(Tokens(i))
    /\ index.n = Cardinality(DocumentsIn(C))
    /\ \A t : t \in DOMAIN index.df <=> \E i \in DocumentsIn(C) : t \in Range(Tokens(i))
    /\ \A t \in DOMAIN index.df : index.df[t] = HaveToken(C, t)
    /\ index.total = Total(Lengths(C))

\* The tokens of a record with a text.
LEMMA TokensAre ==
    ASSUME IsStore(store), NEW i \in DOMAIN Records, Records[i].text # <<>>
    PROVE  /\ Tokens(i) = Tokenize(Records[i].text[1]) /\ \E E : Tokens(i) \in Seq(E)
           /\ Len(Tokens(i)) \in Nat
<1>1. Records[i].text[1] \in Seq(STRING)
  <2>1. Records[i].text \in Seq(Seq(STRING))
      BY StoreHolds
  <2> QED BY <2>1
<1>2. PICK E : Tokens(i) \in Seq(E)
    BY <1>1, TokensTyped DEF Tokens
<1>3. Len(Tokens(i)) \in Nat
    BY <1>2
<1> QED BY <1>2, <1>3 DEF Tokens

\* The records of a set with a text, and those with a token, are finitely many.
LEMMA DocumentsFinite ==
    ASSUME NEW C, IsFiniteSet(C)
    PROVE  /\ IsFiniteSet(DocumentsIn(C)) /\ Cardinality(DocumentsIn(C)) \in Nat
           /\ \A t : /\ IsFiniteSet({j \in DocumentsIn(C) : t \in Range(Tokens(j))})
                     /\ HaveToken(C, t) \in Nat
<1>1. IsFiniteSet(DocumentsIn(C))
    BY FS_Subset DEF DocumentsIn
<1>2. ASSUME NEW t PROVE IsFiniteSet({j \in DocumentsIn(C) : t \in Range(Tokens(j))})
    BY <1>1, FS_Subset
<1> QED BY <1>1, <1>2, FS_CardinalityType DEF HaveToken

\* No record is indexed yet.
LEMMA IndexEmpty == IsIndexOf(EmptyIndex, {})
<1>1. DocumentsIn({}) = {} /\ DOMAIN <<>> = {} /\ Cardinality({}) = 0
    BY FS_EmptySet DEF DocumentsIn
<1>2. Total(Lengths({})) = 0
    BY <1>1, EmptySum DEF Lengths
<1> QED BY <1>1, <1>2 DEF IsIndexOf, EmptyIndex

\* A record more.
LEMMA IndexGrows ==
    ASSUME IsStore(store), NEW C, C \in SUBSET DOMAIN Records, NEW i \in DOMAIN Records, i \notin C,
           NEW index, IsIndexOf(index, C)
    PROVE  IsIndexOf(IndexText(Records, index, i), C \cup {i})
<1>0. IsFiniteSet(C)
    BY StoreHolds, FS_Subset
<1>1. CASE Records[i].text = <<>>
  <2>1. DocumentsIn(C \cup {i}) = DocumentsIn(C)
      BY <1>1 DEF DocumentsIn
  <2>2. IndexText(Records, index, i) = index
      BY <1>1 DEF IndexText
  <2>3. /\ \A t : HaveToken(C \cup {i}, t) = HaveToken(C, t)
        /\ Lengths(C \cup {i}) = Lengths(C)
      BY <2>1 DEF HaveToken, Lengths
  <2> QED BY <2>1, <2>2, <2>3 DEF IsIndexOf
<1>2. CASE Records[i].text # <<>>
  <2> DEFINE counts == CountsOf(Tokens(i))
             next == IndexText(Records, index, i)
             Old == DocumentsIn(C)
             New == DocumentsIn(C \cup {i})
  <2>1. New = Old \cup {i} /\ i \notin Old
      BY <1>2 DEF DocumentsIn
  <2>2. PICK E : Tokens(i) \in Seq(E)
      BY <1>2, TokensAre
  <2>3. /\ DOMAIN counts = Range(Tokens(i)) /\ Total(counts) = Len(Tokens(i))
        /\ Len(Tokens(i)) \in Nat
      BY <2>2, CountsAddUp DEF CountsOf
  <2>4. next = AddDocument(index, i, Records[i].text[1])
      BY <1>2 DEF IndexText
  <2>5. /\ next.docs = Put(index.docs, i, counts)
        /\ next.df = [t \in DOMAIN index.df \cup DOMAIN counts |->
                        At0(index.df, t) + (IF t \in DOMAIN counts THEN 1 ELSE 0)]
        /\ next.n = index.n + 1
        /\ next.total = index.total + Total(counts)
      BY <2>4 DEF AddDocument, Tokens
  <2>6. IsFiniteSet(Old) /\ Cardinality(Old) \in Nat
      BY <1>0, DocumentsFinite
  <2> HIDE DEF counts, next, Old, New
  <2>7. /\ DOMAIN index.docs = Old
        /\ \A j \in Old : index.docs[j] = CountsOf(Tokens(j))
        /\ index.n = Cardinality(Old)
        /\ \A t : t \in DOMAIN index.df <=> \E j \in Old : t \in Range(Tokens(j))
        /\ \A t \in DOMAIN index.df : index.df[t] = HaveToken(C, t)
        /\ index.total = Total(Lengths(C))
      BY DEF IsIndexOf, Old
  <2>8. DOMAIN next.docs = New /\ \A j \in New : next.docs[j] = CountsOf(Tokens(j))
      BY <2>1, <2>5, <2>7 DEF Put, counts
  <2>9. next.n = Cardinality(New)
    <3>1. Cardinality(Old \cup {i}) = Cardinality(Old) + 1
        BY <2>1, <2>6, FS_AddElement
    <3> QED BY <2>1, <2>5, <2>7, <3>1
  <2>10. \A t : t \in DOMAIN next.df <=> \E j \in New : t \in Range(Tokens(j))
      BY <2>1, <2>3, <2>5, <2>7
  <2>11. ASSUME NEW t \in DOMAIN next.df PROVE next.df[t] = HaveToken(C \cup {i}, t)
    <3> DEFINE S == {j \in Old : t \in Range(Tokens(j))}
               T == {j \in New : t \in Range(Tokens(j))}
    <3>1. IsFiniteSet(S) /\ i \notin S /\ HaveToken(C, t) = Cardinality(S) /\ Cardinality(S) \in Nat
      <4>1. IsFiniteSet(S) /\ HaveToken(C, t) \in Nat
          BY <1>0, DocumentsFinite DEF Old
      <4>2. HaveToken(C, t) = Cardinality(S)
          BY DEF HaveToken, Old
      <4> QED BY <2>1, <4>1, <4>2
    <3>2. HaveToken(C \cup {i}, t) = Cardinality(T)
        BY DEF HaveToken, New
    <3>3. At0(index.df, t) = Cardinality(S)
      <4>1. CASE t \in DOMAIN index.df
          BY <2>7, <3>1, <4>1 DEF At0
      <4>2. CASE t \notin DOMAIN index.df
        <5>1. S = {}
            BY <2>7, <4>2
        <5> QED BY <4>2, <5>1, FS_EmptySet DEF At0
      <4> QED BY <4>1, <4>2
    <3>4. next.df[t] = At0(index.df, t) + (IF t \in DOMAIN counts THEN 1 ELSE 0)
        BY <2>5
    <3>5. CASE t \in Range(Tokens(i))
      <4>1. T = S \cup {i}
          BY <2>1, <3>5
      <4>2. Cardinality(T) = Cardinality(S) + 1
        <5> HIDE DEF S, T
        <5> QED BY <3>1, <4>1, FS_AddElement
      <4> QED BY <2>3, <3>1, <3>2, <3>3, <3>4, <3>5, <4>2
    <3>6. CASE t \notin Range(Tokens(i))
      <4>1. T = S
          BY <2>1, <3>6
      <4> HIDE DEF S, T
      <4> QED BY <2>3, <3>1, <3>2, <3>3, <3>4, <3>6, <4>1
    <3> QED BY <3>5, <3>6
  <2>12. next.total = Total(Lengths(C \cup {i}))
    <3> DEFINE f == Lengths(C)
    <3>1. DOMAIN f = Old /\ f = [j \in DOMAIN f |-> f[j]]
        BY DEF Lengths, Old
    <3>2. \A j \in DOMAIN f : f[j] \in Int
      <4> TAKE j \in DOMAIN f
      <4>1. j \in DOMAIN Records /\ Records[j].text # <<>> /\ f[j] = Len(Tokens(j))
          BY DEF Lengths, DocumentsIn
      <4> QED BY <4>1, TokensAre
    <3>3. Lengths(C \cup {i}) = Put(f, i, Len(Tokens(i)))
      <4>1. Lengths(C \cup {i}) = [j \in New |-> Len(Tokens(j))]
          BY DEF Lengths, New
      <4>2. \A j \in Old : f[j] = Len(Tokens(j))
          BY DEF Lengths, Old
      <4>3. Put(f, i, Len(Tokens(i))) = [j \in Old \cup {i} |-> IF j = i THEN Len(Tokens(i)) ELSE f[j]]
          BY <3>1 DEF Put
      <4> HIDE DEF f
      <4> QED BY <2>1, <4>1, <4>2, <4>3
    <3>4. IsFiniteSet(DOMAIN f) /\ i \notin DOMAIN f
        BY <2>1, <2>6, <3>1
    <3> HIDE DEF f
    <3>5. Total(Put(f, i, Len(Tokens(i)))) = Total(f) + Len(Tokens(i)) /\ Total(f) \in Int
      <4>1. Total(f) \in Int
          BY <3>2, <3>4, SumIsInt
      <4>2. Total(Put(f, i, Len(Tokens(i)))) = Total(f) + Len(Tokens(i)) - (IF i \in DOMAIN f THEN f[i] ELSE 0)
          BY <2>3, <3>1, <3>2, <3>4, SumPut
      <4> QED BY <2>3, <3>4, <4>1, <4>2
    <3> QED BY <2>3, <2>5, <2>7, <3>3, <3>5 DEF f
  <2>13. IsIndexOf(next, C \cup {i})
      BY <2>8, <2>9, <2>10, <2>11, <2>12 DEF IsIndexOf, New
  <2> QED BY <2>13 DEF next
<1> QED BY <1>1, <1>2

\* So the fold over the matching records gives their index.
LEMMA IndexIsExact ==
    ASSUME IsStore(store), candidates = Ascending(Matching)
    PROVE  IsIndexOf(FoldLeft(LAMBDA index, i : IndexText(Records, index, i), EmptyIndex, candidates),
                     Matching)
<1> DEFINE q == candidates
           First(n) == {q[r] : r \in 1..n}
           folded(n) == F!Fold(Records, EmptyIndex, SubSeq(q, 1, n))
           good == {n \in Nat : n <= Len(q) => IsIndexOf(folded(n), First(n))}
<1>1. /\ q \in Seq(Matching) /\ Len(q) = Cardinality(Matching) /\ Len(q) \in Nat
      /\ First(Len(q)) = Matching
      /\ \A a, b \in 1 .. Len(q) : q[a] = q[b] => a = b
      /\ Matching \in SUBSET DOMAIN Records
  <2>1. Matching \in SUBSET Nat /\ IsFiniteSet(Matching) /\ Matching \in SUBSET DOMAIN Records
      BY MatchingTyped
  <2>0. q = Ascending(Matching)
      OBVIOUS
  <2>2. /\ q \in Seq(Matching) /\ Len(q) = Cardinality(Matching) /\ Len(q) \in Nat
        /\ First(Len(q)) = Matching /\ q \in Bijection(1 .. Len(q), Matching)
    <3> HIDE DEF q
    <3> DEFINE S == Matching
               N == Cardinality(S)
    <3>0. S \in SUBSET Nat /\ IsFiniteSet(S)
        BY <2>1
    <3> HIDE DEF S
    <3>1. /\ q \in Seq(S) /\ Len(q) = N /\ N \in Nat
          /\ {q[r] : r \in 1 .. N} = S /\ q \in Bijection(1 .. N, S)
      <4>1. q = Ascending(S)
          BY <2>0 DEF S
      <4>2. /\ Ascending(S) \in Seq(S) /\ Len(Ascending(S)) = N /\ N \in Nat
            /\ {Ascending(S)[r] : r \in 1 .. N} = S
            /\ Ascending(S) \in Bijection(1 .. N, S)
          BY <3>0, AscendingIs
      <4> HIDE DEF N
      <4> QED BY <4>1, <4>2
    <3> QED BY <3>1 DEF S
  <2>3. \A a, b \in 1 .. Len(q) : q[a] = q[b] => a = b
    <3> DEFINE D == 1 .. Len(q)
    <3>1. q \in F!Bijection(D, Matching)
        BY <2>2, Shared
    <3> HIDE DEF D, q
    <3>2. \A a, b \in D : q[a] = q[b] => a = b
        BY <3>1, F!BijectionIs
    <3> QED BY <3>2 DEF D
  <2> QED BY <2>1, <2>2, <2>3
<1> HIDE DEF q
<1>2. 0 \in good
  <2>1. SubSeq(q, 1, 0) = <<>> /\ First(0) = {}
      BY <1>1, F!PrefixesGrow
  <2>2. folded(0) = EmptyIndex
      BY <2>1, F!FoldEmpty
  <2> QED BY <2>1, <2>2, IndexEmpty
<1>3. ASSUME NEW n \in Nat, n \in good PROVE n + 1 \in good
  <2> SUFFICES ASSUME n + 1 <= Len(q) PROVE IsIndexOf(folded(n + 1), First(n + 1))
      OBVIOUS
  <2>1. /\ SubSeq(q, 1, n + 1) = Append(SubSeq(q, 1, n), q[n + 1]) /\ q[n + 1] \in Matching
        /\ SubSeq(q, 1, n) \in Seq(Matching)
    <3>1. n \in 0 .. Len(q)
        BY <1>1
    <3> QED BY <1>1, <3>1, F!PrefixesGrow
  <2>2. folded(n + 1) = IndexText(Records, folded(n), q[n + 1])
    <3>1. F!Fold(Records, EmptyIndex, Append(SubSeq(q, 1, n), q[n + 1]))
             = IndexText(Records, F!Fold(Records, EmptyIndex, SubSeq(q, 1, n)), q[n + 1])
        BY <2>1, F!FoldAppend
    <3> QED BY <2>1, <3>1
  <2>3. IsIndexOf(folded(n), First(n))
      BY <1>1, <1>3
  <2>4. First(n + 1) = First(n) \cup {q[n + 1]} /\ q[n + 1] \notin First(n)
    <3>1. \A r : r \in 1 .. (n + 1) <=> r \in 1..n \/ r = n + 1
        OBVIOUS
    <3>2. n + 1 \in 1 .. Len(q) /\ \A r \in 1..n : r \in 1 .. Len(q) /\ r # n + 1
        BY <1>1
    <3> QED BY <1>1, <3>1, <3>2
  <2>5. First(n) \in SUBSET DOMAIN Records /\ q[n + 1] \in DOMAIN Records
    <3>1. \A r \in 1..n : q[r] \in Matching
        BY <1>1
    <3> QED BY <1>1, <2>1, <3>1
  <2> HIDE DEF folded, First
  <2> QED BY <2>2, <2>3, <2>4, <2>5, IndexGrows
<1> HIDE DEF good
<1>4. Len(q) \in good
    BY <1>1, <1>2, <1>3, F!Induction
<1>5. IsIndexOf(folded(Len(q)), First(Len(q)))
    BY <1>1, <1>4 DEF good
<1>6. folded(Len(q)) = F!Fold(Records, EmptyIndex, q)
    BY <1>1, F!PrefixesGrow
<1>7. F!Fold(Records, EmptyIndex, q)
         = FoldLeft(LAMBDA index, i : IndexText(Records, index, i), EmptyIndex, q)
    BY DEF FoldLeft, MapThenFoldSet, Max, F!Fold, F!FoldLeft, F!MapThenFoldSet, F!Max
<1> QED BY <1>1, <1>5, <1>6, <1>7 DEF q

\* The Okapi score with this index is the one from the texts.
LEMMA LexicalIsRelevance ==
    ASSUME IsStore(store), NEW index, IsIndexOf(index, Matching), NEW i \in Matching
    PROVE  LexicalScore(index, i, Tokenize(sel.query)) = Relevance(i)
<1> DEFINE query == Range(Tokenize(sel.query))
<1>1. Documents = DocumentsIn(Matching)
    BY DEF Documents, DocumentsIn
<1>2. /\ DOMAIN index.docs = Documents
      /\ \A j \in Documents : index.docs[j] = CountsOf(Tokens(j))
      /\ index.n = Cardinality(Documents)
      /\ \A t : t \in DOMAIN index.df <=> \E j \in Documents : t \in Range(Tokens(j))
      /\ \A t \in DOMAIN index.df :
            index.df[t] = Cardinality({j \in Documents : t \in Range(Tokens(j))})
      /\ index.total = Total([j \in Documents |-> Len(Tokens(j))])
    BY <1>1 DEF IsIndexOf, HaveToken, Lengths
<1>3. CASE i \notin Documents
  <2> DEFINE f == [t \in query \cap DOMAIN <<>> |->
                     TermScore(Idf(index.n, index.df[t]), <<>>[t], Total(<<>>), index.n, index.total)]
  <2>1. LexicalScore(index, i, Tokenize(sel.query)) = Total(f)
      BY <1>2, <1>3 DEF LexicalScore
  <2>2. DOMAIN f = {}
      OBVIOUS
  <2>3. Total(f) = 0
    <3> HIDE DEF f
    <3> QED BY <2>2, EmptySum
  <2> QED BY <1>3, <2>1, <2>3 DEF Relevance
<1>4. CASE i \in Documents
  <2> DEFINE counts == CountsOf(Tokens(i))
             Indexed(t) == TermScore(Idf(index.n, index.df[t]), counts[t], Total(counts),
                                     index.n, index.total)
             Term(t) == TermScore(Idf(Cardinality(Documents),
                                      Cardinality({j \in Documents : t \in Range(Tokens(j))})),
                                  Occurrences(t, Tokens(i)), Len(Tokens(i)), Cardinality(Documents),
                                  Total([j \in Documents |-> Len(Tokens(j))]))
  <2>1. i \in DOMAIN Records /\ Records[i].text # <<>>
      BY <1>4, MatchingTyped DEF Documents
  <2>2. PICK E : Tokens(i) \in Seq(E)
      BY <2>1, TokensAre
  <2>3. /\ DOMAIN counts = Range(Tokens(i)) /\ Total(counts) = Len(Tokens(i))
        /\ \A t \in Range(Tokens(i)) : counts[t] = Occurrences(t, Tokens(i))
      BY <2>2, CountsAddUp DEF CountsOf
  <2>4. index.docs[i] = counts /\ i \in DOMAIN index.docs
      BY <1>2, <1>4
  <2>5. ASSUME NEW t \in Range(Tokens(i)) PROVE Indexed(t) = Term(t)
    <3>1. t \in DOMAIN index.df
        BY <1>2, <1>4
    <3>2. index.df[t] = Cardinality({j \in Documents : t \in Range(Tokens(j))})
        BY <1>2, <3>1
    <3> HIDE DEF counts
    <3> QED BY <1>2, <2>3, <3>2
  <2>6. LexicalScore(index, i, Tokenize(sel.query)) = Total([t \in query \cap DOMAIN counts |-> Indexed(t)])
    <3> HIDE DEF counts
    <3> QED BY <2>4 DEF LexicalScore
  <2>7. Relevance(i) = Total([t \in query \cap Range(Tokens(i)) |-> Term(t)])
      BY <1>4 DEF Relevance
  <2>8. [t \in query \cap DOMAIN counts |-> Indexed(t)] = [t \in query \cap Range(Tokens(i)) |-> Term(t)]
    <3> HIDE DEF Indexed, Term, counts, query
    <3> QED BY <2>3, <2>5
  <2> HIDE DEF Indexed, Term
  <2> QED BY <2>6, <2>7, <2>8
<1> QED BY <1>3, <1>4

(***************************************************************************)
(* Scores are numbers.                                                     *)
(***************************************************************************)

\* The frequencies of tokens give numbers.
IdfTyped == \A n, df \in Nat : Idf(n, df) \in Int

\* A term's score never divides by zero.
LEMMA TermTyped ==
    ASSUME NEW idf \in Int, NEW tf \in Nat, NEW len \in Nat, NEW n \in Nat, n > 0, NEW total \in Nat
    PROVE  TermScore(idf, tf, len, n, total) \in Int
<1> DEFINE all == Max({total, n})
           up == idf * 22 * tf * all
           down == (10 * tf + 3) * all + 9 * len * n
<1>1. all \in Nat /\ all > 0
  <2>1. Max({total, n}) = IF total >= n THEN total ELSE n
      BY Shared, F!MaxOfTwo
  <2> QED BY <2>1
<1> HIDE DEF all
<1>2. up \in Int
  <2>1. \A a, b \in Int : a * b \in Int
      OBVIOUS
  <2>2. idf * 22 \in Int /\ tf \in Int /\ all \in Int
      BY <1>1
  <2>3. (idf * 22) * tf \in Int
      BY <2>1, <2>2
  <2> QED BY <2>1, <2>2, <2>3
<1>3. down \in Nat /\ down > 0
  <2>1. \A a, b \in Nat : a * b \in Nat
      OBVIOUS
  <2>2. \A a, b \in Nat : a > 0 /\ b > 0 => a * b > 0
      OBVIOUS
  <2>3. 10 * tf + 3 \in Nat /\ 10 * tf + 3 > 0
      OBVIOUS
  <2>4. (10 * tf + 3) * all \in Nat /\ (10 * tf + 3) * all > 0
      BY <1>1, <2>1, <2>2, <2>3
  <2>5. 9 * len \in Nat /\ (9 * len) * n \in Nat
      BY <2>1
  <2> QED BY <2>4, <2>5
<1>4. TermScore(idf, tf, len, n, total) = up \div down
    BY DEF TermScore, all
<1> HIDE DEF up, down
<1> QED BY <1>2, <1>3, <1>4

\* Nor does the Okapi score of a record.
LEMMA RelevanceTyped ==
    ASSUME IdfTyped, Inputs, NEW i \in Matching
    PROVE  Relevance(i) \in Int
<1> DEFINE n == Cardinality(Documents)
           total == Total([j \in Documents |-> Len(Tokens(j))])
           df(t) == Cardinality({j \in Documents : t \in Range(Tokens(j))})
           Term(t) == TermScore(Idf(n, df(t)), Occurrences(t, Tokens(i)), Len(Tokens(i)), n, total)
           terms == Range(Tokenize(sel.query)) \cap Range(Tokens(i))
<1>1. CASE i \notin Documents
    BY <1>1 DEF Relevance
<1>2. CASE i \in Documents
  <2>0. IsStore(store) /\ sel.query \in Seq(STRING)
      BY DEF Inputs, IsSelect
  <2>1. /\ IsFiniteSet(Documents) /\ Documents \in SUBSET Matching
        /\ Matching \in SUBSET DOMAIN Records
      BY <2>0, MatchingTyped, FS_Subset DEF Documents
  <2>2. n \in Nat /\ n > 0
      BY <1>2, <2>1, FS_CardinalityType, FS_EmptySet
  <2>3. \A j \in Documents : Len(Tokens(j)) \in Nat
      BY <2>0, <2>1, TokensAre DEF Documents
  <2>4. total \in Nat
    <3> DEFINE f == [j \in Documents |-> Len(Tokens(j))]
    <3>1. IsFiniteSet(DOMAIN f) /\ \A j \in DOMAIN f : f[j] \in Nat /\ f[j] \in Int
        BY <2>1, <2>3
    <3> HIDE DEF f
    <3>2. Total(f) \in Nat
        BY <3>1, SumIsInt
    <3> QED BY <3>2 DEF f
  <2>5. PICK E : Tokens(i) \in Seq(E)
      BY <1>2, <2>0, <2>1, TokensAre DEF Documents
  <2>6. IsFiniteSet(terms)
      BY <2>5, RangeFinite, FS_Intersection
  <2>7. ASSUME NEW t \in terms PROVE Term(t) \in Int
    <3>1. df(t) \in Nat
        BY <2>1, FS_Subset, FS_CardinalityType
    <3>2. Occurrences(t, Tokens(i)) \in Nat /\ Len(Tokens(i)) \in Nat
        BY <2>5, OccurrencesTyped
    <3> HIDE DEF n, total, df
    <3>3. Idf(n, df(t)) \in Int
        BY <2>2, <3>1 DEF IdfTyped
    <3> QED BY <2>2, <2>4, <3>2, <3>3, TermTyped
  <2>8. Relevance(i) = Total([t \in terms |-> Term(t)])
      BY <1>2 DEF Relevance
  <2> DEFINE g == [t \in terms |-> Term(t)]
  <2>9. IsFiniteSet(DOMAIN g) /\ \A t \in DOMAIN g : g[t] \in Int
    <3> HIDE DEF Term, terms
    <3> QED BY <2>6, <2>7
  <2>10. Relevance(i) = Total(g)
      BY <2>8
  <2> HIDE DEF g
  <2> QED BY <2>9, <2>10, SumIsInt
<1> QED BY <1>1, <1>2

\* What votes count for, and how many there are.
LEMMA VotesTyped ==
    ASSUME IsStore(store), NEW i
    PROVE  /\ VotesToward(i) \in SUBSET DOMAIN store.edges /\ IsFiniteSet(VotesToward(i))
           /\ Cardinality(VotesToward(i)) \in Nat
           /\ \A e \in DOMAIN store.edges : VoteWeight(store.edges[e]) \in Int
                                            /\ VoteValue(store.edges[e]) \in Int
<1>1. VotesToward(i) \in SUBSET DOMAIN store.edges
    BY DEF VotesToward
<1>2. IsFiniteSet(VotesToward(i)) /\ Cardinality(VotesToward(i)) \in Nat
    BY <1>1, StoreHolds, FS_Subset, FS_CardinalityType
<1>3. ASSUME NEW e \in DOMAIN store.edges
      PROVE  VoteWeight(store.edges[e]) \in Int /\ VoteValue(store.edges[e]) \in Int
  <2> DEFINE edge == store.edges[e]
  <2>1. /\ edge.weight \in Seq(Int)
        /\ edge.value # <<>> /\ IsNumber(edge.value[1]) => Halves(edge.value[1]) \in Int
      BY StoreHolds
  <2> HIDE DEF edge
  <2>2. edge.weight # <<>> => edge.weight[1] \in Int
      BY <2>1
  <2>3. VoteWeight(edge) \in Int
      BY <2>1, <2>2 DEF VoteWeight
  <2>4. VoteValue(edge) \in Int
      BY <2>1 DEF VoteValue
  <2> QED BY <2>3, <2>4 DEF edge
<1> QED BY <1>1, <1>2, <1>3

\* A sum over votes.
LEMMA VoteSumTyped ==
    ASSUME IsStore(store), NEW i, NEW f, DOMAIN f = VotesToward(i),
           \A e \in VotesToward(i) : f[e] \in Int
    PROVE  Total(f) \in Int
BY VotesTyped, SumIsInt

\* The scores that votes give.
LEMMA VoteScoresTyped ==
    ASSUME IsStore(store), NEW i
    PROVE  ScoreOf(i) \in Int /\ NetVotes(i) \in Int /\ FeedbackScore(i) \in Int
<1> DEFINE votes == VotesToward(i)
           E == DOMAIN store.edges
<1>1. /\ votes \in SUBSET E /\ IsFiniteSet(votes) /\ Cardinality(votes) \in Nat
      /\ \A e \in E : VoteWeight(store.edges[e]) \in Int /\ VoteValue(store.edges[e]) \in Int
    BY VotesTyped
<1>2. NetVotes(i) \in Int
  <2> DEFINE f == [e \in votes |-> VoteValue(store.edges[e])]
  <2>1. DOMAIN f = votes /\ \A e \in votes : f[e] \in Int
      BY <1>1
  <2>2. NetVotes(i) = Total(f)
      BY DEF NetVotes, Sum
  <2> HIDE DEF f
  <2> QED BY <2>1, <2>2, VoteSumTyped
<1>3. ScoreOf(i) \in Int
  <2> DEFINE f == [e \in votes |-> VoteWeight(store.edges[e])]
  <2>1. DOMAIN f = votes /\ \A e \in votes : f[e] \in Int
      BY <1>1
  <2>2. ScoreOf(i) = (Unit * (Total(f) + 2)) \div (2 * (Cardinality(votes) + 2))
      BY DEF ScoreOf, Sum
  <2> HIDE DEF f
  <2>3. Total(f) \in Int
      BY <2>1, VoteSumTyped
  <2>4. Unit * (Total(f) + 2) \in Int /\ 2 * (Cardinality(votes) + 2) \in Nat
        /\ 2 * (Cardinality(votes) + 2) > 0
      BY <1>1, <2>3, UnitAssumption
  <2> QED BY <2>2, <2>4
<1>4. FeedbackScore(i) \in Int
  <2> DEFINE voted == {d \in E : store.edges[d].voted}
             ages == {store.edges[e].created : e \in voted}
             f == [e \in votes |-> VoteValue(store.edges[e])
                                   * (Unit \div (1 + Max(ages) - store.edges[e].created))]
  <2>1. ages \in SUBSET Int /\ IsFiniteSet(ages)
    <3> DEFINE c == [e \in E |-> store.edges[e].created]
    <3>1. IsFiniteSet(voted)
        BY StoreHolds, FS_Subset
    <3>2. ages = {c[e] : e \in voted}
        OBVIOUS
    <3>3. IsFiniteSet({c[e] : e \in voted})
      <4> HIDE DEF c, voted
      <4> QED BY <3>1, Shared, F!ImageFinite
    <3>4. ages \in SUBSET Int
        BY StoreHolds
    <3> HIDE DEF c, voted, ages
    <3> QED BY <3>2, <3>3, <3>4
  <2>2. ASSUME NEW e \in votes PROVE f[e] \in Int
    <3>1. e \in voted /\ store.edges[e].created \in ages
        BY DEF VotesToward
    <3>2. Max(ages) \in ages /\ \A y \in ages : Max(ages) >= y
      <4> HIDE DEF ages
      <4> QED BY <2>1, <3>1, Shared, F!MaxOf
    <3>3. Max(ages) \in Int /\ store.edges[e].created \in Int /\ Max(ages) >= store.edges[e].created
      <4> HIDE DEF ages
      <4> QED BY <2>1, <3>1, <3>2
    <3> HIDE DEF ages
    <3>4. 1 + Max(ages) - store.edges[e].created \in Nat /\ 1 + Max(ages) - store.edges[e].created > 0
        BY <3>3
    <3>5. Unit \div (1 + Max(ages) - store.edges[e].created) \in Int
        BY <3>4, UnitAssumption
    <3>6. VoteValue(store.edges[e]) \in Int
        BY <1>1
    <3> QED BY <3>5, <3>6
  <2>3. FeedbackScore(i) = Total(f)
      BY DEF FeedbackScore, Sum
  <2>4. DOMAIN f = votes
      OBVIOUS
  <2> HIDE DEF f
  <2> QED BY <2>2, <2>3, <2>4, VoteSumTyped
<1> QED BY <1>2, <1>3, <1>4

\* The scores of a record by itself.
LEMMA RecordScoresTyped ==
    ASSUME IsStore(store), NEW i \in DOMAIN Records
    PROVE  /\ Similarity(i) \in Int /\ StrengthOf(i) \in Int /\ ImportanceOf(i) \in Int
           /\ Clamp(ScoreOf(i)) \in Int
<1>1. Similarity(i) \in Int
  <2>1. Records[i].similarity \in Seq(Int)
      BY StoreHolds
  <2>2. Records[i].similarity # <<>> => Records[i].similarity[1] \in Int
      BY <2>1
  <2> QED BY <2>2 DEF Similarity, Option
<1>2. \A x \in Int : Clamp(x) \in Int
    BY UnitAssumption DEF Clamp
<1>3. ImportanceOf(i) \in Int
  <2>1. CASE "importance" \in DOMAIN Body(i) /\ IsNumber(Body(i).importance)
    <3>1. Halves(Body(i).importance) \in Int
        BY <2>1, StoreHolds
    <3>2. (Unit \div 2) * Halves(Body(i).importance) \in Int
        BY <3>1, UnitAssumption
    <3> QED BY <1>2, <2>1, <3>2 DEF ImportanceOf
  <2>2. CASE ~("importance" \in DOMAIN Body(i) /\ IsNumber(Body(i).importance))
      BY <2>2 DEF ImportanceOf
  <2> QED BY <2>1, <2>2
<1>4. StrengthOf(i) \in Int
  <2> DEFINE age == Max({0, store.clock - Records[i].created})
             S == {e \in DOMAIN store.edges : i \in {store.edges[e].from, store.edges[e].to}}
             n == Cardinality(S)
  <2>1. n \in Nat
    <3>1. IsFiniteSet(S)
        BY StoreHolds, FS_Subset
    <3> QED BY <3>1, FS_CardinalityType
  <2>2. age \in Nat
    <3>1. store.clock - Records[i].created \in Int
        BY StoreHolds DEF IsStore
    <3> DEFINE d == store.clock - Records[i].created
    <3>2. d \in Int
        BY <3>1
    <3> HIDE DEF d
    <3>3. Max({0, d}) = IF 0 >= d THEN 0 ELSE d
        BY <3>2, Shared, F!MaxOfTwo
    <3> QED BY <3>2, <3>3 DEF d
  <2>3. StrengthOf(i) = (Unit \div 2) \div (1 + age) + ((Unit \div 2) * n) \div (n + 1)
      BY DEF StrengthOf
  <2> HIDE DEF age, n
  <2>4. (Unit \div 2) \div (1 + age) \in Int
      BY <2>2, UnitAssumption
  <2>5. ((Unit \div 2) * n) \div (n + 1) \in Int
      BY <2>1, UnitAssumption
  <2> QED BY <2>3, <2>4, <2>5
<1> QED BY <1>1, <1>2, <1>3, <1>4, VoteScoresTyped

\* A rank by a score is a number.
LEMMA RankByTyped ==
    ASSUME IsStore(store), NEW score, NEW i
    PROVE  RankBy(score, i) \in Nat
BY MatchingTyped, FS_Subset, FS_CardinalityType DEF RankBy

\* So is the score of a matching record, in every mode.
LEMMA ModeScoreTyped ==
    ASSUME IdfTyped, Inputs, NEW i \in Matching
    PROVE  ModeScore(i) \in Int
<1>1. IsStore(store) /\ sel.weights \in Seq(Int) /\ Len(sel.weights) \in {0, 4}
    BY DEF Inputs, IsSelect
<1>2. i \in DOMAIN Records
    BY <1>1, MatchingTyped
<1>3. /\ Similarity(i) \in Int /\ StrengthOf(i) \in Int /\ ImportanceOf(i) \in Int
      /\ Clamp(ScoreOf(i)) \in Int
    BY <1>1, <1>2, RecordScoresTyped
<1>4. ScoreOf(i) \in Int /\ NetVotes(i) \in Int /\ FeedbackScore(i) \in Int
    BY <1>1, VoteScoresTyped
<1>5. Relevance(i) \in Int
    BY RelevanceTyped
<1>6. RankUnit \div (60 + RankBy([j \in Matching |-> Relevance(j)], i))
        + RankUnit \div (60 + RankBy([j \in Matching |-> Similarity(j)], i)) \in Int
  <2> DEFINE a == RankBy([j \in Matching |-> Relevance(j)], i)
             b == RankBy([j \in Matching |-> Similarity(j)], i)
  <2>1. a \in Nat /\ b \in Nat
      BY <1>1, RankByTyped
  <2> HIDE DEF a, b
  <2>2. RankUnit \div (60 + a) \in Int /\ RankUnit \div (60 + b) \in Int
      BY <2>1 DEF RankUnit
  <2> QED BY <2>2 DEF a, b
<1>7. sel.weights # <<>> => Weighted(sel.weights, i) \in Int
  <2> SUFFICES ASSUME sel.weights # <<>> PROVE Weighted(sel.weights, i) \in Int
      OBVIOUS
  <2> DEFINE w == sel.weights
  <2>1. Len(w) = 4
      BY <1>1
  <2>2. w[1] \in Int /\ w[2] \in Int /\ w[3] \in Int /\ w[4] \in Int
      BY <1>1, <2>1
  <2> HIDE DEF w
  <2>3. \A a, b \in Int : a * b \in Int
      OBVIOUS
  <2>4. /\ w[1] * Similarity(i) \in Int /\ w[2] * StrengthOf(i) \in Int
        /\ w[3] * ImportanceOf(i) \in Int /\ w[4] * Clamp(ScoreOf(i)) \in Int
      BY <1>3, <2>2, <2>3
  <2> QED BY <2>4 DEF Weighted, w
<1>8. 7 * Similarity(i) + 3 * Clamp(ScoreOf(i)) \in Int
    BY <1>3
<1> QED BY <1>3, <1>4, <1>5, <1>6, <1>7, <1>8 DEF ModeScore

(***************************************************************************)
(* Orders of the matching records.                                         *)
(***************************************************************************)

\* Comparing -1, 0 or 1 and breaking ties by number is a strict total order.
LEMMA OrderByComparing ==
    ASSUME NEW S \in SUBSET Nat, NEW c, NEW R,
           \A x, y \in S : c[<<x, y>>] \in {-1, 0, 1} /\ c[<<x, y>>] = -c[<<y, x>>],
           \A x, y, z \in S : c[<<x, y>>] # 1 /\ c[<<y, z>>] # 1 => c[<<x, z>>] # 1,
           \A x, y \in S : <<x, y>> \in R <=> c[<<x, y>>] = -1 \/ (c[<<x, y>>] = 0 /\ x < y)
    PROVE  F!StrictOrder(R, S)
<1>1. ASSUME NEW x \in S PROVE <<x, x>> \notin R
  <2>1. c[<<x, x>>] = 0
      OBVIOUS
  <2> QED BY <2>1
<1>2. ASSUME NEW x \in S, NEW y \in S, x # y PROVE <<x, y>> \in R \/ <<y, x>> \in R
  <2>1. /\ c[<<x, y>>] \in {-1, 0, 1} /\ c[<<x, y>>] = -c[<<y, x>>] /\ c[<<y, x>>] \in {-1, 0, 1}
      OBVIOUS
  <2>3. x \in Nat /\ y \in Nat
      OBVIOUS
  <2>2. /\ <<x, y>> \in R <=> c[<<x, y>>] = -1 \/ (c[<<x, y>>] = 0 /\ x < y)
        /\ <<y, x>> \in R <=> c[<<y, x>>] = -1 \/ (c[<<y, x>>] = 0 /\ y < x)
      OBVIOUS
  <2> QED BY <1>2, <2>1, <2>2, <2>3
<1>3. ASSUME NEW x \in S, NEW y \in S, NEW z \in S, <<x, y>> \in R, <<y, z>> \in R
      PROVE  <<x, z>> \in R
  <2>1. /\ c[<<x, y>>] = -1 \/ (c[<<x, y>>] = 0 /\ x < y)
        /\ c[<<y, z>>] = -1 \/ (c[<<y, z>>] = 0 /\ y < z)
        /\ <<x, z>> \in R <=> c[<<x, z>>] = -1 \/ (c[<<x, z>>] = 0 /\ x < z)
      BY <1>3
  <2>2. /\ c[<<x, y>>] \in {-1, 0, 1} /\ c[<<y, z>>] \in {-1, 0, 1} /\ c[<<x, z>>] \in {-1, 0, 1}
        /\ c[<<z, x>>] = -c[<<x, z>>] /\ c[<<y, x>>] = -c[<<x, y>>] /\ c[<<z, y>>] = -c[<<y, z>>]
      OBVIOUS
  <2>3. /\ c[<<x, y>>] # 1 /\ c[<<y, z>>] # 1 => c[<<x, z>>] # 1
        /\ c[<<y, z>>] # 1 /\ c[<<z, x>>] # 1 => c[<<y, x>>] # 1
        /\ c[<<z, x>>] # 1 /\ c[<<x, y>>] # 1 => c[<<z, y>>] # 1
      OBVIOUS
  <2>4. x \in Nat /\ y \in Nat /\ z \in Nat
      OBVIOUS
  <2> QED BY <2>1, <2>2, <2>3, <2>4
<1> QED BY <1>1, <1>2, <1>3 DEF F!StrictOrder

\* Comparing integers.
LEMMA CmpIntIs ==
    ASSUME NEW S, NEW f, \A x \in S : f[x] \in Int
    PROVE  /\ \A x, y \in S : CmpInt(f[x], f[y]) \in {-1, 0, 1} /\ CmpInt(f[x], f[y]) = -CmpInt(f[y], f[x])
           /\ \A x, y, z \in S : CmpInt(f[x], f[y]) # 1 /\ CmpInt(f[y], f[z]) # 1 => CmpInt(f[x], f[z]) # 1
<1>1. \A x, y \in S : CmpInt(f[x], f[y]) \in {-1, 0, 1} /\ CmpInt(f[x], f[y]) = -CmpInt(f[y], f[x])
    BY DEF CmpInt
<1>2. \A x, y, z \in S : CmpInt(f[x], f[y]) # 1 /\ CmpInt(f[y], f[z]) # 1 => CmpInt(f[x], f[z]) # 1
    BY DEF CmpInt
<1> QED BY <1>1, <1>2

\* No neighbours are the wrong way round.
InOrder(R, c, order, n) == \A r \in 2..n : <<c[order[r]], c[order[r - 1]]>> \notin R

\* Then the elements of the set are arranged by rank.
LEMMA ArrangedByRank ==
    ASSUME NEW S, IsFiniteSet(S), NEW R, F!StrictOrder(R, S),
           NEW n, n = Cardinality(S), NEW D, D = 1..n,
           NEW c \in Bijection(D, S), NEW order \in Bijection(D, D), InOrder(R, c, order, n)
    PROVE  \A r \in D : /\ order[r] \in D /\ c[order[r]] \in S
                        /\ F!Rank(R, S, c[order[r]]) = r - 1
<1> DEFINE k == [r \in D |-> c[order[r]]]
<1>1. n \in Nat /\ (\A r \in 2..n : r \in D /\ r - 1 \in D)
    BY FS_CardinalityType
<1>2. c \in F!Bijection(D, S) /\ order \in F!Bijection(D, D)
    BY Shared
<1>3. \A r \in 2..n : <<c[order[r]], c[order[r - 1]]>> \notin R
    BY DEF InOrder
<1>4. \A r \in D : k[r] = c[order[r]]
    OBVIOUS
<1>d. D = 1..n
    OBVIOUS
<1>5. k \in F!Bijection(D, S)
    BY <1>2, F!Rearranging
<1>6. order \in [D -> D] /\ k \in [D -> S]
    BY ZenonT(30), <1>2, <1>5, F!BijectionIs
<1> HIDE DEF k
<1>7. \A r \in 2..n : <<k[r], k[r - 1]>> \notin R
    BY <1>1, <1>3, <1>4
<1>8. n = F!Cardinality(S) /\ F!IsFiniteSet(S)
    BY Shared
<1>9. \A r \in D : F!Rank(R, S, k[r]) = r - 1
  <2>1. k \in F!Bijection(1 .. F!Cardinality(S), S)
      BY <1>5, <1>8, <1>d
  <2>2. \A r \in 2 .. F!Cardinality(S) : <<k[r], k[r - 1]>> \notin R
      BY <1>7, <1>8
  <2>3. \A r \in 1 .. F!Cardinality(S) : F!Rank(R, S, k[r]) = r - 1
      BY <1>8, <2>1, <2>2, F!SortedByRank
  <2> QED BY <1>8, <1>d, <2>3
<1> QED BY <1>4, <1>6, <1>9, <1>d

\* There is such an arrangement.
LEMMA ArrangementExists ==
    ASSUME NEW S, IsFiniteSet(S), NEW R, F!StrictOrder(R, S),
           NEW n, n = Cardinality(S), NEW D, D = 1..n, NEW c \in Bijection(D, S)
    PROVE  \E order \in Bijection(D, D) : InOrder(R, c, order, n)
<1> DEFINE k == F!Ranked(R, S)
<1>1. n \in Nat /\ n = F!Cardinality(S) /\ F!IsFiniteSet(S)
    BY FS_CardinalityType, Shared
<1>2. k \in F!Bijection(D, S) /\ \A r \in 2..n : <<k[r], k[r - 1]>> \notin R
  <2>1. /\ k \in F!Bijection(1 .. F!Cardinality(S), S)
        /\ \A r \in 2 .. F!Cardinality(S) : <<k[r], k[r - 1]>> \notin R
      BY <1>1, F!ByRank
  <2> HIDE DEF k
  <2> QED BY <1>1, <2>1
<1>3. c \in F!Bijection(D, S) /\ \A r \in 2..n : r \in D /\ r - 1 \in D
    BY <1>1, Shared
<1> HIDE DEF k
<1>4. PICK order \in F!Bijection(D, D) : order \in [D -> D] /\ \A r \in D : k[r] = c[order[r]]
  <2>1. c \in F!Bijection(D, S) /\ k \in F!Bijection(D, S)
      BY <1>2, <1>3
  <2>2. F!Reordered(k, c, D)
      BY <2>1, F!Rearranged
  <2> QED BY <2>2 DEF F!Reordered
<1>5. InOrder(R, c, order, n)
    BY <1>2, <1>3, <1>4 DEF InOrder
<1>6. order \in Bijection(D, D)
    BY <1>4, Shared
<1> QED BY <1>5, <1>6

(***************************************************************************)
(* The ranks of hybrid retrieval.                                          *)
(***************************************************************************)

\* The rank of a record in the list sorted by a score is the number of records
\* that are not behind it.
LEMMA RankInIsRankBy ==
    ASSUME IsStore(store), candidates = Ascending(Matching),
           NEW score, \A i \in Matching : score[i] \in Int
    PROVE  \A i \in Matching : RankIn(Ranked(score), i) = RankBy(score, i)
<1> DEFINE S == Matching
           n == Cardinality(S)
           D == 1..n
           c == candidates
           R == {p \in S \X S : score[p[1]] > score[p[2]]
                                \/ (score[p[1]] = score[p[2]] /\ p[1] < p[2])}
           A == Arrangements(c, LAMBDA i, j : score[i] > score[j] \/ (score[i] = score[j] /\ i < j))
           Above(i, j) == score[i] > score[j] \/ (score[i] = score[j] /\ i < j)
<1>1. S \in SUBSET Nat /\ IsFiniteSet(S) /\ n \in Nat
    BY MatchingTyped
<1>2. /\ c \in Bijection(D, S) /\ c \in [D -> S] /\ Len(c) = n /\ DOMAIN c = D
  <2>1. c \in Bijection(D, S) /\ c \in [D -> S] /\ Len(c) = n
      BY <1>1, AscendingIs
  <2> QED BY <2>1
<1>3. \A x, y \in S : <<x, y>> \in R <=> Above(x, y)
    OBVIOUS
<1>4. F!StrictOrder(R, S)
  <2> DEFINE cmp == [p \in S \X S |-> CmpInt(score[p[2]], score[p[1]])]
  <2>1. \A x, y \in S : cmp[<<x, y>>] = CmpInt(score[y], score[x])
      OBVIOUS
  <2>0. \A x \in S : score[x] \in Int
      OBVIOUS
  <2> HIDE DEF cmp, S, R
  <2>2. \A x, y \in S : cmp[<<x, y>>] \in {-1, 0, 1} /\ cmp[<<x, y>>] = -cmp[<<y, x>>]
    <3> TAKE x \in S, y \in S
    <3>1. cmp[<<x, y>>] = CmpInt(score[y], score[x]) /\ cmp[<<y, x>>] = CmpInt(score[x], score[y])
        BY <2>1
    <3>2. score[x] \in Int /\ score[y] \in Int
        BY <2>0
    <3> QED BY <3>1, <3>2 DEF CmpInt
  <2>3. \A x, y, z \in S : cmp[<<x, y>>] # 1 /\ cmp[<<y, z>>] # 1 => cmp[<<x, z>>] # 1
      BY <2>1 DEF CmpInt, S
  <2>4. \A x, y \in S : <<x, y>> \in R <=> cmp[<<x, y>>] = -1 \/ (cmp[<<x, y>>] = 0 /\ x < y)
    <3> TAKE x \in S, y \in S
    <3>1. cmp[<<x, y>>] = CmpInt(score[y], score[x])
        BY <2>1
    <3>2. score[x] \in Int /\ score[y] \in Int
        BY <2>0
    <3> QED BY <1>3, <3>1, <3>2 DEF CmpInt
  <2> QED BY <1>1, <2>2, <2>3, <2>4, OrderByComparing
<1> HIDE DEF R
<1>5. \A list : list \in A <=>
          \E order \in Bijection(D, D) :
              /\ list = [r \in D |-> c[order[r]]]
              /\ \A r \in 2..n : ~Above(list[r], list[r - 1])
  <2> TAKE list
  <2> HIDE DEF c
  <2>1. A = {sorted \in {[r \in D |-> c[order[r]]] : order \in Bijection(D, D)} :
                \A r \in 2..n : ~Above(sorted[r], sorted[r - 1])}
      BY <1>2 DEF Arrangements
  <2> HIDE DEF A, D, n, Above
  <2> QED BY <2>1
<1> HIDE DEF A, c
<1>6. \A order \in Bijection(D, D) : \A r \in 2..n :
          /\ r \in D /\ r - 1 \in D
          /\ c[order[r]] \in S /\ c[order[r - 1]] \in S
  <2>1. \A r \in 2..n : r \in D /\ r - 1 \in D
      BY <1>1
  <2> HIDE DEF D
  <2>2. \A order \in Bijection(D, D) : order \in [D -> D]
      BY Shared, F!BijectionIs
  <2> QED BY <1>2, <2>1, <2>2
<1>7. \E list : list \in A
  <2>1. PICK order \in Bijection(D, D) : InOrder(R, c, order, n)
    <3>1. n = Cardinality(S) /\ D = 1..n
        OBVIOUS
    <3> HIDE DEF S, n, D
    <3> QED BY <1>1, <1>2, <1>4, <3>1, ArrangementExists
  <2> DEFINE list == [r \in D |-> c[order[r]]]
  <2>2. \A r \in 2..n : ~Above(list[r], list[r - 1])
    <3> TAKE r \in 2..n
    <3>1. list[r] = c[order[r]] /\ list[r - 1] = c[order[r - 1]]
        BY <1>6
    <3>2. <<c[order[r]], c[order[r - 1]]>> \notin R /\ c[order[r]] \in S /\ c[order[r - 1]] \in S
        BY <1>6, <2>1 DEF InOrder
    <3> HIDE DEF Above, list
    <3> QED BY <1>3, <3>1, <3>2
  <2>3. list = [r \in D |-> c[order[r]]]
      OBVIOUS
  <2> HIDE DEF list, Above
  <2>4. list \in A
      BY <1>5, <2>2, <2>3
  <2> QED BY <2>4
<1>8. Ranked(score) \in A
  <2>1. Ranked(score) = CHOOSE list \in A : TRUE
      BY DEF Ranked, A, c
  <2> QED BY <1>7, <2>1
<1>9. PICK order \in Bijection(D, D) :
          /\ Ranked(score) = [r \in D |-> c[order[r]]]
          /\ \A r \in 2..n : ~Above(Ranked(score)[r], Ranked(score)[r - 1])
    BY <1>5, <1>8
<1> DEFINE list == Ranked(score)
<1> HIDE DEF list
<1>10. DOMAIN list = D /\ \A r \in D : list[r] = c[order[r]]
    BY <1>9 DEF list
<1>11. InOrder(R, c, order, n)
  <2> SUFFICES ASSUME NEW r \in 2..n PROVE <<c[order[r]], c[order[r - 1]]>> \notin R
      BY DEF InOrder
  <2>1. ~Above(list[r], list[r - 1])
      BY <1>9 DEF list
  <2>2. /\ r \in D /\ r - 1 \in D
        /\ c[order[r]] \in S /\ c[order[r - 1]] \in S
      BY <1>6
  <2>3. list[r] = c[order[r]] /\ list[r - 1] = c[order[r - 1]]
      BY <1>10, <2>2
  <2> HIDE DEF Above, D, n
  <2> QED BY <1>3, <2>1, <2>2, <2>3
<1>12. \A r \in D : list[r] \in S /\ F!Rank(R, S, list[r]) = r - 1
  <2>1. \A r \in D : c[order[r]] \in S /\ F!Rank(R, S, c[order[r]]) = r - 1
    <3>1. n = Cardinality(S) /\ D = 1..n /\ order \in Bijection(D, D)
        OBVIOUS
    <3> HIDE DEF S, n, D
    <3> QED BY <1>1, <1>2, <1>4, <1>11, <3>1, ArrangedByRank
  <2> QED BY <1>10, <2>1
<1>13. ASSUME NEW i \in S PROVE RankIn(list, i) = RankBy(score, i)
  <2> DEFINE below == {j \in S : <<j, i>> \in R}
             upto == {j \in S : score[j] > score[i] \/ (score[j] = score[i] /\ j <= i)}
  <2>1. IsFiniteSet(below) /\ i \notin below /\ Cardinality(below) \in Nat
    <3>1. IsFiniteSet(below)
        BY <1>1, FS_Subset
    <3>2. i \notin below
        BY <1>4 DEF F!StrictOrder
    <3> HIDE DEF below
    <3> QED BY <3>1, <3>2, FS_CardinalityType
  <2>2. upto = below \cup {i}
    <3>1. ASSUME NEW j \in S PROVE j \in upto <=> j \in below \/ j = i
      <4>1. score[j] \in Int /\ score[i] \in Int /\ j \in Int /\ i \in Int
          BY <1>1
      <4>2. j \in below <=> Above(j, i)
          BY <1>3
      <4> QED BY <4>1, <4>2
    <3> QED BY <3>1
  <2>3. RankBy(score, i) = Cardinality(below) + 1
    <3>1. RankBy(score, i) = Cardinality(upto)
        BY DEF RankBy
    <3> HIDE DEF below, upto
    <3> QED BY <2>1, <2>2, <3>1, FS_AddElement
  <2>4. Cardinality(below) = F!Rank(R, S, i)
      BY Shared DEF F!Rank, F!Below
  <2> HIDE DEF below, upto
  <2>5. \E r \in D : list[r] = i
    <3>1. F!Rank(R, S, i) < n /\ F!Rank(R, S, i) \in Nat
        BY <1>1, <1>4, Shared, F!RankTyped
    <3>2. F!Rank(R, S, i) + 1 \in D
        BY <1>1, <3>1
    <3>3. list[F!Rank(R, S, i) + 1] = i
      <4>1. F!Rank(R, S, list[F!Rank(R, S, i) + 1]) = F!Rank(R, S, i)
            /\ list[F!Rank(R, S, i) + 1] \in S
          BY <1>12, <3>1, <3>2
      <4> HIDE DEF D
      <4> QED BY <1>1, <1>4, <4>1, Shared, F!RankUnique
    <3> QED BY <3>2, <3>3
  <2>6. RankIn(list, i) \in D /\ list[RankIn(list, i)] = i
      BY <1>10, <2>5 DEF RankIn
  <2>7. F!Rank(R, S, i) = RankIn(list, i) - 1 /\ RankIn(list, i) \in Int
      BY <1>12, <2>6
  <2> QED BY <2>3, <2>4, <2>7
<1> QED BY <1>13 DEF list

\* The score computed is the one of the mode.
LEMMA ComputeIsMode ==
    ASSUME IdfTyped, Inputs, candidates = Ascending(Matching),
           sel.bm25 # <<>> => \A j \in Matching : Lexical(j) = Relevance(j),
           NEW i \in Matching
    PROVE  ComputeScore(i) = ModeScore(i)
<1>1. IsStore(store)
    BY DEF Inputs
<1>2. CASE Hybrid
  <2> DEFINE lexical == [j \in Matching |-> Relevance(j)]
             similarity == [j \in Matching |-> Similarity(j)]
  <2>1. \A j \in Matching : Lexical(j) = Relevance(j)
      BY <1>2 DEF Hybrid
  <2>2. Range(candidates) = Matching
    <3>1. Matching \in SUBSET Nat /\ IsFiniteSet(Matching)
        BY <1>1, MatchingTyped
    <3>2. /\ DOMAIN candidates = 1 .. Cardinality(Matching)
          /\ {candidates[r] : r \in 1 .. Cardinality(Matching)} = Matching
        BY <3>1, AscendingIs
    <3> QED BY <3>2 DEF Range
  <2>3. /\ [j \in Range(candidates) |-> Lexical(j)] = lexical
        /\ [j \in Range(candidates) |-> Similarity(j)] = similarity
      BY <2>1, <2>2
  <2>4. Fused(i) = RankUnit \div (60 + RankIn(Ranked(lexical), i))
                   + RankUnit \div (60 + RankIn(Ranked(similarity), i))
    <3> HIDE DEF lexical, similarity
    <3> QED BY <2>3 DEF Fused
  <2>5. \A j \in Matching : lexical[j] \in Int /\ similarity[j] \in Int
      BY <1>1, RelevanceTyped, RecordScoresTyped, MatchingTyped
  <2> HIDE DEF lexical, similarity
  <2>6. /\ RankIn(Ranked(lexical), i) = RankBy(lexical, i)
        /\ RankIn(Ranked(similarity), i) = RankBy(similarity, i)
      BY <1>1, <2>5, RankInIsRankBy
  <2>7. ComputeScore(i) = Fused(i)
      BY <1>2 DEF ComputeScore, Hybrid
  <2>8. ModeScore(i) = RankUnit \div (60 + RankBy(lexical, i)) + RankUnit \div (60 + RankBy(similarity, i))
      BY <1>2 DEF ModeScore, lexical, similarity
  <2> QED BY <2>4, <2>6, <2>7, <2>8
<1>3. CASE ~Hybrid /\ sel.bm25 # <<>>
    BY <1>3 DEF ComputeScore, ModeScore
<1>4. CASE sel.bm25 = <<>>
  <2>1. ~Hybrid
      BY <1>4 DEF Hybrid
  <2>2. CASE sel.order = "salience"
    <3>1. ComputeScore(i) = IF sel.weights # <<>> THEN Weighted(sel.weights, i)
                            ELSE IF sel.knn # <<>> THEN Weighted(<<7, 0, 0, 3>>, i)
                            ELSE Clamp(ScoreOf(i))
        BY <1>4, <2>1, <2>2 DEF ComputeScore
    <3>2. Weighted(<<7, 0, 0, 3>>, i) = 7 * Similarity(i) + 3 * Clamp(ScoreOf(i))
      <4>1. /\ Similarity(i) \in Int /\ StrengthOf(i) \in Int /\ ImportanceOf(i) \in Int
            /\ Clamp(ScoreOf(i)) \in Int
          BY <1>1, MatchingTyped, RecordScoresTyped
      <4> QED BY <4>1 DEF Weighted
    <3> QED BY <1>4, <2>1, <2>2, <3>1, <3>2 DEF ModeScore
  <2>3. CASE sel.order # "salience"
      BY <1>4, <2>1, <2>3 DEF ComputeScore, ModeScore
  <2> QED BY <2>2, <2>3
<1> QED BY <1>2, <1>3, <1>4

(***************************************************************************)
(* The order of values, level by level. The recursive functions of         *)
(* ValueOrder are functions of the depth; what they compute is shown by    *)
(* induction over it.                                                      *)
(***************************************************************************)

\* One more level of arrays and documents: of the values, of their comparison, and of
\* their equality.
Deeper(p, below, d) ==
    CASE p.what = "values" -> p.scalars \cup Containers(below)
      [] p.what = "cmp" -> [x \in Within(d) |-> [y \in Within(d) |-> CmpWith(below, x, y)]]
      [] p.what = "same" -> [x \in Within(d) |-> [y \in Within(d) |-> SameWith(below, x, y)]]

L == INSTANCE Folding WITH Op <- Deeper

\* Levels: the equations of the three recursive functions.
LEMMA ValuesOverIs ==
    ASSUME NEW scalars
    PROVE  /\ ValuesOver(scalars)[0] = scalars
           /\ \A d \in Nat : ValuesOver(scalars)[d + 1] = scalars \cup Containers(ValuesOver(scalars)[d])
<1> DEFINE p == [what |-> "values", scalars |-> scalars]
           V == ValuesOver(scalars)
<1>1. \A below, d : Deeper(p, below, d) = scalars \cup Containers(below)
    BY DEF Deeper
<1>2. PICK f : f = [d \in Nat |-> IF d = 0 THEN scalars ELSE Deeper(p, f[d - 1], d)]
  <2>1. PICK f : L!IsStepwise(p, scalars, f)
      BY L!StepwiseExists
  <2> QED BY <2>1 DEF L!IsStepwise
<1> HIDE DEF p
<1>3. f = [d \in Nat |-> IF d = 0 THEN scalars ELSE scalars \cup Containers(f[d - 1])]
  <2>1. \A d \in Nat : f[d] = IF d = 0 THEN scalars ELSE Deeper(p, f[d - 1], d)
      BY ONLY <1>2
  <2>2. \A d \in Nat : f[d] = IF d = 0 THEN scalars ELSE scalars \cup Containers(f[d - 1])
      BY <1>1, <2>1
  <2>3. f = [d \in Nat |-> f[d]]
    <3>1. DOMAIN f = Nat
        BY ONLY <1>2
    <3>2. f = [d \in DOMAIN f |-> f[d]]
        BY ONLY <1>2
    <3> QED BY <3>1, <3>2
  <2> QED BY <2>2, <2>3
<1>4. V = [d \in Nat |-> IF d = 0 THEN scalars ELSE scalars \cup Containers(V[d - 1])]
    BY <1>3 DEF ValuesOver
<1> HIDE DEF V
<1>5. V[0] = scalars
    BY <1>4
<1>6. ASSUME NEW d \in Nat PROVE V[d + 1] = scalars \cup Containers(V[d])
  <2>1. d + 1 \in Nat /\ d + 1 # 0 /\ (d + 1) - 1 = d
      OBVIOUS
  <2> QED BY <1>4, <2>1
<1> QED BY <1>5, <1>6 DEF V

\* What is compared with what is inside at a depth.
InsideCmp(d) == IF d = 0 THEN <<>> ELSE CmpNested[d - 1]
InsideSame(d) == IF d = 0 THEN <<>> ELSE SameNested[d - 1]

LEMMA CmpNestedIs ==
    ASSUME NEW d \in Nat, NEW x \in Within(d), NEW y \in Within(d)
    PROVE  CmpNested[d][x][y] = CmpWith(InsideCmp(d), x, y)
<1> DEFINE p == [what |-> "cmp"]
           Level(below, n) == [v \in Within(n) |-> [w \in Within(n) |-> CmpWith(below, v, w)]]
           base == Level(<<>>, 0)
           C == CmpNested
<1>1. \A below, n : Deeper(p, below, n) = Level(below, n)
    BY DEF Deeper
<1>2. PICK f : f = [n \in Nat |-> IF n = 0 THEN base ELSE Deeper(p, f[n - 1], n)]
  <2> HIDE DEF base
  <2>1. PICK f : L!IsStepwise(p, base, f)
      BY L!StepwiseExists
  <2> QED BY <2>1 DEF L!IsStepwise
<1> HIDE DEF p
<1>3. f = [n \in Nat |-> Level(IF n = 0 THEN <<>> ELSE f[n - 1], n)]
  <2>1. \A n \in Nat : f[n] = IF n = 0 THEN base ELSE Deeper(p, f[n - 1], n)
    <3> HIDE DEF base
    <3> QED BY ONLY <1>2
  <2>2. \A n \in Nat : f[n] = Level(IF n = 0 THEN <<>> ELSE f[n - 1], n)
    <3> TAKE n \in Nat
    <3>1. CASE n = 0
      <4>1. f[n] = Level(<<>>, 0)
          BY <2>1, <3>1
      <4> HIDE DEF Level
      <4> QED BY <3>1, <4>1
    <3>2. CASE n # 0
      <4> HIDE DEF Level
      <4> QED BY <1>1, <2>1, <3>2
    <3> QED BY <3>1, <3>2
  <2>3. f = [n \in Nat |-> f[n]]
    <3>1. DOMAIN f = Nat
        BY ONLY <1>2
    <3>2. f = [n \in DOMAIN f |-> f[n]]
        BY ONLY <1>2
    <3> QED BY <3>1, <3>2
  <2> HIDE DEF Level
  <2> QED BY <2>2, <2>3
<1>4. C = [n \in Nat |-> Level(IF n = 0 THEN <<>> ELSE C[n - 1], n)]
    BY <1>3 DEF CmpNested
<1> HIDE DEF C
<1>5. C[d] = Level(IF d = 0 THEN <<>> ELSE C[d - 1], d)
  <2> HIDE DEF Level
  <2> QED BY <1>4
<1>6. C[d][x][y] = CmpWith(IF d = 0 THEN <<>> ELSE C[d - 1], x, y)
    BY <1>5
<1> QED BY <1>6 DEF C, InsideCmp

LEMMA SameNestedIs ==
    ASSUME NEW d \in Nat, NEW x \in Within(d), NEW y \in Within(d)
    PROVE  SameNested[d][x][y] = SameWith(InsideSame(d), x, y)
<1> DEFINE p == [what |-> "same"]
           Level(below, n) == [v \in Within(n) |-> [w \in Within(n) |-> SameWith(below, v, w)]]
           base == Level(<<>>, 0)
           C == SameNested
<1>1. \A below, n : Deeper(p, below, n) = Level(below, n)
    BY DEF Deeper
<1>2. PICK f : f = [n \in Nat |-> IF n = 0 THEN base ELSE Deeper(p, f[n - 1], n)]
  <2> HIDE DEF base
  <2>1. PICK f : L!IsStepwise(p, base, f)
      BY L!StepwiseExists
  <2> QED BY <2>1 DEF L!IsStepwise
<1> HIDE DEF p
<1>3. f = [n \in Nat |-> Level(IF n = 0 THEN <<>> ELSE f[n - 1], n)]
  <2>1. \A n \in Nat : f[n] = IF n = 0 THEN base ELSE Deeper(p, f[n - 1], n)
    <3> HIDE DEF base
    <3> QED BY ONLY <1>2
  <2>2. \A n \in Nat : f[n] = Level(IF n = 0 THEN <<>> ELSE f[n - 1], n)
    <3> TAKE n \in Nat
    <3>1. CASE n = 0
      <4>1. f[n] = Level(<<>>, 0)
          BY <2>1, <3>1
      <4> HIDE DEF Level
      <4> QED BY <3>1, <4>1
    <3>2. CASE n # 0
      <4> HIDE DEF Level
      <4> QED BY <1>1, <2>1, <3>2
    <3> QED BY <3>1, <3>2
  <2>3. f = [n \in Nat |-> f[n]]
    <3>1. DOMAIN f = Nat
        BY ONLY <1>2
    <3>2. f = [n \in DOMAIN f |-> f[n]]
        BY ONLY <1>2
    <3> QED BY <3>1, <3>2
  <2> HIDE DEF Level
  <2> QED BY <2>2, <2>3
<1>4. C = [n \in Nat |-> Level(IF n = 0 THEN <<>> ELSE C[n - 1], n)]
    BY <1>3 DEF SameNested
<1> HIDE DEF C
<1>5. C[d] = Level(IF d = 0 THEN <<>> ELSE C[d - 1], d)
  <2> HIDE DEF Level
  <2> QED BY <1>4
<1>6. C[d][x][y] = SameWith(IF d = 0 THEN <<>> ELSE C[d - 1], x, y)
    BY <1>5
<1> QED BY <1>6 DEF C, InsideSame

(***************************************************************************)
(* Comparing element by element.                                           *)
(***************************************************************************)

\* A comparison of the elements of S that orders them, up to those it finds equal.
Ordered(cmp, S) ==
    /\ \A x, y \in S : cmp[x][y] \in {-1, 0, 1} /\ cmp[x][y] = -cmp[y][x]
    /\ \A x, y, z \in S : cmp[x][y] # 1 /\ cmp[y][z] # 1 => cmp[x][z] # 1

\* The smallest of some numbers.
LEMMA MinIs ==
    ASSUME NEW T, T \subseteq Nat, T # {}
    PROVE  Min(T) \in T /\ \A m \in T : Min(T) <= m
<1>1. \E n \in T : \A m \in T : n <= m
    BY L!LeastNat
<1> QED BY <1>1, Zenon DEF Min

\* Where two sequences first differ, if they do.
Differ(cmp, x, y) == {i \in DOMAIN x \cap DOMAIN y : cmp[x[i]][y[i]] # 0}

LEMMA FirstDecides ==
    ASSUME NEW S, NEW cmp, NEW x \in Seq(S), NEW y \in Seq(S)
    PROVE  \/ Differ(cmp, x, y) = {} /\ CmpArr(cmp, x, y) = CmpInt(Len(x), Len(y))
           \/ \E m \in Differ(cmp, x, y) :
                 /\ CmpArr(cmp, x, y) = cmp[x[m]][y[m]]
                 /\ \A k \in Differ(cmp, x, y) : m <= k
<1> DEFINE both == DOMAIN x \cap DOMAIN y
           c == [i \in both |-> cmp[x[i]][y[i]]]
           apart == {i \in DOMAIN c : c[i] # 0}
<1>1. apart = Differ(cmp, x, y)
    BY DEF Differ
<1>2. CmpArr(cmp, x, y) = IF apart = {} THEN CmpInt(Len(x), Len(y)) ELSE c[Min(apart)]
    BY DEF CmpArr, Lexicographic
<1>3. Differ(cmp, x, y) \subseteq Nat
    BY DEF Differ
<1>4. CASE Differ(cmp, x, y) = {}
    BY <1>1, <1>2, <1>4
<1>5. CASE Differ(cmp, x, y) # {}
  <2> DEFINE m == Min(Differ(cmp, x, y))
  <2>1. m \in Differ(cmp, x, y) /\ \A k \in Differ(cmp, x, y) : m <= k
      BY <1>3, <1>5, MinIs
  <2>2. m \in both
      BY <2>1 DEF Differ
  <2>3. CmpArr(cmp, x, y) = c[m]
      BY <1>1, <1>2, <1>5
  <2>4. c[m] = cmp[x[m]][y[m]]
    <3> HIDE DEF m, both
    <3> QED BY <2>2
  <2> HIDE DEF m, c
  <2> QED BY <2>1, <2>3, <2>4
<1> QED BY <1>4, <1>5

LEMMA CmpIntTotal ==
    ASSUME NEW m \in Int, NEW n \in Int
    PROVE  /\ CmpInt(m, n) \in {-1, 0, 1} /\ CmpInt(m, n) = -CmpInt(n, m)
           /\ CmpInt(m, n) # 1 <=> m <= n
           /\ CmpInt(m, n) = 0 <=> m = n
BY DEF CmpInt

\* That a sequence is not above another, without looking for the first difference.
AtMost(cmp, x, y) ==
    \A i \in 1 .. Len(x) :
        (\A k \in 1 .. (i - 1) : k <= Len(y) /\ cmp[x[k]][y[k]] = 0)
        => i <= Len(y) /\ cmp[x[i]][y[i]] # 1

LEMMA ArrIs ==
    ASSUME NEW S, NEW cmp, Ordered(cmp, S), NEW x \in Seq(S), NEW y \in Seq(S)
    PROVE  /\ CmpArr(cmp, x, y) \in {-1, 0, 1}
           /\ CmpArr(cmp, x, y) # 1 <=> AtMost(cmp, x, y)
<1>0. /\ Len(x) \in Nat /\ Len(y) \in Nat /\ DOMAIN x = 1 .. Len(x) /\ DOMAIN y = 1 .. Len(y)
      /\ \A i \in 1 .. Len(x) : x[i] \in S
      /\ \A i \in 1 .. Len(y) : y[i] \in S
    OBVIOUS
<1>1. CASE Differ(cmp, x, y) = {} /\ CmpArr(cmp, x, y) = CmpInt(Len(x), Len(y))
  <2>1. \A i \in 1 .. Len(x) : i <= Len(y) => cmp[x[i]][y[i]] = 0
    <3> TAKE i \in 1 .. Len(x)
    <3> HAVE i <= Len(y)
    <3>1. i \in DOMAIN x \cap DOMAIN y
        BY <1>0
    <3> QED BY <1>1, <3>1 DEF Differ
  <2>2. ASSUME Len(x) <= Len(y) PROVE AtMost(cmp, x, y)
      BY <1>0, <2>1, <2>2 DEF AtMost
  <2>3. ASSUME AtMost(cmp, x, y), ~ (Len(x) <= Len(y)) PROVE FALSE
    <3> DEFINE i == Len(y) + 1
    <3>1. i \in 1 .. Len(x) /\ ~ (i <= Len(y))
        BY <1>0, <2>3
    <3>2. \A k \in 1 .. (i - 1) : k <= Len(y) /\ cmp[x[k]][y[k]] = 0
        BY <1>0, <2>1, <2>3
    <3> HIDE DEF i
    <3> QED BY <2>3, <3>1, <3>2 DEF AtMost
  <2>4. /\ CmpInt(Len(x), Len(y)) \in {-1, 0, 1}
        /\ CmpInt(Len(x), Len(y)) # 1 <=> Len(x) <= Len(y)
      BY <1>0, CmpIntTotal
  <2>5. CmpArr(cmp, x, y) = CmpInt(Len(x), Len(y))
      BY <1>1
  <2> QED BY <2>2, <2>3, <2>4, <2>5
<1>2. ASSUME NEW m \in Differ(cmp, x, y), CmpArr(cmp, x, y) = cmp[x[m]][y[m]],
             \A k \in Differ(cmp, x, y) : m <= k
      PROVE  /\ CmpArr(cmp, x, y) \in {-1, 0, 1}
             /\ CmpArr(cmp, x, y) # 1 <=> AtMost(cmp, x, y)
  <2>1. /\ m \in 1 .. Len(x) /\ m \in 1 .. Len(y) /\ cmp[x[m]][y[m]] # 0
        /\ x[m] \in S /\ y[m] \in S
      BY <1>0 DEF Differ
  <2>2. cmp[x[m]][y[m]] \in {-1, 0, 1}
      BY <2>1 DEF Ordered
  <2>3. \A k \in 1 .. (m - 1) : k <= Len(y) /\ cmp[x[k]][y[k]] = 0
    <3> TAKE k \in 1 .. (m - 1)
    <3>1. k \in 1 .. Len(x) /\ k \in 1 .. Len(y) /\ ~ (m <= k)
        BY <1>0, <2>1
    <3>2. k \notin Differ(cmp, x, y)
        BY <1>2, <3>1
    <3> QED BY <1>0, <3>1, <3>2 DEF Differ
  <2>4. ASSUME AtMost(cmp, x, y) PROVE cmp[x[m]][y[m]] # 1
      BY <2>1, <2>3, <2>4 DEF AtMost
  <2>5. ASSUME cmp[x[m]][y[m]] # 1 PROVE AtMost(cmp, x, y)
    <3> SUFFICES ASSUME NEW i \in 1 .. Len(x),
                        \A k \in 1 .. (i - 1) : k <= Len(y) /\ cmp[x[k]][y[k]] = 0
                 PROVE  i <= Len(y) /\ cmp[x[i]][y[i]] # 1
        BY DEF AtMost
    <3>1. ~ (m < i)
      <4>1. m < i => m \in 1 .. (i - 1)
          BY <1>0, <2>1
      <4> QED BY <2>1, <4>1
    <3>2. i <= m /\ i \in Nat /\ m \in Nat
        BY <1>0, <2>1, <3>1
    <3>3. CASE i = m
        BY <2>1, <2>5, <3>3
    <3>4. CASE i # m
      <4>1. i \in 1 .. (m - 1)
          BY <1>0, <2>1, <3>2, <3>4
      <4> QED BY <2>3, <4>1
    <3> QED BY <3>3, <3>4
  <2> QED BY <1>2, <2>2, <2>4, <2>5
<1> QED BY <1>1, <1>2, FirstDecides

\* Turning the two around turns the result around.
LEMMA ArrMirrored ==
    ASSUME NEW S, NEW cmp, Ordered(cmp, S), NEW x \in Seq(S), NEW y \in Seq(S)
    PROVE  CmpArr(cmp, x, y) = -CmpArr(cmp, y, x)
<1>0. /\ Len(x) \in Nat /\ Len(y) \in Nat /\ DOMAIN x \cap DOMAIN y \subseteq Nat
      /\ \A i \in DOMAIN x \cap DOMAIN y : x[i] \in S /\ y[i] \in S
    OBVIOUS
<1>1. \A i \in DOMAIN x \cap DOMAIN y :
         cmp[x[i]][y[i]] \in {-1, 0, 1} /\ cmp[y[i]][x[i]] \in {-1, 0, 1} /\ cmp[x[i]][y[i]] = -cmp[y[i]][x[i]]
    BY <1>0 DEF Ordered
<1>2. Differ(cmp, x, y) = Differ(cmp, y, x) /\ Differ(cmp, x, y) \subseteq DOMAIN x \cap DOMAIN y
    BY <1>1 DEF Differ
<1>3. CASE Differ(cmp, x, y) = {}
  <2>1. CmpArr(cmp, x, y) = CmpInt(Len(x), Len(y))
      BY <1>3, FirstDecides
  <2>2. CmpArr(cmp, y, x) = CmpInt(Len(y), Len(x))
    <3>1. Differ(cmp, y, x) = {}
        BY <1>2, <1>3
    <3> QED BY <3>1, FirstDecides
  <2>3. CmpInt(Len(x), Len(y)) = -CmpInt(Len(y), Len(x))
      BY <1>0, CmpIntTotal
  <2> QED BY <2>1, <2>2, <2>3
<1>4. CASE Differ(cmp, x, y) # {}
  <2>1. PICK m \in Differ(cmp, x, y) :
           CmpArr(cmp, x, y) = cmp[x[m]][y[m]] /\ \A k \in Differ(cmp, x, y) : m <= k
      BY <1>4, FirstDecides
  <2>2. PICK n \in Differ(cmp, y, x) :
           CmpArr(cmp, y, x) = cmp[y[n]][x[n]] /\ \A k \in Differ(cmp, y, x) : n <= k
      BY <1>2, <1>4, FirstDecides
  <2>3. m <= n /\ n <= m /\ m \in Nat /\ n \in Nat
      BY <1>0, <1>2, <2>1, <2>2
  <2>4. m = n
      BY <2>3
  <2> QED BY <1>1, <1>2, <2>1, <2>2, <2>4
<1> QED BY <1>3, <1>4

\* What is at most what is at most a third.
LEMMA AtMostChains ==
    ASSUME NEW S, NEW cmp, Ordered(cmp, S), NEW x \in Seq(S), NEW y \in Seq(S), NEW z \in Seq(S),
           AtMost(cmp, x, y), AtMost(cmp, y, z)
    PROVE  AtMost(cmp, x, z)
<1>0. /\ Len(x) \in Nat /\ Len(y) \in Nat /\ Len(z) \in Nat
      /\ \A i \in 1 .. Len(x) : x[i] \in S
      /\ \A i \in 1 .. Len(y) : y[i] \in S
      /\ \A i \in 1 .. Len(z) : z[i] \in S
    OBVIOUS
<1>1. SUFFICES ASSUME NEW i \in 1 .. Len(x),
                      \A k \in 1 .. (i - 1) : k <= Len(z) /\ cmp[x[k]][z[k]] = 0
               PROVE  i <= Len(z) /\ cmp[x[i]][z[i]] # 1
    BY DEF AtMost
<1> DEFINE Alike(k) == k <= Len(y) /\ cmp[x[k]][y[k]] = 0 /\ cmp[y[k]][z[k]] = 0
           good == {n \in Nat : n < i => \A k \in 1..n : Alike(k)}
<1>2. ASSUME NEW n \in Nat, n < i, \A k \in 1..n : Alike(k)
      PROVE  /\ n + 1 \in 1 .. Len(x) /\ n + 1 \in 1 .. Len(y) /\ n + 1 \in 1 .. Len(z)
             /\ cmp[x[n + 1]][y[n + 1]] # 1 /\ cmp[y[n + 1]][z[n + 1]] # 1
  <2>1. n + 1 \in 1 .. Len(x) /\ (n + 1) - 1 = n
      BY <1>0, <1>2
  <2>2. n + 1 <= Len(y) /\ cmp[x[n + 1]][y[n + 1]] # 1
      BY <1>2, <2>1 DEF AtMost
  <2>3. n + 1 \in 1 .. Len(y)
      BY <1>0, <2>1, <2>2
  <2>4. \A k \in 1..n : k <= Len(z) /\ cmp[y[k]][z[k]] = 0
    <3>1. \A k \in 1..n : k \in 1 .. (i - 1)
        BY <1>2
    <3> QED BY <1>1, <1>2, <3>1
  <2>5. n + 1 <= Len(z) /\ cmp[y[n + 1]][z[n + 1]] # 1
    <3> HIDE DEF Alike
    <3> QED BY <2>1, <2>3, <2>4 DEF AtMost
  <2> QED BY <1>0, <2>1, <2>2, <2>3, <2>5
<1>3. ASSUME NEW n \in Nat, n \in good PROVE n + 1 \in good
  <2> SUFFICES ASSUME n + 1 < i PROVE Alike(n + 1)
    <3>1. \A k \in 1 .. (n + 1) : k \in 1..n \/ k = n + 1
        OBVIOUS
    <3>2. n + 1 < i => n < i
        OBVIOUS
    <3> HIDE DEF Alike
    <3> QED BY <1>3, <3>1, <3>2
  <2>1. n < i /\ n + 1 \in 1 .. (i - 1)
      BY <1>0
  <2>2. \A k \in 1..n : Alike(k)
    <3> HIDE DEF Alike
    <3> QED BY <1>3, <2>1
  <2>3. /\ n + 1 \in 1 .. Len(x) /\ n + 1 \in 1 .. Len(y) /\ n + 1 \in 1 .. Len(z)
        /\ cmp[x[n + 1]][y[n + 1]] # 1 /\ cmp[y[n + 1]][z[n + 1]] # 1
    <3> HIDE DEF Alike
    <3> QED BY <1>2, <2>1, <2>2
  <2>4. cmp[x[n + 1]][z[n + 1]] = 0
      BY <1>1, <2>1
  <2> DEFINE a == x[n + 1]
             b == y[n + 1]
             c == z[n + 1]
  <2>5. a \in S /\ b \in S /\ c \in S
      BY <1>0, <2>3
  <2>6. n + 1 <= Len(y)
      BY <1>0, <2>3
  <2>7. cmp[a][b] # 1 /\ cmp[b][c] # 1 /\ cmp[a][c] = 0
      BY <2>3, <2>4
  <2> HIDE DEF a, b, c
  <2>8. /\ cmp[a][b] \in {-1, 0, 1} /\ cmp[b][c] \in {-1, 0, 1} /\ cmp[a][c] \in {-1, 0, 1}
        /\ cmp[b][a] \in {-1, 0, 1} /\ cmp[c][b] \in {-1, 0, 1} /\ cmp[c][a] \in {-1, 0, 1}
        /\ cmp[a][b] = -cmp[b][a] /\ cmp[b][c] = -cmp[c][b] /\ cmp[a][c] = -cmp[c][a]
      BY <2>5 DEF Ordered
  <2>9. cmp[c][a] # 1
      BY <2>7, <2>8
  <2>10. cmp[b][a] # 1 /\ cmp[c][b] # 1
      BY <2>5, <2>7, <2>9 DEF Ordered
  <2>11. cmp[a][b] = 0 /\ cmp[b][c] = 0
      BY <2>7, <2>8, <2>10
  <2> QED BY <2>6, <2>11 DEF a, b, c
<1>4. \A n \in Nat : n \in good
  <2>1. 0 \in good
      OBVIOUS
  <2> HIDE DEF good
  <2> QED BY <1>3, <2>1, L!Induction
<1>5. i - 1 \in Nat /\ i - 1 < i /\ (i - 1) + 1 = i
    BY <1>0
<1>6. \A k \in 1 .. (i - 1) : Alike(k)
  <2>1. i - 1 \in good
    <3> HIDE DEF good
    <3> QED BY <1>4, <1>5
  <2> HIDE DEF Alike
  <2> QED BY <1>5, <2>1
<1>7. /\ i \in 1 .. Len(x) /\ i \in 1 .. Len(y) /\ i \in 1 .. Len(z)
      /\ cmp[x[i]][y[i]] # 1 /\ cmp[y[i]][z[i]] # 1
  <2> DEFINE n == i - 1
  <2>1. n \in Nat /\ n < i /\ n + 1 = i
      BY <1>5
  <2>2. \A k \in 1..n : Alike(k)
      BY <1>6
  <2> HIDE DEF n, Alike
  <2>3. /\ n + 1 \in 1 .. Len(x) /\ n + 1 \in 1 .. Len(y) /\ n + 1 \in 1 .. Len(z)
        /\ cmp[x[n + 1]][y[n + 1]] # 1 /\ cmp[y[n + 1]][z[n + 1]] # 1
      BY <1>2, <2>1, <2>2
  <2> QED BY <2>1, <2>3
<1>8. cmp[x[i]][z[i]] # 1
    BY <1>0, <1>7 DEF Ordered
<1> QED BY <1>0, <1>7, <1>8

\* So sequences of what is ordered are ordered.
LEMMA ArrOrdered ==
    ASSUME NEW S, NEW cmp, Ordered(cmp, S), NEW x \in Seq(S), NEW y \in Seq(S)
    PROVE  /\ CmpArr(cmp, x, y) \in {-1, 0, 1} /\ CmpArr(cmp, x, y) = -CmpArr(cmp, y, x)
           /\ \A z \in Seq(S) :
                 CmpArr(cmp, x, y) # 1 /\ CmpArr(cmp, y, z) # 1 => CmpArr(cmp, x, z) # 1
<1>1. ASSUME NEW z \in Seq(S), CmpArr(cmp, x, y) # 1, CmpArr(cmp, y, z) # 1
      PROVE  CmpArr(cmp, x, z) # 1
  <2>1. AtMost(cmp, x, y)
      BY <1>1, ArrIs
  <2>2. AtMost(cmp, y, z)
      BY <1>1, ArrIs
  <2>3. AtMost(cmp, x, z)
      BY <2>1, <2>2, AtMostChains
  <2> QED BY <2>3, ArrIs
<1>2. CmpArr(cmp, x, y) \in {-1, 0, 1} /\ CmpArr(cmp, x, y) = -CmpArr(cmp, y, x)
    BY ArrIs, ArrMirrored
<1> QED BY <1>1, <1>2

\* Pairs are compared by their keys, then by their values.
PairsCmp(cmp, V) ==
    [p \in Int \X V |-> [q \in Int \X V |->
        IF p[1] # q[1] THEN CmpInt(p[1], q[1]) ELSE cmp[p[2]][q[2]]]]

LEMMA PairsOrdered ==
    ASSUME NEW V, NEW cmp, Ordered(cmp, V)
    PROVE  Ordered(PairsCmp(cmp, V), Int \X V)
<1> DEFINE P == Int \X V
           c == PairsCmp(cmp, V)
<1>1. \A p, q \in P : /\ p[1] \in Int /\ p[2] \in V /\ q[1] \in Int /\ q[2] \in V
                      /\ c[p][q] = IF p[1] # q[1] THEN CmpInt(p[1], q[1]) ELSE cmp[p[2]][q[2]]
    BY DEF PairsCmp
<1> HIDE DEF P, c
<1>2. ASSUME NEW p \in P, NEW q \in P
      PROVE  c[p][q] \in {-1, 0, 1} /\ c[p][q] = -c[q][p]
  <2>1. CASE p[1] # q[1]
      BY <1>1, <2>1, CmpIntTotal
  <2>2. CASE p[1] = q[1]
    <3>1. c[p][q] = cmp[p[2]][q[2]] /\ c[q][p] = cmp[q[2]][p[2]] /\ p[2] \in V /\ q[2] \in V
        BY <1>1, <2>2
    <3> QED BY <3>1 DEF Ordered
  <2> QED BY <2>1, <2>2
<1>3. ASSUME NEW p \in P, NEW q \in P, c[p][q] # 1
      PROVE  p[1] <= q[1] /\ (p[1] = q[1] => cmp[p[2]][q[2]] # 1)
    BY <1>1, <1>3, CmpIntTotal
<1>4. ASSUME NEW p \in P, NEW q \in P, NEW r \in P, c[p][q] # 1, c[q][r] # 1
      PROVE  c[p][r] # 1
  <2>1. /\ p[1] <= q[1] /\ q[1] <= r[1] /\ p[1] \in Int /\ q[1] \in Int /\ r[1] \in Int
        /\ p[2] \in V /\ q[2] \in V /\ r[2] \in V
      BY <1>1, <1>3, <1>4
  <2>2. CASE p[1] # r[1]
    <3>1. p[1] <= r[1]
        BY <2>1
    <3>2. CmpInt(p[1], r[1]) # 1
        BY <2>1, <3>1, CmpIntTotal
    <3> QED BY <1>1, <2>2, <3>2
  <2>3. CASE p[1] = r[1]
    <3>1. p[1] = q[1] /\ q[1] = r[1]
        BY <2>1, <2>3
    <3>2. cmp[p[2]][q[2]] # 1 /\ cmp[q[2]][r[2]] # 1
        BY <1>3, <1>4, <3>1
    <3>3. cmp[p[2]][r[2]] # 1
        BY <2>1, <3>2 DEF Ordered
    <3> QED BY <1>1, <2>3, <3>3
  <2> QED BY <2>2, <2>3
<1> QED BY <1>2, <1>4 DEF Ordered, P, c

LEMMA DocIsArr ==
    ASSUME NEW V, NEW cmp, NEW x \in Seq(Int \X V), NEW y \in Seq(Int \X V)
    PROVE  CmpDoc(cmp, x, y) = CmpArr(PairsCmp(cmp, V), x, y)
<1> DEFINE D == DOMAIN x \cap DOMAIN y
           byPair(i) == PairsCmp(cmp, V)[x[i]][y[i]]
           byParts(i) == IF x[i][1] # y[i][1] THEN CmpInt(x[i][1], y[i][1]) ELSE cmp[x[i][2]][y[i][2]]
<1>1. \A i \in D : byPair(i) = byParts(i)
  <2> TAKE i \in D
  <2>1. x[i] \in Int \X V /\ y[i] \in Int \X V
      OBVIOUS
  <2> QED BY <2>1 DEF PairsCmp
<1>2. [i \in D |-> byPair(i)] = [i \in D |-> byParts(i)]
  <2> HIDE DEF D, byPair, byParts
  <2> QED BY <1>1
<1>3. CmpDoc(cmp, x, y) = Lexicographic([i \in D |-> byParts(i)], x, y)
    BY DEF CmpDoc
<1>4. CmpArr(PairsCmp(cmp, V), x, y) = Lexicographic([i \in D |-> byPair(i)], x, y)
    BY DEF CmpArr
<1> QED BY <1>2, <1>3, <1>4

\* The elements of a vector, by their bits.
BitsCmp == [a \in Bits |-> [b \in Bits |-> TotalCmp(a, b)]]

LEMMA BitsOrdered == Ordered(BitsCmp, Bits)
<1>0. \A a, b \in Bits : /\ a[1] \in Int /\ a[2] \in Int /\ b[1] \in Int /\ b[2] \in Int
                         /\ BitsCmp[a][b] = IF a[1] = b[1] THEN CmpInt(a[2], b[2]) ELSE CmpInt(a[1], b[1])
  <2>1. \A a \in Bits : a[1] \in Int /\ a[2] \in Int
      BY DEF Bits
  <2>2. \A a, b \in Bits : BitsCmp[a][b] = TotalCmp(a, b)
      BY DEF BitsCmp
  <2> QED BY <2>1, <2>2 DEF TotalCmp
<1>1. ASSUME NEW a \in Bits, NEW b \in Bits
      PROVE  BitsCmp[a][b] \in {-1, 0, 1} /\ BitsCmp[a][b] = -BitsCmp[b][a]
    BY <1>0, CmpIntTotal
<1>2. ASSUME NEW a \in Bits, NEW b \in Bits
      PROVE  BitsCmp[a][b] # 1 <=> a[1] < b[1] \/ (a[1] = b[1] /\ a[2] <= b[2])
    BY <1>0, CmpIntTotal
<1>3. ASSUME NEW a \in Bits, NEW b \in Bits, NEW c \in Bits, BitsCmp[a][b] # 1, BitsCmp[b][c] # 1
      PROVE  BitsCmp[a][c] # 1
    BY <1>0, <1>2, <1>3
<1> QED BY <1>1, <1>3 DEF Ordered

LEMMA VectorIsArr ==
    ASSUME NEW x \in Seq(Bits), NEW y \in Seq(Bits)
    PROVE  CmpVector(x, y) = CmpArr(BitsCmp, x, y)
<1> DEFINE D == DOMAIN x \cap DOMAIN y
           byBits(i) == BitsCmp[x[i]][y[i]]
           byTotal(i) == TotalCmp(x[i], y[i])
<1>1. \A i \in D : byBits(i) = byTotal(i)
  <2> TAKE i \in D
  <2>1. x[i] \in Bits /\ y[i] \in Bits
      OBVIOUS
  <2> QED BY <2>1 DEF BitsCmp
<1>2. [i \in D |-> byBits(i)] = [i \in D |-> byTotal(i)]
  <2> HIDE DEF D, byBits, byTotal
  <2> QED BY <1>1
<1>3. CmpVector(x, y) = Lexicographic([i \in D |-> byTotal(i)], x, y)
    BY DEF CmpVector
<1>4. CmpArr(BitsCmp, x, y) = Lexicographic([i \in D |-> byBits(i)], x, y)
    BY DEF CmpArr
<1> QED BY <1>2, <1>3, <1>4

(***************************************************************************)
(* Scalars.                                                                *)
(***************************************************************************)

\* Without the NaN that has its sign set, for which the order has a cycle.
Ordinary == {s \in Scalars : s[1] = "float" => s[2][1] # -NaN}

\* What scalars of one rank are compared by.
Key(s) == CASE s[1] = "int" -> 2 * s[2] [] s[1] = "float" -> s[2][1] [] OTHER -> s[2]

LEMMA Halved ==
    ASSUME NEW h \in Int
    PROVE  h \div 2 \in Int /\ h % 2 \in {0, 1} /\ h = 2 * (h \div 2) + (h % 2)
OBVIOUS

\* An integer compares with a float as its double does with the float's halves.
LEMMA IntFloatIs ==
    ASSUME NEW n \in -MaxInt - 1 .. MaxInt, NEW f \in Bits, f[1] # -NaN
    PROVE  CmpIntFloat(n, f) = CmpInt(2 * n, f[1])
<1> DEFINE h == f[1]
<1>1. h \in Int /\ MaxInt \in Nat /\ n \in Int /\ -MaxInt - 1 <= n /\ n <= MaxInt
    BY MaxIntAssumption DEF Bits, NaN, Infinity
<1>2. CmpIntFloat(n, f) =
         IF IsNaN(h) THEN -1
         ELSE IF h >= 2 * (MaxInt + 1) THEN -1
         ELSE IF h < 2 * (-MaxInt - 1) THEN 1
         ELSE IF h % 2 = 0 THEN CmpInt(n, h \div 2)
         ELSE IF n = h \div 2 THEN -1 ELSE CmpInt(n, h \div 2)
    BY DEF CmpIntFloat
<1>3. h # -NaN
    OBVIOUS
<1> HIDE DEF h
<1>4. h \div 2 \in Int /\ h % 2 \in {0, 1} /\ h = 2 * (h \div 2) + (h % 2)
    BY <1>1, Halved
<1>5. CASE IsNaN(h)
  <2>1. h = 8 * (MaxInt + 1) + 1
      BY <1>3, <1>5 DEF IsNaN, NaN, Infinity
  <2> QED BY <1>1, <1>2, <1>5, <2>1 DEF CmpInt, h
<1>6. CASE ~IsNaN(h)
  <2> DEFINE floor == h \div 2
             odd == h % 2
  <2>1. floor \in Int /\ odd \in {0, 1} /\ h = 2 * floor + odd
      BY <1>4
  <2>2. CmpIntFloat(n, f) =
           IF h >= 2 * (MaxInt + 1) THEN -1
           ELSE IF h < 2 * (-MaxInt - 1) THEN 1
           ELSE IF odd = 0 THEN CmpInt(n, floor)
           ELSE IF n = floor THEN -1 ELSE CmpInt(n, floor)
      BY <1>2, <1>6
  <2> HIDE DEF floor, odd
  <2> QED BY <1>1, <2>1, <2>2 DEF CmpInt, h
<1> QED BY <1>5, <1>6

\* Everything nested one level around what is in W.
Around(W) == Ordinary \cup Containers(W)

LEMMA Kinds ==
    ASSUME NEW W, NEW x \in Around(W)
    PROVE  /\ TypeRank(x) \in 0..7
           /\ TypeRank(x) = 4 => x[1] = "arr" /\ x[2] \in Seq(W)
           /\ TypeRank(x) = 5 => x[1] = "doc" /\ x[2] \in Seq(Int \X W)
           /\ TypeRank(x) = 6 => x[1] = "vector" /\ x[2] \in Seq(Bits)
           /\ TypeRank(x) \in {0, 1, 3, 7} =>
                 x[1] \notin {"arr", "doc", "vector", "int", "float"} /\ Key(x) = x[2] /\ x[2] \in Int
           /\ TypeRank(x) = 2 =>
                 \/ x[1] = "int" /\ x[2] \in -MaxInt - 1 .. MaxInt /\ Key(x) = 2 * x[2]
                 \/ x[1] = "float" /\ x[2] \in Bits /\ x[2][1] # -NaN /\ Key(x) = x[2][1]
<1>1. CASE x \in {"arr"} \X Seq(W)
    BY <1>1 DEF TypeRank
<1>2. CASE x \in {"doc"} \X Seq(Int \X W)
    BY <1>2 DEF TypeRank
<1>3. CASE x \in Ordinary
  <2>0. x \in Scalars /\ (x[1] = "float" => x[2][1] # -NaN)
      BY <1>3 DEF Ordinary
  <2>1. CASE x \in {"null"} \X {0}
      BY <2>1 DEF TypeRank, Key
  <2>2. CASE x \in {"bool"} \X {0, 1}
      BY <2>2 DEF TypeRank, Key
  <2>3. CASE x \in {"int"} \X (-MaxInt - 1 .. MaxInt)
      BY <2>3 DEF TypeRank, Key
  <2>4. CASE x \in {"float"} \X Bits
      BY <2>0, <2>4 DEF TypeRank, Key
  <2>5. CASE x \in {"str", "ref"} \X Int
      BY <2>5 DEF TypeRank, Key
  <2>6. CASE x \in {"vector"} \X Seq(Bits)
      BY <2>6 DEF TypeRank
  <2> QED BY <2>0, <2>1, <2>2, <2>3, <2>4, <2>5, <2>6 DEF Scalars
<1> QED BY <1>1, <1>2, <1>3 DEF Around, Containers

\* Scalars of one rank, but for vectors, compare as their keys do.
LEMMA ScalarsByKey ==
    ASSUME NEW W, NEW inside, NEW x \in Around(W), NEW y \in Around(W),
           TypeRank(x) = TypeRank(y), TypeRank(x) \notin {4, 5, 6}
    PROVE  Key(x) \in Int /\ Key(y) \in Int /\ CmpWith(inside, x, y) = CmpInt(Key(x), Key(y))
<1>0. TypeRank(x) \in 0..7 /\ TypeRank(y) \in 0..7
    BY Kinds
<1>1. ASSUME TypeRank(x) \in {0, 1, 3, 7}
      PROVE  Key(x) \in Int /\ Key(y) \in Int /\ CmpWith(inside, x, y) = CmpInt(Key(x), Key(y))
  <2>1. x[1] \notin {"arr", "doc", "vector", "int", "float"} /\ Key(x) = x[2] /\ x[2] \in Int
      BY <1>1, Kinds
  <2>2. TypeRank(y) \in {0, 1, 3, 7}
      BY <1>1
  <2>3. y[1] \notin {"arr", "doc", "vector", "int", "float"} /\ Key(y) = y[2] /\ y[2] \in Int
      BY <2>2, Kinds
  <2>4. CmpWith(inside, x, y) = CmpScalar(x, y)
      BY <2>1 DEF CmpWith
  <2>5. CmpScalar(x, y) = CmpInt(x[2], y[2])
      BY <2>1 DEF CmpScalar
  <2> QED BY <2>1, <2>3, <2>4, <2>5
<1>2. ASSUME TypeRank(x) = 2
      PROVE  Key(x) \in Int /\ Key(y) \in Int /\ CmpWith(inside, x, y) = CmpInt(Key(x), Key(y))
  <2>0. MaxInt \in Nat /\ \A f \in Bits : f[1] \in Int
      BY MaxIntAssumption DEF Bits, NaN, Infinity
  <2>1. \/ x[1] = "int" /\ x[2] \in -MaxInt - 1 .. MaxInt /\ Key(x) = 2 * x[2]
        \/ x[1] = "float" /\ x[2] \in Bits /\ x[2][1] # -NaN /\ Key(x) = x[2][1]
      BY <1>2, Kinds
  <2>2. TypeRank(y) = 2
      BY <1>2
  <2>3. \/ y[1] = "int" /\ y[2] \in -MaxInt - 1 .. MaxInt /\ Key(y) = 2 * y[2]
        \/ y[1] = "float" /\ y[2] \in Bits /\ y[2][1] # -NaN /\ Key(y) = y[2][1]
      BY <2>2, Kinds
  <2>4. CmpWith(inside, x, y) = CmpScalar(x, y)
      BY <2>1 DEF CmpWith
  <2>5. Key(x) \in Int /\ Key(y) \in Int
      BY <2>0, <2>1, <2>3
  <2>6. CASE x[1] = "int" /\ y[1] = "int"
    <3>1. CmpScalar(x, y) = CmpInt(x[2], y[2])
        BY <2>6 DEF CmpScalar
    <3>2. x[2] \in Int /\ y[2] \in Int /\ Key(x) = 2 * x[2] /\ Key(y) = 2 * y[2]
        BY <2>0, <2>1, <2>3, <2>6
    <3> QED BY <2>4, <3>1, <3>2 DEF CmpInt
  <2>7. CASE x[1] = "int" /\ y[1] = "float"
    <3>1. CmpScalar(x, y) = CmpIntFloat(x[2], y[2])
        BY <2>7 DEF CmpScalar
    <3>2. x[2] \in -MaxInt - 1 .. MaxInt /\ Key(x) = 2 * x[2] /\ y[2] \in Bits /\ y[2][1] # -NaN /\ Key(y) = y[2][1]
        BY <2>1, <2>3, <2>7
    <3>3. CmpIntFloat(x[2], y[2]) = CmpInt(2 * x[2], y[2][1])
        BY <3>2, IntFloatIs
    <3> QED BY <2>4, <2>5, <3>1, <3>2, <3>3
  <2>8. CASE x[1] = "float" /\ y[1] = "int"
    <3>1. CmpScalar(x, y) = -CmpIntFloat(y[2], x[2])
        BY <2>8 DEF CmpScalar
    <3>2. y[2] \in -MaxInt - 1 .. MaxInt /\ Key(y) = 2 * y[2] /\ x[2] \in Bits /\ x[2][1] # -NaN /\ Key(x) = x[2][1]
        BY <2>1, <2>3, <2>8
    <3>3. CmpIntFloat(y[2], x[2]) = CmpInt(2 * y[2], x[2][1])
        BY <3>2, IntFloatIs
    <3>4. CmpInt(Key(x), Key(y)) = -CmpInt(Key(y), Key(x))
        BY <2>5, CmpIntTotal
    <3> QED BY <2>4, <2>5, <3>1, <3>2, <3>3, <3>4
  <2>9. CASE x[1] = "float" /\ y[1] = "float"
    <3>1. CmpScalar(x, y) = CmpFloat(x[2], y[2])
        BY <2>9 DEF CmpScalar
    <3>2. Key(x) = x[2][1] /\ Key(y) = y[2][1]
        BY <2>1, <2>3, <2>9
    <3> QED BY <2>4, <2>5, <3>1, <3>2 DEF CmpFloat, CmpInt
  <2> QED BY <2>1, <2>3, <2>5, <2>6, <2>7, <2>8, <2>9
<1>3. TypeRank(x) \in {0, 1, 3, 7} \/ TypeRank(x) = 2
    BY <1>0
<1> QED BY <1>1, <1>2, <1>3

(***************************************************************************)
(* Values.                                                                 *)
(***************************************************************************)

\* One level more of an order is an order, read off CmpWith.
LEMMA WithMirrored ==
    ASSUME NEW W, NEW inside, Ordered(inside, W), NEW x \in Around(W), NEW y \in Around(W)
    PROVE  /\ CmpWith(inside, x, y) \in {-1, 0, 1}
           /\ CmpWith(inside, x, y) = -CmpWith(inside, y, x)
<1>0. TypeRank(x) \in 0..7 /\ TypeRank(y) \in 0..7
    BY Kinds
<1>1. CASE TypeRank(x) # TypeRank(y)
  <2>1. CmpWith(inside, x, y) = CmpInt(TypeRank(x), TypeRank(y))
      BY <1>1 DEF CmpWith
  <2>2. CmpWith(inside, y, x) = CmpInt(TypeRank(y), TypeRank(x))
      BY <1>1 DEF CmpWith
  <2> QED BY <1>0, <2>1, <2>2, CmpIntTotal
<1>2. CASE TypeRank(x) = TypeRank(y) /\ TypeRank(x) = 4
  <2>1. x[1] = "arr" /\ x[2] \in Seq(W) /\ y[1] = "arr" /\ y[2] \in Seq(W)
      BY <1>2, Kinds
  <2>2. CmpWith(inside, x, y) = CmpArr(inside, x[2], y[2]) /\ CmpWith(inside, y, x) = CmpArr(inside, y[2], x[2])
      BY <1>2, <2>1 DEF CmpWith
  <2> QED BY <2>1, <2>2, ArrOrdered
<1>3. CASE TypeRank(x) = TypeRank(y) /\ TypeRank(x) = 5
  <2>1. x[1] = "doc" /\ x[2] \in Seq(Int \X W) /\ y[1] = "doc" /\ y[2] \in Seq(Int \X W)
      BY <1>3, Kinds
  <2>2. CmpWith(inside, x, y) = CmpDoc(inside, x[2], y[2]) /\ CmpWith(inside, y, x) = CmpDoc(inside, y[2], x[2])
      BY <1>3, <2>1 DEF CmpWith
  <2>3. /\ CmpDoc(inside, x[2], y[2]) = CmpArr(PairsCmp(inside, W), x[2], y[2])
        /\ CmpDoc(inside, y[2], x[2]) = CmpArr(PairsCmp(inside, W), y[2], x[2])
      BY <2>1, DocIsArr
  <2>4. Ordered(PairsCmp(inside, W), Int \X W)
      BY PairsOrdered
  <2> QED BY <2>1, <2>2, <2>3, <2>4, ArrOrdered
<1>4. CASE TypeRank(x) = TypeRank(y) /\ TypeRank(x) = 6
  <2>1. x[1] = "vector" /\ x[2] \in Seq(Bits) /\ y[1] = "vector" /\ y[2] \in Seq(Bits)
      BY <1>4, Kinds
  <2>2. CmpWith(inside, x, y) = CmpVector(x[2], y[2]) /\ CmpWith(inside, y, x) = CmpVector(y[2], x[2])
      BY <1>4, <2>1 DEF CmpWith
  <2>3. CmpVector(x[2], y[2]) = CmpArr(BitsCmp, x[2], y[2]) /\ CmpVector(y[2], x[2]) = CmpArr(BitsCmp, y[2], x[2])
      BY <2>1, VectorIsArr
  <2> QED BY <2>1, <2>2, <2>3, BitsOrdered, ArrOrdered
<1>5. CASE TypeRank(x) = TypeRank(y) /\ TypeRank(x) \notin {4, 5, 6}
  <2>1. Key(x) \in Int /\ Key(y) \in Int /\ CmpWith(inside, x, y) = CmpInt(Key(x), Key(y))
      BY <1>5, ScalarsByKey
  <2>2. CmpWith(inside, y, x) = CmpInt(Key(y), Key(x))
      BY <1>5, ScalarsByKey
  <2> QED BY <2>1, <2>2, CmpIntTotal
<1> QED BY <1>1, <1>2, <1>3, <1>4, <1>5

LEMMA WithChains ==
    ASSUME NEW W, NEW inside, Ordered(inside, W),
           NEW x \in Around(W), NEW y \in Around(W), NEW z \in Around(W),
           CmpWith(inside, x, y) # 1, CmpWith(inside, y, z) # 1
    PROVE  CmpWith(inside, x, z) # 1
<1>0. TypeRank(x) \in 0..7 /\ TypeRank(y) \in 0..7 /\ TypeRank(z) \in 0..7
    BY Kinds
<1>1. \A v, w \in Around(W) : TypeRank(v) # TypeRank(w) => CmpWith(inside, v, w) = CmpInt(TypeRank(v), TypeRank(w))
    BY DEF CmpWith
<1>2. TypeRank(x) <= TypeRank(y)
    BY <1>0, <1>1, CmpIntTotal
<1>3. TypeRank(y) <= TypeRank(z)
    BY <1>0, <1>1, CmpIntTotal
<1>4. CASE TypeRank(x) # TypeRank(z)
  <2>1. TypeRank(x) <= TypeRank(z)
      BY <1>0, <1>2, <1>3
  <2> QED BY <1>0, <1>1, <1>4, <2>1, CmpIntTotal
<1>5. CASE TypeRank(x) = TypeRank(z)
  <2>0. TypeRank(x) = TypeRank(y) /\ TypeRank(y) = TypeRank(z)
      BY <1>0, <1>2, <1>3, <1>5
  <2>1. CASE TypeRank(x) = 4
    <3>0. TypeRank(x) = 4 /\ TypeRank(y) = 4 /\ TypeRank(z) = 4
        BY <2>0, <2>1
    <3>1. \A v \in {x, y, z} : v[1] = "arr" /\ v[2] \in Seq(W) /\ TypeRank(v) = 4
      <4>1. \A v \in Around(W) : TypeRank(v) = 4 => v[1] = "arr" /\ v[2] \in Seq(W)
          BY Kinds
      <4> QED BY <3>0, <4>1
    <3>2. \A v, w \in {x, y, z} : CmpWith(inside, v, w) = CmpArr(inside, v[2], w[2])
        BY <3>1 DEF CmpWith
    <3>3. CmpArr(inside, x[2], y[2]) # 1 /\ CmpArr(inside, y[2], z[2]) # 1
        BY <3>2
    <3>4. CmpArr(inside, x[2], z[2]) # 1
        BY <3>1, <3>3, ArrOrdered
    <3> QED BY <3>2, <3>4
  <2>2. CASE TypeRank(x) = 5
    <3> DEFINE c == PairsCmp(inside, W)
    <3>0. TypeRank(x) = 5 /\ TypeRank(y) = 5 /\ TypeRank(z) = 5
        BY <2>0, <2>2
    <3>1. \A v \in {x, y, z} : v[1] = "doc" /\ v[2] \in Seq(Int \X W) /\ TypeRank(v) = 5
        BY <3>0, Kinds
    <3>2. \A v, w \in {x, y, z} : CmpWith(inside, v, w) = CmpDoc(inside, v[2], w[2])
        BY <3>1 DEF CmpWith
    <3>3. \A v, w \in {x, y, z} : CmpWith(inside, v, w) = CmpArr(c, v[2], w[2])
      <4>1. \A a, b \in Seq(Int \X W) : CmpDoc(inside, a, b) = CmpArr(c, a, b)
          BY DocIsArr
      <4> HIDE DEF c
      <4> QED BY <3>1, <3>2, <4>1
    <3>4. Ordered(c, Int \X W)
        BY PairsOrdered
    <3>5. CmpArr(c, x[2], y[2]) # 1 /\ CmpArr(c, y[2], z[2]) # 1
        BY <3>3
    <3> HIDE DEF c
    <3>6. CmpArr(c, x[2], z[2]) # 1
        BY <3>1, <3>4, <3>5, ArrOrdered
    <3> QED BY <3>3, <3>6
  <2>3. CASE TypeRank(x) = 6
    <3>0. TypeRank(x) = 6 /\ TypeRank(y) = 6 /\ TypeRank(z) = 6
        BY <2>0, <2>3
    <3>1. \A v \in {x, y, z} : v[1] = "vector" /\ v[2] \in Seq(Bits) /\ TypeRank(v) = 6
        BY <3>0, Kinds
    <3>2. \A v, w \in {x, y, z} : CmpWith(inside, v, w) = CmpVector(v[2], w[2])
        BY <3>1 DEF CmpWith
    <3>3. \A v, w \in {x, y, z} : CmpWith(inside, v, w) = CmpArr(BitsCmp, v[2], w[2])
      <4>1. \A a, b \in Seq(Bits) : CmpVector(a, b) = CmpArr(BitsCmp, a, b)
          BY VectorIsArr
      <4> QED BY <3>1, <3>2, <4>1
    <3>4. CmpArr(BitsCmp, x[2], y[2]) # 1 /\ CmpArr(BitsCmp, y[2], z[2]) # 1
        BY <3>3
    <3>5. CmpArr(BitsCmp, x[2], z[2]) # 1
        BY <3>1, <3>4, BitsOrdered, ArrOrdered
    <3> QED BY <3>3, <3>5
  <2>4. CASE TypeRank(x) \notin {4, 5, 6}
    <3>1. Key(x) \in Int /\ Key(y) \in Int /\ CmpWith(inside, x, y) = CmpInt(Key(x), Key(y))
        BY <2>0, <2>4, ScalarsByKey
    <3>2. Key(z) \in Int /\ CmpWith(inside, y, z) = CmpInt(Key(y), Key(z))
        BY <2>0, <2>4, ScalarsByKey
    <3>3. CmpWith(inside, x, z) = CmpInt(Key(x), Key(z))
        BY <2>0, <2>4, ScalarsByKey
    <3>4. Key(x) <= Key(y) /\ Key(y) <= Key(z)
        BY <3>1, <3>2, CmpIntTotal
    <3> QED BY <3>1, <3>2, <3>3, <3>4, CmpIntTotal
  <2> QED BY <2>1, <2>2, <2>3, <2>4
<1> QED BY <1>4, <1>5

\* What is nested d deep.
LEMMA ValuesGrow ==
    ASSUME NEW small, NEW large, small \subseteq large, NEW d \in Nat
    PROVE  ValuesOver(small)[d] \subseteq ValuesOver(large)[d]
<1> DEFINE good == {n \in Nat : ValuesOver(small)[n] \subseteq ValuesOver(large)[n]}
<1>1. 0 \in good
    BY ValuesOverIs
<1>2. ASSUME NEW n \in Nat, n \in good PROVE n + 1 \in good
  <2> DEFINE S == ValuesOver(small)[n]
             T == ValuesOver(large)[n]
  <2>1. S \subseteq T
      BY <1>2
  <2>2. /\ ValuesOver(small)[n + 1] = small \cup Containers(S)
        /\ ValuesOver(large)[n + 1] = large \cup Containers(T)
      BY ValuesOverIs
  <2> HIDE DEF S, T
  <2>3. Containers(S) \subseteq Containers(T)
    <3>1. Seq(S) \subseteq Seq(T)
        BY <2>1
    <3>2. Seq(Int \X S) \subseteq Seq(Int \X T)
      <4>1. Int \X S \subseteq Int \X T
          BY <2>1
      <4> DEFINE A == Int \X S
                 B == Int \X T
      <4> HIDE DEF A, B
      <4>2. A \subseteq B => Seq(A) \subseteq Seq(B)
          OBVIOUS
      <4> QED BY <4>1, <4>2 DEF A, B
    <3> QED BY <3>1, <3>2 DEF Containers
  <2>4. ValuesOver(small)[n + 1] \subseteq ValuesOver(large)[n + 1]
      BY <2>2, <2>3
  <2> QED BY <2>4
<1> HIDE DEF good
<1>3. d \in good
    BY <1>1, <1>2, L!Induction
<1> QED BY <1>3 DEF good

\* The order at every depth is an order of the values without such a NaN.
LEMMA NestedOrdered ==
    ASSUME NEW depth \in Nat
    PROVE  Ordered(CmpNested[depth], ValuesOver(Ordinary)[depth])
<1> DEFINE V(d) == ValuesOver(Ordinary)[d]
           good == {d \in Nat : Ordered(CmpNested[d], V(d))}
<1>1. ASSUME NEW d \in Nat, NEW W, Ordered(InsideCmp(d), W), V(d) \subseteq Around(W)
      PROVE  Ordered(CmpNested[d], V(d))
  <2>0. V(d) \subseteq Within(d)
    <3>1. Ordinary \subseteq Scalars
        BY DEF Ordinary
    <3> QED BY <3>1, ValuesGrow DEF Within
  <2>1. \A x, y \in V(d) : /\ CmpNested[d][x][y] = CmpWith(InsideCmp(d), x, y)
                           /\ x \in Around(W) /\ y \in Around(W)
    <3> HIDE DEF V
    <3>1. \A x \in V(d) : x \in Within(d) /\ x \in Around(W)
        BY <1>1, <2>0
    <3> QED BY <3>1, CmpNestedIs
  <2> HIDE DEF V
  <2>2. ASSUME NEW x \in V(d), NEW y \in V(d)
        PROVE  CmpNested[d][x][y] \in {-1, 0, 1} /\ CmpNested[d][x][y] = -CmpNested[d][y][x]
      BY <1>1, <2>1, WithMirrored
  <2>3. ASSUME NEW x \in V(d), NEW y \in V(d), NEW z \in V(d),
               CmpNested[d][x][y] # 1, CmpNested[d][y][z] # 1
        PROVE  CmpNested[d][x][z] # 1
    <3>1. CmpWith(InsideCmp(d), x, y) # 1 /\ CmpWith(InsideCmp(d), y, z) # 1
        BY <2>1, <2>3
    <3>2. CmpWith(InsideCmp(d), x, z) # 1
        BY <1>1, <2>1, <3>1, WithChains
    <3> QED BY <2>1, <3>2
  <2> QED BY <2>2, <2>3 DEF Ordered
<1>2. 0 \in good
  <2>1. V(0) \subseteq Around({})
      BY ValuesOverIs DEF Around
  <2>2. Ordered(InsideCmp(0), {})
      BY DEF Ordered
  <2> HIDE DEF V
  <2>3. Ordered(CmpNested[0], V(0))
      BY <1>1, <2>1, <2>2
  <2> QED BY <2>3
<1>3. ASSUME NEW d \in Nat, d \in good PROVE d + 1 \in good
  <2>1. V(d + 1) \subseteq Around(V(d))
      BY ValuesOverIs DEF Around
  <2>2. d + 1 \in Nat /\ d + 1 # 0 /\ (d + 1) - 1 = d
      OBVIOUS
  <2>3. Ordered(InsideCmp(d + 1), V(d))
    <3> HIDE DEF V
    <3>1. InsideCmp(d + 1) = CmpNested[d]
        BY <2>2 DEF InsideCmp
    <3> QED BY <1>3, <3>1
  <2> HIDE DEF V
  <2>4. Ordered(CmpNested[d + 1], V(d + 1))
      BY <1>1, <2>1, <2>2, <2>3
  <2> QED BY <2>2, <2>4
<1> HIDE DEF good
<1>4. depth \in good
    BY <1>2, <1>3, L!Induction
<1> QED BY <1>4 DEF good

\* And without a zero that has its sign set in a vector, where it is equal to the other
\* zero and below it.
Plain == {s \in Ordinary : s[1] = "vector" => s[2] \in Seq(Bits \ {<<0, -1>>})}

\* Sequences that are alike element by element.
LEMMA AlikeIsEqual ==
    ASSUME NEW S, NEW cmp, NEW x \in Seq(S), NEW y \in Seq(S), Len(x) = Len(y),
           \A i \in DOMAIN x : cmp[x[i]][y[i]] = 0
    PROVE  CmpArr(cmp, x, y) = 0
<1>1. Differ(cmp, x, y) = {}
    BY DEF Differ
<1>2. Len(x) \in Nat /\ Len(y) \in Nat
    OBVIOUS
<1>3. CmpArr(cmp, x, y) = CmpInt(Len(x), Len(y))
    BY <1>1, FirstDecides
<1>4. CmpInt(Len(x), Len(y)) = 0
    BY <1>2, CmpIntTotal
<1> QED BY <1>3, <1>4

\* Of values that are equal neither is above the other.
LEMMA SameIsEqual ==
    ASSUME NEW W, NEW same, NEW cmp, \A v, w \in W : same[v][w] => cmp[v][w] = 0,
           NEW x \in Plain \cup Containers(W), NEW y \in Plain \cup Containers(W), SameWith(same, x, y)
    PROVE  CmpWith(cmp, x, y) = 0
<1>0. /\ x \in Around(W) /\ y \in Around(W) /\ x[1] = y[1]
      /\ TypeRank(x) = TypeRank(y) /\ TypeRank(x) \in 0..7
  <2>1. Plain \subseteq Ordinary
      BY DEF Plain
  <2>2. x \in Around(W) /\ y \in Around(W)
      BY <2>1 DEF Around
  <2>3. x[1] = y[1]
      BY DEF SameWith
  <2> QED BY <2>2, <2>3, Kinds DEF TypeRank
<1>1. CASE TypeRank(x) = 4
  <2>1. x[1] = "arr" /\ x[2] \in Seq(W) /\ y[2] \in Seq(W)
      BY <1>0, <1>1, Kinds
  <2>2. Len(x[2]) = Len(y[2]) /\ \A i \in DOMAIN x[2] : same[x[2][i]][y[2][i]]
      BY <2>1 DEF SameWith
  <2>3. \A i \in DOMAIN x[2] : cmp[x[2][i]][y[2][i]] = 0
    <3>1. \A i \in DOMAIN x[2] : x[2][i] \in W /\ y[2][i] \in W
        BY <2>1, <2>2
    <3> QED BY <2>2, <3>1
  <2>4. CmpWith(cmp, x, y) = CmpArr(cmp, x[2], y[2])
      BY <1>0, <2>1 DEF CmpWith
  <2> QED BY <2>1, <2>2, <2>3, <2>4, AlikeIsEqual
<1>2. CASE TypeRank(x) = 5
  <2>1. x[1] = "doc" /\ x[2] \in Seq(Int \X W) /\ y[2] \in Seq(Int \X W)
      BY <1>0, <1>2, Kinds
  <2>2. /\ Len(x[2]) = Len(y[2])
        /\ \A i \in DOMAIN x[2] : x[2][i][1] = y[2][i][1] /\ same[x[2][i][2]][y[2][i][2]]
      BY <2>1 DEF SameWith
  <2>3. \A i \in DOMAIN x[2] : PairsCmp(cmp, W)[x[2][i]][y[2][i]] = 0
    <3> TAKE i \in DOMAIN x[2]
    <3> DEFINE p == x[2][i]
               q == y[2][i]
    <3>1. p \in Int \X W /\ q \in Int \X W
        BY <2>1, <2>2
    <3>2. p[1] = q[1] /\ cmp[p[2]][q[2]] = 0
        BY <2>2, <3>1
    <3> HIDE DEF p, q
    <3>3. PairsCmp(cmp, W)[p][q] = 0
        BY <3>1, <3>2 DEF PairsCmp
    <3> QED BY <3>3 DEF p, q
  <2>4. CmpWith(cmp, x, y) = CmpDoc(cmp, x[2], y[2])
      BY <1>0, <2>1 DEF CmpWith
  <2>5. CmpDoc(cmp, x[2], y[2]) = CmpArr(PairsCmp(cmp, W), x[2], y[2])
      BY <2>1, DocIsArr
  <2> QED BY <2>1, <2>2, <2>3, <2>4, <2>5, AlikeIsEqual
<1>3. CASE TypeRank(x) = 6
  <2>1. x[1] = "vector" /\ x[2] \in Seq(Bits) /\ y[1] = "vector" /\ y[2] \in Seq(Bits)
      BY <1>0, <1>3, Kinds
  <2>2. x[2] \in Seq(Bits \ {<<0, -1>>}) /\ y[2] \in Seq(Bits \ {<<0, -1>>})
      BY <2>1 DEF Plain, Containers
  <2>3. Len(x[2]) = Len(y[2]) /\ \A i \in DOMAIN x[2] : x[2][i][1] = y[2][i][1]
      BY <2>1 DEF SameWith
  <2>4. \A i \in DOMAIN x[2] : BitsCmp[x[2][i]][y[2][i]] = 0
    <3> TAKE i \in DOMAIN x[2]
    <3> DEFINE a == x[2][i]
               b == y[2][i]
    <3>1. a \in Bits /\ a # <<0, -1>> /\ b \in Bits /\ b # <<0, -1>> /\ a[1] = b[1]
      <4> DEFINE S == Bits \ {<<0, -1>>}
      <4>1. x[2] \in Seq(S) /\ y[2] \in Seq(S)
          BY <2>2
      <4> HIDE DEF S
      <4>2. a \in S /\ b \in S /\ a[1] = b[1]
          BY <2>3, <4>1
      <4> QED BY <4>2 DEF S
    <3> HIDE DEF a, b
    <3>2. a[2] = 0 /\ b[2] = 0
        BY <3>1 DEF Bits
    <3>3. BitsCmp[a][b] = 0
        BY <3>1, <3>2 DEF BitsCmp, TotalCmp, CmpInt
    <3> QED BY <3>3 DEF a, b
  <2>5. CmpWith(cmp, x, y) = CmpVector(x[2], y[2])
      BY <1>0, <2>1 DEF CmpWith
  <2>6. CmpVector(x[2], y[2]) = CmpArr(BitsCmp, x[2], y[2])
      BY <2>1, VectorIsArr
  <2>7. CmpArr(BitsCmp, x[2], y[2]) = 0
    <3> DEFINE v == x[2]
               w == y[2]
    <3>1. /\ v \in Seq(Bits) /\ w \in Seq(Bits) /\ Len(v) = Len(w)
          /\ \A i \in DOMAIN v : BitsCmp[v[i]][w[i]] = 0
        BY <2>1, <2>3, <2>4
    <3> HIDE DEF v, w
    <3>2. CmpArr(BitsCmp, v, w) = 0
        BY <3>1, AlikeIsEqual
    <3> QED BY <3>2 DEF v, w
  <2> QED BY <2>5, <2>6, <2>7
<1>4. CASE TypeRank(x) \notin {4, 5, 6}
  <2>1. Key(x) \in Int /\ Key(y) \in Int /\ CmpWith(cmp, x, y) = CmpInt(Key(x), Key(y))
      BY <1>0, <1>4, ScalarsByKey
  <2>2. x[1] \notin {"arr", "doc", "vector"}
      BY <1>4 DEF TypeRank
  <2>3. Key(x) = Key(y)
    <3>1. CASE x[1] = "float"
        BY <1>0, <3>1 DEF SameWith, Key
    <3>2. CASE x[1] # "float"
      <4>1. x[2] = y[2]
          BY <2>2, <3>2 DEF SameWith
      <4> QED BY <1>0, <3>2, <4>1 DEF Key
    <3> QED BY <3>1, <3>2
  <2> QED BY <2>1, <2>3, CmpIntTotal
<1> QED BY <1>0, <1>1, <1>2, <1>3, <1>4

LEMMA NestedSameIsEqual ==
    ASSUME NEW depth \in Nat
    PROVE  \A x, y \in ValuesOver(Plain)[depth] : SameNested[depth][x][y] => CmpNested[depth][x][y] = 0
<1> DEFINE V(d) == ValuesOver(Plain)[d]
           Equal(same, cmp, W) == \A x, y \in W : same[x][y] => cmp[x][y] = 0
           good == {d \in Nat : Equal(SameNested[d], CmpNested[d], V(d))}
<1>1. ASSUME NEW d \in Nat, NEW W, Equal(InsideSame(d), InsideCmp(d), W), V(d) \subseteq Plain \cup Containers(W)
      PROVE  Equal(SameNested[d], CmpNested[d], V(d))
  <2>0. V(d) \subseteq Within(d)
    <3>1. Plain \subseteq Scalars
        BY DEF Plain, Ordinary
    <3> QED BY <3>1, ValuesGrow DEF Within
  <2> HIDE DEF V
  <2>1. ASSUME NEW x \in V(d), NEW y \in V(d), SameNested[d][x][y] PROVE CmpNested[d][x][y] = 0
    <3>1. x \in Within(d) /\ y \in Within(d) /\ x \in Plain \cup Containers(W) /\ y \in Plain \cup Containers(W)
        BY <1>1, <2>0
    <3>2. SameNested[d][x][y] = SameWith(InsideSame(d), x, y)
        BY <3>1, SameNestedIs
    <3>3. SameWith(InsideSame(d), x, y)
        BY <2>1, <3>2
    <3>4. CmpWith(InsideCmp(d), x, y) = 0
        BY <1>1, <3>1, <3>3, SameIsEqual
    <3>5. CmpNested[d][x][y] = CmpWith(InsideCmp(d), x, y)
        BY <3>1, CmpNestedIs
    <3> QED BY <3>4, <3>5
  <2> QED BY <2>1
<1>2. 0 \in good
  <2>1. V(0) \subseteq Plain \cup Containers({})
      BY ValuesOverIs
  <2>2. Equal(InsideSame(0), InsideCmp(0), {})
      OBVIOUS
  <2> HIDE DEF V, Equal
  <2>3. Equal(SameNested[0], CmpNested[0], V(0))
      BY <1>1, <2>1, <2>2
  <2> QED BY <2>3
<1>3. ASSUME NEW d \in Nat, d \in good PROVE d + 1 \in good
  <2>1. V(d + 1) \subseteq Plain \cup Containers(V(d))
      BY ValuesOverIs
  <2>2. d + 1 \in Nat /\ d + 1 # 0 /\ (d + 1) - 1 = d
      OBVIOUS
  <2> HIDE DEF V, Equal
  <2>3. Equal(InsideSame(d + 1), InsideCmp(d + 1), V(d))
    <3>1. InsideSame(d + 1) = SameNested[d] /\ InsideCmp(d + 1) = CmpNested[d]
        BY <2>2 DEF InsideSame, InsideCmp
    <3> QED BY <1>3, <3>1
  <2>4. Equal(SameNested[d + 1], CmpNested[d + 1], V(d + 1))
      BY <1>1, <2>1, <2>2, <2>3
  <2> QED BY <2>2, <2>4
<1> HIDE DEF good
<1>4. depth \in good
    BY <1>2, <1>3, L!Induction
<1> QED BY <1>4 DEF good

(***************************************************************************)
(* Pages.                                                                  *)
(***************************************************************************)

\* OrderTotal of the values of the store, at every stage.
ValuesOrdered ==
    \A x, y \in Values \cup {Null} :
        /\ CmpTotal(x, y) \in {-1, 0, 1} /\ CmpTotal(x, y) = -CmpTotal(y, x)
        /\ \A z \in Values \cup {Null} : CmpTotal(x, y) # 1 /\ CmpTotal(y, z) # 1 => CmpTotal(x, z) # 1

\* The pairs of matching records of which the first comes before the second, and how
\* many come before one.
Earlier == {p \in Matching \X Matching : Before(p[1], p[2])}
Position(i) == Cardinality({j \in Matching : Before(j, i)})

\* The row of a record before the projection.
RowOf(i) == [id |-> i, score |-> ModeScore(i), body |-> Body(i)]

\* The rows of some records, one for each that matches.
AreRowsOf(list, ids) == list = [r \in 1 .. Cardinality(Matching) |-> RowOf(ids[r])]

\* Some rows are those of a page: from how many on, and how many.
IsPage(list, from, len) ==
    /\ list \in Seq({RowOf(i) : i \in Matching}) /\ Len(list) = len
    /\ \A r \in 1..len : Position(list[r].id) = from + r - 1

\* Coming before is a strict total order.
LEMMA EarlierIsOrder ==
    ASSUME IdfTyped, Inputs, ValuesOrdered
    PROVE  F!StrictOrder(Earlier, Matching)
<1>1. IsStore(store) /\ Matching \in SUBSET Nat /\ Matching \in SUBSET DOMAIN Records
    BY MatchingTyped DEF Inputs
<1>2. \A x, y \in Matching : <<x, y>> \in Earlier <=> Before(x, y)
    BY DEF Earlier
<1> DEFINE S == Matching
<1>a. S \in SUBSET Nat
    BY <1>1
<1>3. CASE sel.order = "field"
  <2> DEFINE c == [p \in S \X S |-> IF sel.desc THEN CmpTotal(SortKey(p[2]), SortKey(p[1]))
                                    ELSE CmpTotal(SortKey(p[1]), SortKey(p[2]))]
             V == Values \cup {Null}
  <2>1. \A x \in S : SortKey(x) \in V
      BY <1>1 DEF SortKey, Values, Range
  <2>2. \A x, y \in S : c[<<x, y>>] = IF sel.desc THEN CmpTotal(SortKey(y), SortKey(x))
                                  ELSE CmpTotal(SortKey(x), SortKey(y))
      OBVIOUS
  <2>3. /\ \A x, y \in V : CmpTotal(x, y) \in {-1, 0, 1} /\ CmpTotal(x, y) = -CmpTotal(y, x)
        /\ \A x, y, z \in V : CmpTotal(x, y) # 1 /\ CmpTotal(y, z) # 1 => CmpTotal(x, z) # 1
      BY DEF ValuesOrdered
  <2> HIDE DEF c, V
  <2>4. \A x, y \in S : Before(x, y) <=> c[<<x, y>>] = -1 \/ (c[<<x, y>>] = 0 /\ x < y)
    <3> TAKE x \in S, y \in S
    <3>1. c[<<x, y>>] \in {-1, 0, 1}
        BY <2>1, <2>2, <2>3
    <3>2. Before(x, y) <=> c[<<x, y>>] < 0 \/ (c[<<x, y>>] = 0 /\ x < y)
        BY <1>3, <2>2 DEF Before
    <3> QED BY <3>1, <3>2
  <2> HIDE DEF S
  <2>5. \A x, y \in S : c[<<x, y>>] \in {-1, 0, 1} /\ c[<<x, y>>] = -c[<<y, x>>]
    <3> TAKE x \in S, y \in S
    <3>1. SortKey(x) \in V /\ SortKey(y) \in V
        BY <2>1
    <3> QED BY <2>2, <2>3, <3>1
  <2>6. \A x, y, z \in S : c[<<x, y>>] # 1 /\ c[<<y, z>>] # 1 => c[<<x, z>>] # 1
    <3> TAKE x \in S, y \in S, z \in S
    <3>1. SortKey(x) \in V /\ SortKey(y) \in V /\ SortKey(z) \in V
        BY <2>1
    <3> QED BY <2>2, <2>3, <3>1
  <2>7. \A x, y \in S : <<x, y>> \in Earlier <=> c[<<x, y>>] = -1 \/ (c[<<x, y>>] = 0 /\ x < y)
      BY <1>2, <2>4 DEF S
  <2>8. F!StrictOrder(Earlier, S)
      BY <1>a, <2>5, <2>6, <2>7, OrderByComparing
  <2> QED BY <2>8 DEF S
<1>4. CASE sel.order # "field"
  <2> DEFINE f == [x \in S |-> IF sel.order = "recency" THEN Records[x].created ELSE ModeScore(x)]
             c == [p \in S \X S |-> CmpInt(f[p[2]], f[p[1]])]
  <2>1. \A x \in S : f[x] = (IF sel.order = "recency" THEN Records[x].created ELSE ModeScore(x))
                     /\ f[x] \in Int
      BY <1>1, StoreHolds, ModeScoreTyped
  <2>2. \A x, y \in S : c[<<x, y>>] = CmpInt(f[y], f[x])
      OBVIOUS
  <2> HIDE DEF f, c
  <2>3. \A x, y \in S : Before(x, y) <=> c[<<x, y>>] = -1 \/ (c[<<x, y>>] = 0 /\ x < y)
    <3> TAKE x \in S, y \in S
    <3>1. c[<<x, y>>] \in {-1, 0, 1}
        BY <2>2 DEF CmpInt
    <3>2. Before(x, y) <=> c[<<x, y>>] < 0 \/ (c[<<x, y>>] = 0 /\ x < y)
        BY <1>4, <2>1, <2>2 DEF Before
    <3> QED BY <3>1, <3>2
  <2> HIDE DEF S
  <2>4. \A x, y \in S : c[<<x, y>>] \in {-1, 0, 1} /\ c[<<x, y>>] = -c[<<y, x>>]
    <3> TAKE x \in S, y \in S
    <3>1. c[<<x, y>>] = CmpInt(f[y], f[x]) /\ c[<<y, x>>] = CmpInt(f[x], f[y])
        BY <2>2
    <3>2. f[x] \in Int /\ f[y] \in Int
        BY <2>1
    <3> QED BY <3>1, <3>2 DEF CmpInt
  <2>5. \A x, y, z \in S : c[<<x, y>>] # 1 /\ c[<<y, z>>] # 1 => c[<<x, z>>] # 1
    <3>1. \A x, y, z \in S : CmpInt(f[x], f[y]) # 1 /\ CmpInt(f[y], f[z]) # 1 => CmpInt(f[x], f[z]) # 1
        BY <2>1, CmpIntIs
    <3> QED BY <2>2, <3>1
  <2>6. \A x, y \in S : <<x, y>> \in Earlier <=> c[<<x, y>>] = -1 \/ (c[<<x, y>>] = 0 /\ x < y)
      BY <1>2, <2>3 DEF S
  <2>7. F!StrictOrder(Earlier, S)
      BY <1>a, <2>4, <2>5, <2>6, OrderByComparing
  <2> QED BY <2>7 DEF S
<1> QED BY <1>3, <1>4

\* A position is a rank.
LEMMA PositionIsRank ==
    ASSUME NEW i \in Matching
    PROVE  F!Rank(Earlier, Matching, i) = Position(i)
<1>1. {j \in Matching : <<j, i>> \in Earlier} = {j \in Matching : Before(j, i)}
    BY DEF Earlier
<1> QED BY <1>1, Shared DEF F!Rank, F!Below, Position

\* The comparisons of order_rows compare what Before does.
LEMMA PrecedesIsBefore ==
    ASSUME IdfTyped, Inputs, ValuesOrdered, NEW i \in Matching, NEW j \in Matching
    PROVE  Precedes(RowOf(i), RowOf(j)) <=> Before(i, j)
<1>1. IsStore(store) /\ i \in DOMAIN Records /\ j \in DOMAIN Records
    BY MatchingTyped DEF Inputs
<1>2. /\ RowOf(i).id = i /\ RowOf(i).score = ModeScore(i) /\ RowOf(i).body = Body(i)
      /\ RowOf(j).id = j /\ RowOf(j).score = ModeScore(j) /\ RowOf(j).body = Body(j)
    BY DEF RowOf
<1>3. CASE sel.order = "field"
  <2>1. SortKey(i) \in Values \cup {Null} /\ SortKey(j) \in Values \cup {Null}
      BY <1>1 DEF SortKey, Values, Range
  <2>2. /\ CmpTotal(SortKey(i), SortKey(j)) \in {-1, 0, 1}
        /\ CmpTotal(SortKey(j), SortKey(i)) = -CmpTotal(SortKey(i), SortKey(j))
      BY <2>1 DEF ValuesOrdered
  <2>3. KeyOf(RowOf(i)) = SortKey(i) /\ KeyOf(RowOf(j)) = SortKey(j)
      BY <1>2 DEF KeyOf, SortKey
  <2>4. Precedes(RowOf(i), RowOf(j)) <=>
           LET d == (IF sel.desc THEN -1 ELSE 1) * CmpTotal(SortKey(i), SortKey(j))
           IN  d = -1 \/ (d = 0 /\ i < j)
      BY <1>2, <1>3, <2>3 DEF Precedes
  <2>5. Before(i, j) <=>
           LET d == IF sel.desc THEN CmpTotal(SortKey(j), SortKey(i)) ELSE CmpTotal(SortKey(i), SortKey(j))
           IN  d < 0 \/ (d = 0 /\ i < j)
      BY <1>3 DEF Before
  <2>6. CASE sel.desc
      BY <2>2, <2>4, <2>5, <2>6
  <2>7. CASE ~sel.desc
      BY <2>2, <2>4, <2>5, <2>7
  <2> QED BY <2>6, <2>7
<1>4. CASE sel.order = "recency"
  <2> DEFINE d == CmpInt(Records[j].created, Records[i].created)
  <2>1. Precedes(RowOf(i), RowOf(j)) <=> d = -1 \/ (d = 0 /\ i < j)
      BY <1>2, <1>4 DEF Precedes
  <2>2. Before(i, j) <=> d < 0 \/ (d = 0 /\ i < j)
      BY <1>4 DEF Before
  <2>3. d \in {-1, 0, 1}
      BY DEF CmpInt
  <2> HIDE DEF d
  <2> QED BY <2>1, <2>2, <2>3
<1>5. CASE sel.order # "field" /\ sel.order # "recency"
  <2> DEFINE d == CmpInt(ModeScore(j), ModeScore(i))
  <2>1. Precedes(RowOf(i), RowOf(j)) <=> d = -1 \/ (d = 0 /\ i < j)
      BY <1>2, <1>5 DEF Precedes
  <2>2. Before(i, j) <=> d < 0 \/ (d = 0 /\ i < j)
      BY <1>5 DEF Before
  <2>3. d \in {-1, 0, 1}
      BY DEF CmpInt
  <2> HIDE DEF d
  <2> QED BY <2>1, <2>2, <2>3
<1> QED BY <1>3, <1>4, <1>5

\* Sorting the rows of the matching records gives the whole page.
LEMMA SortedIsPage ==
    ASSUME IdfTyped, Inputs, ValuesOrdered, candidates = Ascending(Matching),
           NEW list, AreRowsOf(list, candidates),
           NEW sorted \in Arrangements(list, Precedes)
    PROVE  IsPage(sorted, 0, Cardinality(Matching))
<1> DEFINE S == Matching
           n == Cardinality(S)
           D == 1..n
           c == candidates
           T == {RowOf(i) : i \in Matching}
<1>1. IsStore(store) /\ S \in SUBSET Nat /\ IsFiniteSet(S) /\ n \in Nat
    BY MatchingTyped DEF Inputs
<1>2. c \in Bijection(D, S) /\ c \in [D -> S]
    BY <1>1, AscendingIs
<1>3. DOMAIN list = D /\ Len(list) = n /\ \A r \in D : list[r] = RowOf(c[r])
  <2>1. DOMAIN list = D /\ \A r \in D : list[r] = RowOf(c[r])
      BY DEF AreRowsOf
  <2>2. list = [r \in 1..n |-> list[r]]
      BY DEF AreRowsOf
  <2>3. Len(list) = n
    <3> HIDE DEF n
    <3> QED BY <1>1, <2>2, F!RowsLen
  <2> QED BY <2>1, <2>3
<1>4. PICK order \in Bijection(D, D) : sorted = [r \in D |-> list[order[r]]]
  <2> HIDE DEF D, n
  <2> QED BY <1>3 DEF Arrangements
<1>5. \A r \in 2..n : ~Precedes(sorted[r], sorted[r - 1])
    BY <1>3 DEF Arrangements
<1>6. order \in [D -> D]
  <2> HIDE DEF D
  <2> QED BY Shared, F!BijectionIs
<1>7. \A r \in D : sorted[r] = RowOf(c[order[r]]) /\ c[order[r]] \in S
    BY <1>2, <1>3, <1>4, <1>6
<1>8. InOrder(Earlier, c, order, n)
  <2> SUFFICES ASSUME NEW r \in 2..n PROVE <<c[order[r]], c[order[r - 1]]>> \notin Earlier
      BY DEF InOrder
  <2>1. r \in D /\ r - 1 \in D
      BY <1>1
  <2>2. ~Precedes(RowOf(c[order[r]]), RowOf(c[order[r - 1]]))
      BY <1>5, <1>7, <2>1
  <2>3. c[order[r]] \in S /\ c[order[r - 1]] \in S
      BY <1>7, <2>1
  <2>4. ~Before(c[order[r]], c[order[r - 1]])
      BY <2>2, <2>3, PrecedesIsBefore
  <2> QED BY <2>4 DEF Earlier
<1>9. \A r \in D : F!Rank(Earlier, S, c[order[r]]) = r - 1
  <2>1. n = Cardinality(S) /\ D = 1..n /\ order \in Bijection(D, D)
      OBVIOUS
  <2>2. F!StrictOrder(Earlier, S)
      BY EarlierIsOrder
  <2> HIDE DEF S, n, D, c
  <2> QED BY <1>1, <1>2, <1>8, <2>1, <2>2, ArrangedByRank
<1>10. \A r \in D : Position(sorted[r].id) = r - 1 /\ sorted[r] \in T
  <2> TAKE r \in D
  <2>0. sorted[r] \in T
      BY <1>7
  <2>1. sorted[r].id = c[order[r]]
    <3>1. RowOf(c[order[r]]).id = c[order[r]]
        BY DEF RowOf
    <3> HIDE DEF c
    <3> QED BY <1>7, <3>1
  <2>2. F!Rank(Earlier, S, c[order[r]]) = Position(c[order[r]])
      BY <1>7, PositionIsRank
  <2> HIDE DEF T
  <2> QED BY <1>9, <2>0, <2>1, <2>2
<1>11. sorted \in [1..n -> T]
  <2>1. sorted = [r \in D |-> sorted[r]]
      BY <1>4
  <2> QED BY <1>10, <2>1
<1>12. sorted \in Seq(T) /\ Len(sorted) = n
  <2> HIDE DEF T, n
  <2> QED BY <1>1, <1>11
<1>13. \A r \in D : Position(sorted[r].id) = 0 + r - 1
    BY <1>10
<1> QED BY <1>12, <1>13 DEF IsPage

\* A part of a page.
LEMMA PartOfPage ==
    ASSUME NEW list, NEW from \in Nat, NEW len \in Nat, IsPage(list, from, len),
           NEW skip \in 0..len, NEW last \in 0..len, skip <= last
    PROVE  IsPage(SubSeq(list, skip + 1, last), from + skip, last - skip)
<1> DEFINE T == {RowOf(i) : i \in Matching}
           part == SubSeq(list, skip + 1, last)
<1>1. list \in Seq(T) /\ Len(list) = len /\ \A r \in 1..len : Position(list[r].id) = from + r - 1
    BY DEF IsPage
<1> HIDE DEF T
<1>2. part \in Seq(T) /\ Len(part) = last - skip
    BY <1>1
<1>3. ASSUME NEW r \in 1 .. (last - skip) PROVE Position(part[r].id) = (from + skip) + r - 1
  <2>0. skip + r \in 1..len /\ r \in 1 .. (last - (skip + 1) + 1)
      OBVIOUS
  <2>1. part[r] = list[skip + r] /\ skip + r \in 1..len
    <3>1. part[r] = list[(skip + 1) + r - 1]
        BY <1>1, <2>0
    <3>2. (skip + 1) + r - 1 = skip + r
        OBVIOUS
    <3> QED BY <2>0, <3>1, <3>2
  <2>2. Position(list[skip + r].id) = from + (skip + r) - 1
      BY <1>1, <2>1
  <2> HIDE DEF part
  <2> QED BY <2>1, <2>2
<1> QED BY <1>2, <1>3 DEF IsPage, T

(***************************************************************************)
(* The pipeline.                                                           *)
(***************************************************************************)

\* The rows that are left after the cap.
PageLen == Min(Caps \cup {Max({0, Cardinality(Matching) - sel.offset})})

\* A field the query selects or not.
Selected(k) == sel.fields = <<>> \/ k \in sel.fields[1]

\* A row of a page shows the score of its record and the selected fields of its body.
ShowsRecord(row) ==
    /\ row.score = ModeScore(row.id)
    /\ \A k \in DOMAIN Body(row.id) :
          IF Selected(k) THEN k \in DOMAIN row.body /\ row.body[k] = Body(row.id)[k]
          ELSE k \notin DOMAIN row.body

\* The rows returned.
Shown(list) ==
    /\ Len(list) = PageLen
    /\ \A r \in DOMAIN list : /\ list[r].id \in Matching
                              /\ Position(list[r].id) = sel.offset + r - 1
                              /\ ShowsRecord(list[r])

\* What holds between the stages.
PipelineInv ==
    /\ Inputs /\ ValuesOrdered
    /\ pc # "scan" => candidates = Ascending(Matching)
    /\ pc = "count" => sel.count
    /\ pc \in {"index", "score", "order", "skip", "cap", "project"} => ~sel.count
    /\ pc = "score" /\ sel.bm25 # <<>> => \A i \in Matching : Lexical(i) = Relevance(i)
    /\ pc = "order" => AreRowsOf(rows, candidates)
    /\ pc = "skip" => IsPage(rows, 0, Cardinality(Matching))
    /\ pc = "cap" => IsPage(rows, sel.offset, Max({0, Cardinality(Matching) - sel.offset}))
    /\ pc = "project" => IsPage(rows, sel.offset, PageLen)
    /\ pc = "returned" => IF sel.count THEN rows[1].body.count = Int64(Cardinality(Matching))
                          ELSE Shown(rows)

\* A stage keeps the store and the query, and with them what both determine.
LEMMA InputsKept ==
    ASSUME store' = store, sel' = sel
    PROVE  /\ Matching' = Matching /\ (Inputs' <=> Inputs) /\ (ValuesOrdered' <=> ValuesOrdered)
           /\ Caps' = Caps
           /\ \A i : /\ Body(i)' = Body(i) /\ Relevance(i)' = Relevance(i)
                     /\ ModeScore(i)' = ModeScore(i)
           /\ \A i, j : Before(i, j)' <=> Before(i, j)
<1>1. Records' = Records /\ \A i : Body(i)' = Body(i)
    BY DEF Records, Body
<1>2. Matching' = Matching
    BY DEF Matching, Matches, InTable, MatchesTerm, Records, Body
<1>3. Inputs' <=> Inputs
    BY DEF Inputs
<1>4. ValuesOrdered' <=> ValuesOrdered
  <2>1. Values' = Values
      BY DEF Values, Records, Body
  <2> QED BY <2>1 DEF ValuesOrdered
<1>5. Caps' = Caps
    BY DEF Caps
<1>6. \A i : ScoreOf(i)' = ScoreOf(i)
    BY DEF ScoreOf, VotesToward, Sum
<1>7. \A i : NetVotes(i)' = NetVotes(i)
    BY DEF NetVotes, VotesToward, Sum
<1>8. \A i : FeedbackScore(i)' = FeedbackScore(i)
    BY DEF FeedbackScore, VotesToward, Sum
<1>9. \A i : StrengthOf(i)' = StrengthOf(i) /\ ImportanceOf(i)' = ImportanceOf(i)
    BY DEF StrengthOf, ImportanceOf, Records, Body
<1>10. \A i : Similarity(i)' = Similarity(i)
    BY DEF Similarity, Records
<1>11. \A i : Relevance(i)' = Relevance(i)
  <2>1. Documents' = Documents
      BY <1>2 DEF Documents, Records
  <2>2. \A i : Tokens(i)' = Tokens(i)
      BY DEF Tokens, Records
  <2> QED BY <2>1, <2>2 DEF Relevance
<1>12. /\ [j \in Matching |-> Relevance(j)]' = [j \in Matching |-> Relevance(j)]
       /\ [j \in Matching |-> Similarity(j)]' = [j \in Matching |-> Similarity(j)]
    BY <1>2, <1>10, <1>11
<1>13. \A score, i : RankBy(score, i)' = RankBy(score, i)
    BY <1>2 DEF RankBy
<1>14. \A w, i : Weighted(w, i)' = Weighted(w, i)
    BY <1>6, <1>9, <1>10 DEF Weighted
<1>15. \A i : ModeScore(i)' = ModeScore(i)
    BY <1>6, <1>7, <1>8, <1>10, <1>11, <1>12, <1>13, <1>14 DEF ModeScore, Hybrid
<1>16. \A i, j : Before(i, j)' <=> Before(i, j)
    BY <1>15 DEF Before, SortKey, Records, Body
<1> QED BY <1>1, <1>2, <1>3, <1>4, <1>5, <1>11, <1>15, <1>16

\* So do the rows and the pages.
LEMMA PagesKept ==
    ASSUME store' = store, sel' = sel
    PROVE  /\ \A i : RowOf(i)' = RowOf(i) /\ Position(i)' = Position(i)
           /\ \A list, ids : AreRowsOf(list, ids)' <=> AreRowsOf(list, ids)
           /\ \A list, from, len : IsPage(list, from, len)' <=> IsPage(list, from, len)
           /\ PageLen' = PageLen
<1>1. \A i : RowOf(i)' = RowOf(i)
    BY InputsKept DEF RowOf
<1>2. \A i : Position(i)' = Position(i)
  <2> TAKE i
  <2>1. {j \in Matching : Before(j, i)}' = {j \in Matching : Before(j, i)}
      BY InputsKept
  <2> QED BY <2>1 DEF Position
<1>3. {RowOf(i) : i \in Matching}' = {RowOf(i) : i \in Matching}
    BY <1>1, InputsKept
<1>4. \A list, from, len : IsPage(list, from, len)' <=> IsPage(list, from, len)
    BY <1>2, <1>3 DEF IsPage
<1>5. PageLen' = PageLen
    BY InputsKept DEF PageLen
<1>6. \A list, ids : AreRowsOf(list, ids)' <=> AreRowsOf(list, ids)
    BY <1>1, InputsKept DEF AreRowsOf
<1> QED BY <1>1, <1>2, <1>4, <1>5, <1>6

\* And what is returned.
LEMMA ShownKept ==
    ASSUME store' = store, sel' = sel
    PROVE  \A list : Shown(list)' <=> Shown(list)
<1>1. /\ Matching' = Matching /\ PageLen' = PageLen /\ \A i : Position(i)' = Position(i)
      /\ \A i : Body(i)' = Body(i) /\ ModeScore(i)' = ModeScore(i)
    BY InputsKept, PagesKept
<1>2. \A k : Selected(k)' <=> Selected(k)
    BY DEF Selected
<1>3. \A row : ShowsRecord(row)' <=> ShowsRecord(row)
    BY <1>1, <1>2 DEF ShowsRecord
<1> QED BY <1>1, <1>3 DEF Shown

\* The filter keeps the matching records, in the order of ids.
LEMMA ScanKeeps == ASSUME PipelineInv, Scan PROVE PipelineInv'
<1>1. store' = store /\ sel' = sel
    BY DEF Scan
<1>2. /\ Matching' = Matching /\ (Inputs' <=> Inputs) /\ (ValuesOrdered' <=> ValuesOrdered)
    BY <1>1, InputsKept
<1>3. candidates' = Ascending(Matching)
    BY DEF Scan, Matching
<1>4. /\ pc' = IF sel.count THEN "count" ELSE IF sel.bm25 # <<>> THEN "index" ELSE "score"
    BY DEF Scan
<1>5. pc' \in {"count", "index", "score"} /\ (pc' = "count" <=> sel.count)
      /\ (pc' = "score" => sel.bm25 = <<>>)
    BY <1>4
<1>6. Inputs' /\ ValuesOrdered' /\ candidates' = Ascending(Matching')
    BY <1>2, <1>3 DEF PipelineInv
<1> QED BY <1>1, <1>5, <1>6 DEF PipelineInv

\* COUNT(*) counts them.
LEMMA CountRowKeeps == ASSUME PipelineInv, CountRow PROVE PipelineInv'
<1>1. store' = store /\ sel' = sel /\ candidates' = candidates /\ pc = "count" /\ pc' = "returned"
    BY DEF CountRow
<1>2. /\ Matching' = Matching /\ (Inputs' <=> Inputs) /\ (ValuesOrdered' <=> ValuesOrdered)
    BY <1>1, InputsKept
<1>3. sel.count /\ candidates = Ascending(Matching) /\ Inputs /\ ValuesOrdered
    BY <1>1 DEF PipelineInv
<1>4. Len(candidates) = Cardinality(Matching)
  <2>1. Matching \in SUBSET Nat /\ IsFiniteSet(Matching)
      BY <1>3, MatchingTyped DEF Inputs
  <2> QED BY <1>3, <2>1, AscendingIs
<1>5. rows'[1].body.count = Int64(Cardinality(Matching))
  <2>1. rows' = <<[id |-> 0, score |-> 0, body |-> [count |-> Int64(Len(candidates))]]>>
      BY DEF CountRow
  <2> QED BY <1>4, <2>1
<1> QED BY <1>1, <1>2, <1>3, <1>5 DEF PipelineInv

\* Once the texts are indexed, lexical scores are what the texts say.
LEMMA IndexTextsKeeps == ASSUME PipelineInv, IndexTexts PROVE PipelineInv'
<1>1. store' = store /\ sel' = sel /\ candidates' = candidates /\ pc = "index" /\ pc' = "score"
    BY DEF IndexTexts
<1>2. /\ Matching' = Matching /\ (Inputs' <=> Inputs) /\ (ValuesOrdered' <=> ValuesOrdered)
      /\ \A i : Relevance(i)' = Relevance(i)
    BY <1>1, InputsKept
<1>3. ~sel.count /\ candidates = Ascending(Matching) /\ Inputs /\ ValuesOrdered
    BY <1>1 DEF PipelineInv
<1>4. IsStore(store)
    BY <1>3 DEF Inputs
<1>5. IsIndexOf(bm25', Matching)
  <2>1. bm25' = FoldLeft(LAMBDA index, i : IndexText(Records, index, i), EmptyIndex, candidates)
      BY DEF IndexTexts
  <2> QED BY <1>3, <1>4, <2>1, IndexIsExact
<1>6. ASSUME NEW i \in Matching PROVE Lexical(i)' = Relevance(i)
  <2>1. LexicalScore(bm25', i, Tokenize(sel.query)) = Relevance(i)
      BY <1>4, <1>5, LexicalIsRelevance
  <2>2. Lexical(i)' = LexicalScore(bm25', i, Tokenize(sel'.query))
      BY DEF Lexical
  <2> QED BY <1>1, <2>1, <2>2
<1> QED BY <1>1, <1>2, <1>3, <1>6 DEF PipelineInv

\* Each row shows its record and the score of the mode.
LEMMA ScoreRowsKeeps == ASSUME IdfTyped, PipelineInv, ScoreRows PROVE PipelineInv'
<1>1. store' = store /\ sel' = sel /\ candidates' = candidates /\ pc = "score" /\ pc' = "order"
    BY DEF ScoreRows
<1>2. /\ Matching' = Matching /\ (Inputs' <=> Inputs) /\ (ValuesOrdered' <=> ValuesOrdered)
      /\ \A list, ids : AreRowsOf(list, ids)' <=> AreRowsOf(list, ids)
    BY <1>1, InputsKept, PagesKept
<1>3. /\ ~sel.count /\ candidates = Ascending(Matching) /\ Inputs /\ ValuesOrdered
      /\ sel.bm25 # <<>> => \A i \in Matching : Lexical(i) = Relevance(i)
    BY <1>1 DEF PipelineInv
<1> DEFINE D == 1 .. Cardinality(Matching)
<1>4. DOMAIN candidates = D /\ \A r \in D : candidates[r] \in Matching
  <2>1. Matching \in SUBSET Nat /\ IsFiniteSet(Matching)
      BY <1>3, MatchingTyped DEF Inputs
  <2> QED BY <1>3, <2>1, AscendingIs
<1>5. \A i \in Matching : ComputeScore(i) = ModeScore(i)
    BY <1>3, ComputeIsMode
<1>6. \A r \in D : [id |-> candidates[r], score |-> ComputeScore(candidates[r]), body |-> Body(candidates[r])]
                     = RowOf(candidates[r])
    BY <1>4, <1>5 DEF RowOf
<1>7. rows' = [r \in D |-> RowOf(candidates[r])]
    BY <1>4, <1>6 DEF ScoreRows
<1>8. AreRowsOf(rows', candidates)
    BY <1>7 DEF AreRowsOf
<1>9. AreRowsOf(rows, candidates)'
    BY <1>1, <1>2, <1>8
<1> QED BY <1>1, <1>2, <1>3, <1>9 DEF PipelineInv

\* A sort field that no record of the table has ends the query.
LEMMA RefuseOrderKeeps == ASSUME PipelineInv, RefuseOrder PROVE PipelineInv'
<1>1. /\ store' = store /\ sel' = sel /\ candidates' = candidates /\ pc = "order" /\ pc' = "refused"
    BY DEF RefuseOrder
<1>2. /\ Matching' = Matching /\ (Inputs' <=> Inputs) /\ (ValuesOrdered' <=> ValuesOrdered)
    BY <1>1, InputsKept
<1>3. candidates = Ascending(Matching) /\ Inputs /\ ValuesOrdered
    BY <1>1 DEF PipelineInv
<1> QED BY <1>1, <1>2, <1>3 DEF PipelineInv

\* Sorted, they are in their positions.
LEMMA OrderRowsKeeps == ASSUME IdfTyped, PipelineInv, OrderRows PROVE PipelineInv'
<1>1. /\ store' = store /\ sel' = sel /\ candidates' = candidates /\ pc = "order" /\ pc' = "skip"
      /\ rows' \in Arrangements(rows, Precedes)
    BY DEF OrderRows
<1>2. /\ Matching' = Matching /\ (Inputs' <=> Inputs) /\ (ValuesOrdered' <=> ValuesOrdered)
      /\ \A list, from, len : IsPage(list, from, len)' <=> IsPage(list, from, len)
    BY <1>1, InputsKept, PagesKept
<1>3. /\ ~sel.count /\ candidates = Ascending(Matching) /\ Inputs /\ ValuesOrdered
      /\ AreRowsOf(rows, candidates)
    BY <1>1 DEF PipelineInv
<1>4. IsPage(rows', 0, Cardinality(Matching))
    BY <1>1, <1>3, SortedIsPage
<1>5. IsPage(rows, 0, Cardinality(Matching))'
    BY <1>2, <1>4
<1> QED BY <1>1, <1>2, <1>3, <1>5 DEF PipelineInv

\* No rows are a page of none.
LEMMA NoRows ==
    ASSUME NEW list, NEW from, NEW other, IsPage(list, from, 0)
    PROVE  IsPage(list, other, 0)
BY DEF IsPage

\* OFFSET leaves out the first rows, all of them if there are no more.
LEMMA SkipRowsKeeps == ASSUME PipelineInv, SkipRows PROVE PipelineInv'
<1>1. /\ store' = store /\ sel' = sel /\ candidates' = candidates /\ pc = "skip" /\ pc' = "cap"
      /\ rows' = SubSeq(rows, Min({sel.offset, Len(rows)}) + 1, Len(rows))
    BY DEF SkipRows
<1>2. /\ Matching' = Matching /\ (Inputs' <=> Inputs) /\ (ValuesOrdered' <=> ValuesOrdered)
      /\ \A list, from, len : IsPage(list, from, len)' <=> IsPage(list, from, len)
    BY <1>1, InputsKept, PagesKept
<1>3. /\ ~sel.count /\ candidates = Ascending(Matching) /\ Inputs /\ ValuesOrdered
      /\ IsPage(rows, 0, Cardinality(Matching))
    BY <1>1 DEF PipelineInv
<1> DEFINE n == Cardinality(Matching)
           skip == Min({sel.offset, n})
           left == Max({0, n - sel.offset})
<1>4. n \in Nat /\ sel.offset \in Nat /\ Len(rows) = n
    BY <1>3, MatchingTyped DEF Inputs, IsSelect, IsPage
<1>a. rows' = SubSeq(rows, skip + 1, n)
    BY <1>1, <1>4
<1>b. IsPage(rows, 0, n)
    BY <1>3
<1> HIDE DEF n
<1>5. skip = IF sel.offset <= n THEN sel.offset ELSE n
    BY <1>4, Shared, F!MinOfTwo
<1>6. left = IF 0 >= n - sel.offset THEN 0 ELSE n - sel.offset
  <2>1. n - sel.offset \in Int
      BY <1>4
  <2> QED BY <2>1, Shared, F!MaxOfTwo
<1> HIDE DEF skip, left
<1>7. IsPage(rows', 0 + skip, n - skip)
  <2>1. skip \in 0..n /\ n \in 0..n /\ skip <= n /\ 0 \in Nat
      BY <1>4, <1>5
  <2> QED BY <1>4, <1>a, <1>b, <2>1, PartOfPage
<1>8. IsPage(rows', sel.offset, left)
  <2>1. CASE sel.offset <= n
    <3>1. 0 + skip = sel.offset /\ n - skip = left
        BY <1>4, <1>5, <1>6, <2>1
    <3> QED BY <1>7, <3>1
  <2>2. CASE ~ (sel.offset <= n)
    <3>1. n - skip = 0 /\ left = 0
        BY <1>4, <1>5, <1>6, <2>2
    <3> QED BY <1>7, <3>1, NoRows
  <2> QED BY <2>1, <2>2
<1>9. IsPage(rows', sel.offset, Max({0, Cardinality(Matching) - sel.offset}))
    BY <1>8 DEF left, n
<1>10. IsPage(rows, sel.offset, Max({0, Cardinality(Matching) - sel.offset}))'
    BY <1>1, <1>2, <1>9
<1> QED BY <1>1, <1>2, <1>3, <1>10 DEF PipelineInv

\* The caps and the number of rows there are.
LEMMA PageLenIs ==
    ASSUME Inputs, NEW left \in Nat
    PROVE  Min(Caps \cup {left}) \in 0..left
<1>1. Caps \in SUBSET Nat
  <2>1. sel.knn \in Seq(Nat) /\ sel.bm25 \in Seq(Seq(Nat)) /\ sel.limit \in Seq(Nat)
      BY DEF Inputs, IsSelect
  <2>2. Option(sel.bm25, <<>>) \in Seq(Nat)
    <3>1. sel.bm25 # <<>> => sel.bm25[1] \in Seq(Nat)
        BY <2>1
    <3>2. <<>> \in Seq(Nat)
        OBVIOUS
    <3> QED BY <3>1, <3>2 DEF Option
  <2> QED BY <2>1, <2>2, RangeFinite DEF Caps
<1>2. Caps \cup {left} \in SUBSET Nat /\ left \in Caps \cup {left}
    BY <1>1
<1> DEFINE S == Caps \cup {left}
<1>3. S \in SUBSET Nat /\ S # {} /\ left \in S
    BY <1>2
<1> HIDE DEF S
<1>4. Min(S) \in S /\ Min(S) <= left
    BY <1>3, Shared, F!MinOf
<1>5. Min(S) \in 0..left
  <2>1. Min(S) \in Nat
      BY <1>3, <1>4
  <2> QED BY <1>4, <2>1
<1> QED BY <1>5 DEF S

\* The smallest cap cuts the rest off.
LEMMA CapRowsKeeps == ASSUME PipelineInv, CapRows PROVE PipelineInv'
<1>1. /\ store' = store /\ sel' = sel /\ candidates' = candidates /\ pc = "cap" /\ pc' = "project"
      /\ rows' = SubSeq(rows, 1, Min(Caps \cup {Len(rows)}))
    BY DEF CapRows
<1>2. /\ Matching' = Matching /\ (Inputs' <=> Inputs) /\ (ValuesOrdered' <=> ValuesOrdered)
      /\ PageLen' = PageLen
      /\ \A list, from, len : IsPage(list, from, len)' <=> IsPage(list, from, len)
    BY <1>1, InputsKept, PagesKept
<1> DEFINE left == Max({0, Cardinality(Matching) - sel.offset})
<1>3. /\ ~sel.count /\ candidates = Ascending(Matching) /\ Inputs /\ ValuesOrdered
      /\ IsPage(rows, sel.offset, left)
    BY <1>1 DEF PipelineInv
<1>4. left \in Nat /\ sel.offset \in Nat
  <2>1. Cardinality(Matching) \in Nat /\ sel.offset \in Nat
      BY <1>3, MatchingTyped DEF Inputs, IsSelect
  <2> DEFINE d == Cardinality(Matching) - sel.offset
  <2>2. d \in Int
      BY <2>1
  <2> HIDE DEF d
  <2>3. Max({0, d}) = IF 0 >= d THEN 0 ELSE d
      BY <2>2, Shared, F!MaxOfTwo
  <2>4. Max({0, d}) \in Nat
      BY <2>2, <2>3
  <2> QED BY <2>1, <2>4 DEF d
<1>5. PageLen = Min(Caps \cup {left})
    BY DEF PageLen
<1> HIDE DEF left
<1>6. Len(rows) = left /\ PageLen \in 0..left
    BY <1>3, <1>4, <1>5, PageLenIs DEF IsPage
<1>7. rows' = SubSeq(rows, 0 + 1, PageLen)
    BY <1>1, <1>5, <1>6
<1>8. IsPage(rows', sel.offset + 0, PageLen - 0)
  <2>1. 0 \in 0..left /\ 0 <= PageLen
      BY <1>4, <1>6
  <2> QED BY <1>3, <1>4, <1>6, <1>7, <2>1, PartOfPage
<1>9. IsPage(rows', sel.offset, PageLen)
  <2>1. sel.offset + 0 = sel.offset /\ PageLen - 0 = PageLen
      BY <1>4, <1>6
  <2> QED BY <1>8, <2>1
<1>10. IsPage(rows, sel.offset, PageLen)'
    BY <1>1, <1>2, <1>9
<1> QED BY <1>1, <1>2, <1>3, <1>10 DEF PipelineInv

\* The projection is what the rows show.
LEMMA ProjectKeeps == ASSUME PipelineInv, Project PROVE PipelineInv'
<1>1. /\ store' = store /\ sel' = sel /\ candidates' = candidates /\ pc = "project" /\ pc' = "returned"
    BY DEF Project
<1>2. /\ Matching' = Matching /\ (Inputs' <=> Inputs) /\ (ValuesOrdered' <=> ValuesOrdered)
      /\ PageLen' = PageLen
    BY <1>1, InputsKept, PagesKept
<1>3. /\ ~sel.count /\ candidates = Ascending(Matching) /\ Inputs /\ ValuesOrdered
      /\ IsPage(rows, sel.offset, PageLen)
    BY <1>1 DEF PipelineInv
<1> DEFINE T == {RowOf(i) : i \in Matching}
           Kept(b) == LET kept == IF sel.fields = <<>> THEN DOMAIN b ELSE DOMAIN b \cap sel.fields[1]
                      IN  [k \in kept |-> b[k]]
           Projected(row) == [row EXCEPT !.body = Kept(@)]
<1>4. /\ rows \in Seq(T) /\ Len(rows) = PageLen
      /\ \A r \in 1 .. PageLen : Position(rows[r].id) = sel.offset + r - 1
    BY <1>3 DEF IsPage
<1>5. rows' = [r \in DOMAIN rows |-> Projected(rows[r])]
    BY DEF Project
<1>6. ASSUME NEW i \in Matching
      PROVE  /\ RowOf(i).id = i /\ Projected(RowOf(i)).id = i
             /\ ShowsRecord(Projected(RowOf(i)))
  <2>1. Projected(RowOf(i)) = [id |-> i, score |-> ModeScore(i), body |-> Kept(Body(i))]
      BY DEF RowOf
  <2>2. /\ \A k \in DOMAIN Body(i) : k \in DOMAIN Kept(Body(i)) <=> Selected(k)
        /\ \A k \in DOMAIN Kept(Body(i)) : Kept(Body(i))[k] = Body(i)[k]
      BY DEF Selected
  <2> HIDE DEF Projected, Kept
  <2>3. RowOf(i).id = i
      BY DEF RowOf
  <2>4. /\ Projected(RowOf(i)).id = i /\ Projected(RowOf(i)).score = ModeScore(i)
        /\ Projected(RowOf(i)).body = Kept(Body(i))
      BY <2>1
  <2>5. ShowsRecord(Projected(RowOf(i)))
      BY <2>2, <2>4 DEF ShowsRecord
  <2> QED BY <2>3, <2>4, <2>5
<1>7. DOMAIN rows = 1 .. PageLen /\ PageLen \in Nat /\ \A r \in 1 .. PageLen : rows[r] \in T
  <2> HIDE DEF T
  <2> QED BY <1>4
<1> HIDE DEF Projected
<1>8. ASSUME NEW r \in 1 .. PageLen
      PROVE  /\ rows'[r].id = rows[r].id /\ rows[r].id \in Matching /\ ShowsRecord(rows'[r])
  <2>1. PICK i \in Matching : rows[r] = RowOf(i)
      BY <1>7
  <2>2. rows'[r] = Projected(RowOf(i))
      BY <1>5, <1>7, <2>1
  <2> QED BY <1>6, <2>1, <2>2
<1>9. DOMAIN rows' = 1 .. PageLen /\ Len(rows') = PageLen
  <2>1. rows' = [r \in 1 .. PageLen |-> rows'[r]]
      BY <1>5, <1>7
  <2> QED BY <1>7, <2>1, F!RowsLen
<1>10. Shown(rows')
  <2> SUFFICES ASSUME NEW r \in 1 .. PageLen
               PROVE  /\ rows'[r].id \in Matching /\ Position(rows'[r].id) = sel.offset + r - 1
                      /\ ShowsRecord(rows'[r])
      BY <1>9 DEF Shown
  <2> QED BY <1>4, <1>8
<1>11. Shown(rows)'
    BY <1>1, <1>10, ShownKept
<1> QED BY <1>1, <1>2, <1>3, <1>11 DEF PipelineInv

\* When nothing happens, nothing changes.
LEMMA StutterKeeps == ASSUME PipelineInv, UNCHANGED vars PROVE PipelineInv'
<1>1. store' = store /\ sel' = sel /\ candidates' = candidates /\ bm25' = bm25 /\ rows' = rows /\ pc' = pc
    BY DEF vars
<1>2. /\ Matching' = Matching /\ (Inputs' <=> Inputs) /\ (ValuesOrdered' <=> ValuesOrdered)
      /\ PageLen' = PageLen
      /\ \A list, ids : AreRowsOf(list, ids)' <=> AreRowsOf(list, ids)
      /\ \A list, from, len : IsPage(list, from, len)' <=> IsPage(list, from, len)
      /\ \A list : Shown(list)' <=> Shown(list)
      /\ \A i : Relevance(i)' = Relevance(i)
    BY <1>1, InputsKept, PagesKept, ShownKept
<1>3. AreRowsOf(rows, candidates)' <=> AreRowsOf(rows, candidates)
    BY <1>1, <1>2
<1>4. \A i : Lexical(i)' = Lexical(i)
    BY <1>1 DEF Lexical
<1>5. /\ IsPage(rows, 0, Cardinality(Matching))' <=> IsPage(rows, 0, Cardinality(Matching))
      /\ IsPage(rows, sel.offset, Max({0, Cardinality(Matching) - sel.offset}))' <=>
            IsPage(rows, sel.offset, Max({0, Cardinality(Matching) - sel.offset}))
      /\ IsPage(rows, sel.offset, PageLen)' <=> IsPage(rows, sel.offset, PageLen)
      /\ Shown(rows)' <=> Shown(rows)
    BY <1>1, <1>2
<1> QED BY <1>1, <1>2, <1>3, <1>4, <1>5 DEF PipelineInv

\* It holds at first, for any stores and queries a family has.
LEMMA PipelineInit == ASSUME Init, ValuesOrdered PROVE PipelineInv
<1>1. Inputs
    BY StoresTyped, SelectsTyped DEF Init, Inputs
<1>2. pc = "scan"
    BY DEF Init
<1> QED BY <1>1, <1>2 DEF PipelineInv

\* And after every stage.
LEMMA PipelineNext == ASSUME IdfTyped, PipelineInv, [Next]_vars PROVE PipelineInv'
<1>1. CASE Scan
    BY <1>1, ScanKeeps
<1>2. CASE CountRow
    BY <1>2, CountRowKeeps
<1>3. CASE IndexTexts
    BY <1>3, IndexTextsKeeps
<1>4. CASE ScoreRows
    BY <1>4, ScoreRowsKeeps
<1>5. CASE RefuseOrder
    BY <1>5, RefuseOrderKeeps
<1>6. CASE OrderRows
    BY <1>6, OrderRowsKeeps
<1>7. CASE SkipRows
    BY <1>7, SkipRowsKeeps
<1>8. CASE CapRows
    BY <1>8, CapRowsKeeps
<1>9. CASE Project
    BY <1>9, ProjectKeeps
<1>10. CASE UNCHANGED vars
    BY <1>10, StutterKeeps
<1> QED BY <1>1, <1>2, <1>3, <1>4, <1>5, <1>6, <1>7, <1>8, <1>9, <1>10 DEF Next

\* What is returned is a page.
LEMMA PipelineShows == ASSUME PipelineInv PROVE PageExact /\ RowsShown
<1>1. CASE pc # "returned"
    BY <1>1 DEF PageExact, RowsShown
<1>2. CASE pc = "returned" /\ sel.count
    BY <1>2 DEF PageExact, RowsShown, PipelineInv
<1>3. CASE pc = "returned" /\ ~sel.count
  <2>1. Shown(rows)
      BY <1>3 DEF PipelineInv
  <2>2. PageExact
      BY <1>3, <2>1 DEF PageExact, Shown, PageLen, Position
  <2>3. RowsShown
      BY <2>1 DEF RowsShown, Shown, ShowsRecord, Selected
  <2> QED BY <2>2, <2>3
<1> QED BY <1>1, <1>2, <1>3

(***************************************************************************)
(* Quotients and sums.                                                     *)
(***************************************************************************)

\* The larger of two fractions, by cross-multiplication, is no smaller rounded down.
LEMMA Quotients ==
    ASSUME NEW a \in Nat, NEW b \in Nat, b > 0, NEW c \in Nat, NEW d \in Nat, d > 0,
           c * b <= a * d
    PROVE  c \div d <= a \div b
<1> DEFINE q == c \div d
           r == a \div b
<1>1. q \in Nat /\ d * q <= c
    OBVIOUS
<1>2. r \in Nat /\ a < b * r + b
    OBVIOUS
<1> HIDE DEF q, r
<1>3. SUFFICES ASSUME r < q PROVE FALSE
    BY <1>1, <1>2 DEF q, r
<1>4. \A x, y, z \in Nat : x <= y => z * x <= z * y
    OBVIOUS
<1>5. b * (r + 1) <= b * q
    BY <1>1, <1>2, <1>3, <1>4
<1>6. b * (r + 1) = b * r + b
    BY <1>2
<1>7. a + 1 <= b * q /\ b * q \in Nat
    BY <1>1, <1>2, <1>5, <1>6
<1>8. d * (a + 1) <= d * (b * q)
    BY <1>4, <1>7
<1>9. b * (d * q) <= b * c
    BY <1>1, <1>4
<1>10. d * (b * q) = b * (d * q)
    BY <1>1
<1>11. d * (a + 1) = a * d + d /\ b * c = c * b
    OBVIOUS
<1>12. a * d \in Nat /\ c * b \in Nat /\ d * (b * q) \in Nat
    BY <1>1
<1> QED BY <1>8, <1>9, <1>10, <1>11, <1>12

\* A sum of naturals is no less than any of them.
LEMMA PartOfSum ==
    ASSUME NEW f, IsFiniteSet(DOMAIN f), \A x \in DOMAIN f : f[x] \in Nat, NEW x \in DOMAIN f
    PROVE  f[x] <= Total(f)
<1> DEFINE r == [y \in DOMAIN f \ {x} |-> f[y]]
<1>1. Total(f) = f[x] + Total(r)
  <2>1. \A y \in DOMAIN f : f[y] \in Int
      OBVIOUS
  <2>2. r = [y \in DOMAIN f \ {x} |-> f[y]]
      OBVIOUS
  <2> HIDE DEF r
  <2> QED BY <2>1, <2>2, Shared, F!TotalStep
<1>2. IsFiniteSet(DOMAIN r) /\ \A y \in DOMAIN r : r[y] \in Nat /\ r[y] \in Int
    BY FS_RemoveElement
<1> HIDE DEF r
<1>3. Total(r) \in Nat
    BY <1>2, SumIsInt
<1> QED BY <1>1, <1>3

\* A sum that has no less a term for every term of another, and no negative ones, is
\* no less.
LEMMA SumDominates ==
    ASSUME NEW f, IsFiniteSet(DOMAIN f), \A x \in DOMAIN f : f[x] \in Nat,
           NEW e, DOMAIN e \in SUBSET DOMAIN f, \A x \in DOMAIN e : e[x] \in Int /\ e[x] <= f[x]
    PROVE  Total(e) <= Total(f)
<1> DEFINE R == {p \in Int \X Int : p[1] <= p[2]}
<1>1. \A a, b : <<a, b>> \in R <=> a \in Int /\ b \in Int /\ a <= b
    OBVIOUS
<1>0. \A x \in DOMAIN f : f[x] \in Int
    OBVIOUS
<1> HIDE DEF R
<1>2. <<0, 0>> \in R
    BY <1>1
<1>3. \A a, b, c, d \in Int : <<a, b>> \in R /\ <<c, d>> \in R => <<a + c, b + d>> \in R
    BY <1>1
<1>4. \A x \in DOMAIN f : <<IF x \in DOMAIN e THEN e[x] ELSE 0, f[x]>> \in R
    BY <1>1
<1>5. <<F!Total(e), F!Total(f)>> \in R
    BY <1>0, <1>2, <1>3, <1>4, Shared, F!TotalsRelated
<1> QED BY <1>1, <1>5, Shared

\* The sum of multiples is the multiple of the sum.
LEMMA SumOfMultiples ==
    ASSUME NEW f, IsFiniteSet(DOMAIN f), \A x \in DOMAIN f : f[x] \in Int, NEW k \in Int,
           NEW e, DOMAIN e = DOMAIN f, \A x \in DOMAIN f : e[x] = k * f[x]
    PROVE  Total(e) = k * Total(f)
<1> DEFINE R == {p \in Int \X Int : p[1] = k * p[2]}
<1>1. \A a, b : <<a, b>> \in R <=> a \in Int /\ b \in Int /\ a = k * b
    OBVIOUS
<1>0. \A x \in DOMAIN f : k * f[x] \in Int
    OBVIOUS
<1> HIDE DEF R
<1>2. <<0, 0>> \in R
    BY <1>1
<1>3. \A a, b, c, d \in Int : <<a, b>> \in R /\ <<c, d>> \in R => <<a + c, b + d>> \in R
    BY <1>1
<1>4. \A x \in DOMAIN f : <<IF x \in DOMAIN e THEN e[x] ELSE 0, f[x]>> \in R
    BY <1>0, <1>1
<1>6. \A x \in DOMAIN e : e[x] \in Int
    BY <1>0
<1>5. <<F!Total(e), F!Total(f)>> \in R
    BY <1>2, <1>3, <1>4, <1>6, Shared, F!TotalsRelated
<1> QED BY <1>1, <1>5, Shared

(***************************************************************************)
(* How a term's score grows.                                               *)
(***************************************************************************)

IsLarger(all, total, n) == all = Max({total, n}) /\ all \in Nat

\* The larger of two numbers.
LEMMA LargerIs ==
    ASSUME NEW total \in Nat, NEW n \in Nat
    PROVE  \E all \in Nat : IsLarger(all, total, n) /\ all >= n /\ all >= total
<1>1. Max({total, n}) = IF total >= n THEN total ELSE n
    BY Shared, F!MaxOfTwo
<1> QED BY <1>1 DEF IsLarger

\* The numerator and the denominator of a term's score, with the tokens of all
\* documents or their number.
Numerator(idf, tf, all) == idf * 22 * tf * all
Denominator(tf, len, n, all) == (10 * tf + 3) * all + 9 * len * n

\* They are numbers, the denominator is positive.
LEMMA TermIs ==
    ASSUME NEW idf \in Nat, NEW tf \in Nat, NEW len \in Nat, NEW n \in Nat, n > 0, NEW total \in Nat,
           NEW all, IsLarger(all, total, n)
    PROVE  /\ all \in Nat /\ all >= n /\ all >= total /\ all > 0
           /\ TermScore(idf, tf, len, n, total) = Numerator(idf, tf, all) \div Denominator(tf, len, n, all)
           /\ Numerator(idf, tf, all) \in Nat
           /\ Denominator(tf, len, n, all) \in Nat /\ Denominator(tf, len, n, all) > 0
<1> DEFINE up == idf * 22 * tf * all
           down == (10 * tf + 3) * all + 9 * len * n
<1>1. all \in Nat /\ all >= n /\ all >= total /\ all > 0
  <2>1. Max({total, n}) = IF total >= n THEN total ELSE n
      BY Shared, F!MaxOfTwo
  <2> QED BY <2>1 DEF IsLarger
<1>2. TermScore(idf, tf, len, n, total) = up \div down
    BY DEF TermScore, IsLarger
<1>0. \A a, b \in Nat : a * b \in Nat
    OBVIOUS
<1>3. up \in Nat
  <2>1. idf * 22 \in Nat
      OBVIOUS
  <2>2. (idf * 22) * tf \in Nat
      BY <1>0, <2>1
  <2> QED BY <1>0, <1>1, <2>2
<1>4. down \in Nat /\ down > 0
  <2>2. \A a, b \in Nat : a > 0 /\ b > 0 => a * b > 0
      OBVIOUS
  <2>3. 10 * tf + 3 \in Nat /\ 10 * tf + 3 > 0
      OBVIOUS
  <2>4. (10 * tf + 3) * all \in Nat /\ (10 * tf + 3) * all > 0
      BY <1>0, <1>1, <2>2, <2>3
  <2>5. 9 * len \in Nat /\ (9 * len) * n \in Nat
      BY <1>0 DEF Numerator, Denominator
  <2> QED BY <2>4, <2>5
<1>5. up = Numerator(idf, tf, all) /\ down = Denominator(tf, len, n, all)
    BY DEF Numerator, Denominator
<1> QED BY <1>1, <1>2, <1>3, <1>4, <1>5

\* More of a token and no more tokens score no less.
LEMMA TermDominates ==
    ASSUME NEW idf \in Nat, NEW tf \in Nat, NEW less \in Nat, less <= tf, NEW len \in Nat,
           NEW longer \in Nat, len <= longer, NEW n \in Nat, n > 0, NEW total \in Nat
    PROVE  TermScore(idf, less, longer, n, total) <= TermScore(idf, tf, len, n, total)
<1>a. PICK all \in Nat : IsLarger(all, total, n) /\ all >= n /\ all >= total
    BY LargerIs
<1>b. /\ Numerator(idf, tf, all) \in Nat /\ Numerator(idf, less, all) \in Nat
      /\ Denominator(tf, len, n, all) \in Nat /\ Denominator(tf, len, n, all) > 0
      /\ Denominator(less, longer, n, all) \in Nat /\ Denominator(less, longer, n, all) > 0
    BY <1>a, TermIs
<1>0. TermScore(idf, tf, len, n, total) = Numerator(idf, tf, all) \div Denominator(tf, len, n, all)
    BY <1>a, TermIs
<1>1. TermScore(idf, less, longer, n, total)
         = Numerator(idf, less, all) \div Denominator(less, longer, n, all)
    BY <1>a, TermIs
<1> DEFINE up == idf * 22 * tf * all
           down == (10 * tf + 3) * all + 9 * len * n
           up2 == idf * 22 * less * all
           down2 == (10 * less + 3) * all + 9 * longer * n
<1>3. up2 * down <= up * down2
  <2> DEFINE k == idf * 22 * all
             a == less * all
             b == tf * all
             c == less * (len * n)
             d == tf * (longer * n)
             both == tf * less * all
  <2>1. \A x, y \in Nat : x * y \in Nat
      OBVIOUS
  <2>2. \A x, y, z \in Nat : x <= y => x * z <= y * z /\ z * x <= z * y
      OBVIOUS
  <2>3. a <= b /\ a \in Nat /\ b \in Nat
      BY <2>1, <2>2
  <2>4. len * n <= longer * n /\ len * n \in Nat /\ longer * n \in Nat
      BY <2>1, <2>2
  <2>5. c <= d /\ c \in Nat /\ d \in Nat
    <3> DEFINE x == len * n
               y == longer * n
    <3>1. x \in Nat /\ y \in Nat /\ x <= y
        BY <2>4
    <3> HIDE DEF x, y
    <3>2. less * x <= tf * x /\ tf * x <= tf * y
        BY <2>2, <3>1
    <3>3. less * x \in Nat /\ tf * x \in Nat /\ tf * y \in Nat
        BY <2>1, <3>1
    <3>4. less * x <= tf * y
        BY <3>2, <3>3
    <3> QED BY <3>3, <3>4 DEF x, y
  <2>6. k \in Nat
    <3>1. idf * 22 \in Nat
        OBVIOUS
    <3> QED BY <2>1, <3>1
  <2>7. both \in Nat
    <3>1. tf * less \in Nat
        BY <2>1
    <3> QED BY <2>1, <3>1
  <2>8. less * down = 10 * both + 3 * a + 9 * c
      OBVIOUS
  <2>9. tf * down2 = 10 * both + 3 * b + 9 * d
      OBVIOUS
  <2>10. less * down <= tf * down2 /\ less * down \in Nat /\ tf * down2 \in Nat
    <3> HIDE DEF down, down2, a, b, c, d, both
    <3> QED BY <2>3, <2>5, <2>7, <2>8, <2>9
  <2>11. up2 * down = k * (less * down) /\ up * down2 = k * (tf * down2)
      OBVIOUS
  <2>12. k * (less * down) <= k * (tf * down2)
    <3> HIDE DEF k, down, down2
    <3> QED BY <2>2, <2>6, <2>10
  <2> QED BY <2>11, <2>12
<1>4. up2 \div down2 <= up \div down
  <2>1. /\ up \in Nat /\ down \in Nat /\ down > 0 /\ up2 \in Nat /\ down2 \in Nat /\ down2 > 0
      BY <1>b DEF Numerator, Denominator
  <2> HIDE DEF up, down, up2, down2
  <2> QED BY <1>3, <2>1, Quotients
<1> QED BY <1>0, <1>1, <1>4 DEF Numerator, Denominator

\* With a unit so fine that the inverse document frequency is at least the number of
\* documents, a token that there is scores.
LEMMA TermPositive ==
    ASSUME NEW idf \in Nat, NEW tf \in Nat, tf > 0, NEW len \in Nat, NEW n \in Nat, n > 0,
           n <= idf, NEW total \in Nat, len <= total
    PROVE  TermScore(idf, tf, len, n, total) > 0
<1>a. PICK all \in Nat : IsLarger(all, total, n) /\ all >= n /\ all >= total
    BY LargerIs
<1>b. /\ Numerator(idf, tf, all) \in Nat
      /\ Denominator(tf, len, n, all) \in Nat /\ Denominator(tf, len, n, all) > 0
    BY <1>a, TermIs
<1>0. TermScore(idf, tf, len, n, total) = Numerator(idf, tf, all) \div Denominator(tf, len, n, all)
    BY <1>a, TermIs
<1> DEFINE up == idf * 22 * tf * all
           down == (10 * tf + 3) * all + 9 * len * n
<1>1. down <= up
  <2> DEFINE b == tf * all
             m == n * b
  <2>1. \A x, y \in Nat : x * y \in Nat
      OBVIOUS
  <2>2. \A x, y, z \in Nat : x <= y => x * z <= y * z /\ z * x <= z * y
      OBVIOUS
  <2>3. b \in Nat /\ m \in Nat
      BY <2>1
  <2>4. all <= b
    <3>1. 1 <= tf /\ 1 \in Nat /\ 1 * all = all
        OBVIOUS
    <3> QED BY <2>2, <3>1
  <2>5. b <= m
    <3> HIDE DEF b
    <3>1. 1 <= n /\ 1 \in Nat /\ 1 * b = b
        BY <2>3
    <3> QED BY <2>2, <2>3, <3>1
  <2>6. len * n <= m /\ len * n \in Nat
    <3>1. len <= b
      <4> HIDE DEF b
      <4> QED BY <1>a, <2>3, <2>4
    <3> HIDE DEF b
    <3>2. len * n <= b * n
        BY <2>2, <2>3, <3>1
    <3>3. b * n = n * b
        BY <2>3
    <3> QED BY <2>1, <3>2, <3>3
  <2>7. m <= idf * b /\ idf * b \in Nat
    <3> HIDE DEF b
    <3> QED BY <2>1, <2>2, <2>3
  <2>8. up = 22 * (idf * b)
      OBVIOUS
  <2>9. down = 10 * b + 3 * all + 9 * (len * n)
      OBVIOUS
  <2> HIDE DEF b, m, up, down
  <2> QED BY <2>3, <2>4, <2>5, <2>6, <2>7, <2>8, <2>9
<1>2. 1 \div 1 <= up \div down
  <2>1. /\ up \in Nat /\ down \in Nat /\ down > 0
      BY <1>b DEF Numerator, Denominator
  <2> HIDE DEF up, down, Numerator, Denominator
  <2>2. 1 * down <= up * 1
      BY <1>1, <2>1
  <2>3. 1 \in Nat /\ 1 > 0
      OBVIOUS
  <2> QED BY <2>1, <2>2, <2>3, Quotients
<1>3. 1 \div 1 = 1
    OBVIOUS
<1>4. up \div down \in Int
  <2>1. /\ up \in Nat /\ down \in Nat /\ down > 0
      BY <1>b DEF Numerator, Denominator
  <2> HIDE DEF up, down, Numerator, Denominator
  <2> QED BY <2>1
<1> HIDE DEF up, down, Numerator, Denominator
<1> QED BY <1>0, <1>2, <1>3, <1>4 DEF up, down, Numerator, Denominator

(***************************************************************************)
(* Lexical scores, of records with more of a query's terms and with none.  *)
(***************************************************************************)

\* The documents and the lengths of all, and how many have a token.
Collected == Cardinality(Documents)
Collection == Total([j \in Documents |-> Len(Tokens(j))])
Containing(t) == Cardinality({j \in Documents : t \in Range(Tokens(j))})

\* The terms of the query that a record has, and the score of one.
TermsOf(i) == Range(Tokenize(sel.query)) \cap Range(Tokens(i))
TermOf(i, t) ==
    TermScore(Idf(Collected, Containing(t)), Occurrences(t, Tokens(i)), Len(Tokens(i)),
              Collected, Collection)

\* What a token occurs in, it occurs in at least once.
LEMMA OccursIn ==
    ASSUME NEW E, NEW q \in Seq(E), NEW t
    PROVE  Occurrences(t, q) \in Nat /\ (t \in Range(q) <=> Occurrences(t, q) > 0)
<1> DEFINE S == {k \in DOMAIN q : q[k] = t}
<1>1. Occurrences(t, q) \in Nat /\ (t \notin Range(q) => Occurrences(t, q) = 0)
    BY OccurrencesTyped
<1>2. IsFiniteSet(S)
    BY RangeFinite, FS_Subset
<1>3. ASSUME t \in Range(q) PROVE S # {}
    BY <1>3 DEF Range
<1>4. Occurrences(t, q) = Cardinality(S)
    BY DEF Occurrences
<1> HIDE DEF S
<1>5. ASSUME t \in Range(q) PROVE Cardinality(S) # 0
    BY <1>2, <1>3, <1>5, FS_EmptySet
<1> QED BY <1>1, <1>4, <1>5

\* The counts of the documents.
LEMMA CollectionTyped ==
    ASSUME IsStore(store)
    PROVE  /\ IsFiniteSet(Documents) /\ Documents \in SUBSET DOMAIN Records
           /\ Collected \in Nat /\ Collected <= Len(Records) /\ Len(Records) \in Nat
           /\ Collection \in Nat
           /\ \A i \in Documents :
                 /\ Collected > 0 /\ Len(Tokens(i)) \in Nat /\ Len(Tokens(i)) <= Collection
                 /\ \A t \in Range(Tokens(i)) : Containing(t) \in 1 .. Collected
<1>1. /\ DOMAIN Records = 1 .. Len(Records) /\ Len(Records) \in Nat /\ IsFiniteSet(DOMAIN Records)
    BY StoreHolds
<1>2. Documents \in SUBSET DOMAIN Records
    BY MatchingTyped DEF Documents
<1>3. IsFiniteSet(Documents) /\ Collected <= Cardinality(DOMAIN Records) /\ Collected \in Nat
    BY <1>1, <1>2, FS_Subset, FS_CardinalityType DEF Collected
<1>4. Cardinality(DOMAIN Records) = Len(Records)
  <2> DEFINE n == Len(Records)
  <2>1. n \in Nat /\ DOMAIN Records = 1..n
      BY <1>1
  <2> HIDE DEF n
  <2>2. Cardinality(1..n) = n
      BY <2>1, FS_Interval
  <2> QED BY <2>1, <2>2 DEF n
<1>5. \A i \in Documents : Records[i].text # <<>>
    BY DEF Documents
<1>6. \A i \in Documents : Len(Tokens(i)) \in Nat
    BY <1>2, <1>5, TokensAre
<1> DEFINE f == [j \in Documents |-> Len(Tokens(j))]
<1>7. IsFiniteSet(DOMAIN f) /\ \A j \in DOMAIN f : f[j] \in Nat /\ f[j] \in Int
    BY <1>3, <1>6
<1>8. Collection = Total(f)
    BY DEF Collection
<1>9. Collection \in Nat /\ \A i \in DOMAIN f : f[i] <= Collection
  <2> HIDE DEF f
  <2> QED BY <1>7, <1>8, SumIsInt, PartOfSum
<1>10. ASSUME NEW i \in Documents, NEW t \in Range(Tokens(i)) PROVE Containing(t) \in 1 .. Collected
  <2> DEFINE S == {j \in Documents : t \in Range(Tokens(j))}
  <2>1. S \in SUBSET Documents /\ i \in S
      OBVIOUS
  <2>2. Containing(t) = Cardinality(S)
      BY DEF Containing
  <2> HIDE DEF S
  <2>3. IsFiniteSet(S) /\ Cardinality(S) <= Collected /\ Cardinality(S) \in Nat
      BY <1>3, <2>1, FS_Subset, FS_CardinalityType DEF Collected
  <2>4. Cardinality(S) # 0
      BY <2>1, <2>3, FS_EmptySet
  <2> QED BY <1>3, <2>2, <2>3, <2>4
<1>11. \A i \in Documents : Collected > 0
  <2> TAKE i \in Documents
  <2>1. Collected # 0
      BY <1>3, FS_EmptySet DEF Collected
  <2> QED BY <1>3, <2>1
<1> QED BY <1>1, <1>2, <1>3, <1>4, <1>6, <1>9, <1>10, <1>11

\* The score of a document is the sum of those of its terms, which are positive.
LEMMA RelevanceIs ==
    ASSUME Inputs, FineIdf(store), NEW i \in Documents
    PROVE  /\ Relevance(i) = Total([t \in TermsOf(i) |-> TermOf(i, t)])
           /\ IsFiniteSet(TermsOf(i))
           /\ \A t \in Range(Tokens(i)) : TermOf(i, t) \in Nat /\ TermOf(i, t) > 0
<1>0. IsStore(store) /\ Records = store.records
    BY DEF Inputs, Records
<1>1. Relevance(i) = Total([t \in TermsOf(i) |-> TermOf(i, t)])
    BY DEF Relevance, TermsOf, TermOf, Collected, Collection, Containing
<1>2. PICK E : Tokens(i) \in Seq(E)
    BY <1>0, CollectionTyped, TokensAre DEF Documents
<1>3. IsFiniteSet(TermsOf(i))
    BY <1>2, RangeFinite, FS_Intersection DEF TermsOf
<1>4. ASSUME NEW t \in Range(Tokens(i)) PROVE TermOf(i, t) \in Nat /\ TermOf(i, t) > 0
  <2> DEFINE idf == Idf(Collected, Containing(t))
             tf == Occurrences(t, Tokens(i))
             len == Len(Tokens(i))
  <2>1. tf \in Nat /\ tf > 0
      BY <1>2, OccursIn
  <2>2. /\ Collected \in Nat /\ Collected > 0 /\ Collected \in 1 .. Len(store.records)
        /\ Collection \in Nat /\ len \in Nat /\ len <= Collection
        /\ Containing(t) \in 1 .. Collected
      BY <1>0, CollectionTyped
  <2>3. idf \in Nat /\ Collected <= idf /\ idf \in Int
      BY <2>2 DEF FineIdf
  <2>4. TermOf(i, t) = TermScore(idf, tf, len, Collected, Collection)
      BY DEF TermOf
  <2> HIDE DEF idf, tf, len
  <2>5. TermScore(idf, tf, len, Collected, Collection) > 0
      BY <2>1, <2>2, <2>3, TermPositive
  <2>6. TermScore(idf, tf, len, Collected, Collection) \in Int
      BY <2>1, <2>2, <2>3, TermTyped
  <2> QED BY <2>4, <2>5, <2>6
<1> QED BY <1>1, <1>3, <1>4

\* The tokens of a record, none if it has no text.
WordsOf(i) == IF Records[i].text = <<>> THEN <<>> ELSE Tokens(i)

\* A record scores exactly if it has a term of the query.
LEMMA RelevantIfShared ==
    ASSUME Inputs, FineIdf(store), NEW i \in Matching
    PROVE  /\ Relevance(i) \in Nat
           /\ Relevance(i) > 0 <=> Range(Tokenize(sel.query)) \cap Range(WordsOf(i)) # {}
<1>1. CASE i \notin Documents
  <2>1. WordsOf(i) = <<>> /\ Range(WordsOf(i)) = {}
      BY <1>1 DEF Documents, WordsOf, Range
  <2>2. Relevance(i) = 0
      BY <1>1 DEF Relevance
  <2> QED BY <2>1, <2>2
<1>2. CASE i \in Documents
  <2> DEFINE f == [t \in TermsOf(i) |-> TermOf(i, t)]
  <2>1. /\ Relevance(i) = Total(f) /\ IsFiniteSet(TermsOf(i))
        /\ \A t \in Range(Tokens(i)) : TermOf(i, t) \in Nat /\ TermOf(i, t) > 0
      BY <1>2, RelevanceIs
  <2>2. WordsOf(i) = Tokens(i)
      BY <1>2 DEF Documents, WordsOf
  <2>3. DOMAIN f = TermsOf(i) /\ TermsOf(i) = Range(Tokenize(sel.query)) \cap Range(WordsOf(i))
      BY <2>2 DEF TermsOf
  <2>4. \A t \in DOMAIN f : f[t] \in Nat /\ f[t] \in Int /\ f[t] > 0
      BY <2>1 DEF TermsOf
  <2> HIDE DEF f
  <2>5. Total(f) \in Nat
      BY <2>1, <2>3, <2>4, SumIsInt
  <2>6. ASSUME NEW t \in DOMAIN f PROVE Total(f) > 0
    <3>1. f[t] <= Total(f)
        BY <2>1, <2>3, <2>4, PartOfSum
    <3> QED BY <2>4, <2>5, <3>1
  <2>7. DOMAIN f = {} => Total(f) = 0
      BY EmptySum
  <2> QED BY <2>1, <2>3, <2>5, <2>6, <2>7
<1> QED BY <1>1, <1>2

\* One with more of each term in no more tokens scores no less.
LEMMA RelevanceGrows ==
    ASSUME Inputs, FineIdf(store), NEW i \in Matching, NEW j \in Matching,
           \A t \in Range(Tokenize(sel.query)) :
              Occurrences(t, WordsOf(i)) >= Occurrences(t, WordsOf(j)),
           Len(WordsOf(i)) <= Len(WordsOf(j))
    PROVE  Relevance(i) >= Relevance(j)
<1>0. IsStore(store) /\ Records = store.records
    BY DEF Inputs, Records
<1>1. Relevance(i) \in Nat /\ Relevance(j) \in Nat
    BY RelevantIfShared
<1>2. CASE j \notin Documents
  <2>1. Relevance(j) = 0
      BY <1>2 DEF Relevance
  <2> QED BY <1>1, <2>1
<1>3. CASE j \in Documents /\ i \notin Documents
  <2>1. WordsOf(i) = <<>> /\ WordsOf(j) = Tokens(j)
      BY <1>3 DEF Documents, WordsOf
  <2>2. PICK E : Tokens(j) \in Seq(E)
      BY <1>0, <1>3, CollectionTyped, TokensAre DEF Documents
  <2>3. \A t : Occurrences(t, <<>>) = 0
    <3>1. <<>> \in Seq({}) /\ Range(<<>>) = {}
        BY DEF Range
    <3> QED BY <3>1, OccurrencesTyped
  <2>4. ASSUME NEW t \in Range(Tokenize(sel.query)) PROVE t \notin Range(WordsOf(j))
    <3>1. 0 >= Occurrences(t, Tokens(j))
        BY <2>1, <2>3
    <3> QED BY <2>1, <2>2, <3>1, OccursIn
  <2>5. ~ (Relevance(j) > 0)
      BY <2>4, RelevantIfShared
  <2> QED BY <1>1, <2>5
<1>4. CASE j \in Documents /\ i \in Documents
  <2> DEFINE f == [t \in TermsOf(i) |-> TermOf(i, t)]
             e == [t \in TermsOf(j) |-> TermOf(j, t)]
  <2>1. WordsOf(i) = Tokens(i) /\ WordsOf(j) = Tokens(j)
      BY <1>4 DEF Documents, WordsOf
  <2>2. PICK E : Tokens(i) \in Seq(E)
      BY <1>0, <1>4, CollectionTyped, TokensAre DEF Documents
  <2>3. PICK E2 : Tokens(j) \in Seq(E2)
      BY <1>0, <1>4, CollectionTyped, TokensAre DEF Documents
  <2>4. /\ Relevance(i) = Total(f) /\ IsFiniteSet(TermsOf(i))
        /\ \A t \in Range(Tokens(i)) : TermOf(i, t) \in Nat
        /\ Relevance(j) = Total(e)
        /\ \A t \in Range(Tokens(j)) : TermOf(j, t) \in Nat
      BY <1>4, RelevanceIs
  <2>5. ASSUME NEW t \in TermsOf(j)
        PROVE  t \in TermsOf(i) /\ TermOf(j, t) <= TermOf(i, t)
    <3>1. /\ t \in Range(Tokenize(sel.query)) /\ t \in Range(Tokens(j))
          /\ Occurrences(t, Tokens(j)) <= Occurrences(t, Tokens(i))
          /\ Occurrences(t, Tokens(j)) \in Nat /\ Occurrences(t, Tokens(i)) \in Nat
          /\ Occurrences(t, Tokens(j)) > 0
        BY <2>1, <2>2, <2>3, OccursIn DEF TermsOf
    <3>2. t \in TermsOf(i) /\ t \in Range(Tokens(i))
      <4>1. Occurrences(t, Tokens(i)) > 0
          BY <3>1
      <4> QED BY <2>2, <3>1, <4>1, OccursIn DEF TermsOf
    <3>3. /\ Collected \in Nat /\ Collected > 0 /\ Collected \in 1 .. Len(store.records)
          /\ Collection \in Nat /\ Len(Tokens(i)) \in Nat /\ Len(Tokens(j)) \in Nat
          /\ Containing(t) \in 1 .. Collected
        BY <1>0, <1>4, <3>1, CollectionTyped
    <3>4. Idf(Collected, Containing(t)) \in Nat
        BY <3>3 DEF FineIdf
    <3>5. Len(Tokens(i)) <= Len(Tokens(j))
        BY <2>1
    <3>6. TermScore(Idf(Collected, Containing(t)), Occurrences(t, Tokens(j)), Len(Tokens(j)),
                    Collected, Collection)
            <= TermScore(Idf(Collected, Containing(t)), Occurrences(t, Tokens(i)), Len(Tokens(i)),
                         Collected, Collection)
        BY <3>1, <3>3, <3>4, <3>5, TermDominates
    <3> QED BY <3>2, <3>6 DEF TermOf
  <2>6. DOMAIN f = TermsOf(i) /\ DOMAIN e = TermsOf(j) /\ DOMAIN e \in SUBSET DOMAIN f
      BY <2>5
  <2>7. \A t \in DOMAIN f : f[t] \in Nat
      BY <2>4 DEF TermsOf
  <2>8. \A t \in DOMAIN e : e[t] \in Int /\ e[t] <= f[t]
      BY <2>4, <2>5 DEF TermsOf
  <2> HIDE DEF f, e
  <2>9. Total(e) <= Total(f)
      BY <2>4, <2>6, <2>7, <2>8, SumDominates
  <2> QED BY <1>1, <2>4, <2>9
<1> QED BY <1>2, <1>3, <1>4

(***************************************************************************)
(* The stages up to the scores.                                            *)
(***************************************************************************)

\* What holds until the rows are scored.
ScoringInv ==
    /\ Inputs
    /\ pc \in {"index", "score"} => candidates = Ascending(Matching)
    /\ pc = "score" /\ sel.bm25 # <<>> => \A i \in Matching : Lexical(i) = Relevance(i)

\* The stores a query is asked of are those of the families.
LEMMA StoreGiven ==
    ASSUME Init
    PROVE  \E family \in Families : store \in family.stores /\ Inputs
BY StoresTyped, SelectsTyped DEF Init, Inputs

\* No stage changes the store or the query.
LEMMA InputsStay == ASSUME [Next]_vars PROVE store' = store /\ sel' = sel
BY DEF Next, Scan, CountRow, IndexTexts, ScoreRows, RefuseOrder, OrderRows, SkipRows, CapRows,
       Project, vars

LEMMA ScoringInit == ASSUME Init PROVE ScoringInv
<1>1. Inputs
    BY StoreGiven
<1>2. pc = "scan"
    BY DEF Init
<1> QED BY <1>1, <1>2 DEF ScoringInv

LEMMA ScoringNext == ASSUME ScoringInv, [Next]_vars PROVE ScoringInv'
<1>1. store' = store /\ sel' = sel
    BY InputsStay
<1>2. Matching' = Matching /\ (Inputs' <=> Inputs) /\ \A i : Relevance(i)' = Relevance(i)
    BY <1>1, InputsKept
<1>3. Inputs /\ Inputs' /\ IsStore(store)
    BY <1>2 DEF ScoringInv, Inputs
<1>4. CASE Scan
  <2>1. candidates' = Ascending(Matching)
      BY <1>4 DEF Scan, Matching
  <2>2. pc' = IF sel.count THEN "count" ELSE IF sel.bm25 # <<>> THEN "index" ELSE "score"
      BY <1>4 DEF Scan
  <2>3. pc' = "score" => sel.bm25 = <<>>
      BY <2>2
  <2> QED BY <1>1, <1>2, <1>3, <2>1, <2>3 DEF ScoringInv
<1>5. CASE IndexTexts
  <2>1. pc = "index" /\ candidates' = candidates /\ candidates = Ascending(Matching)
      BY <1>5 DEF IndexTexts, ScoringInv
  <2>2. bm25' = FoldLeft(LAMBDA index, i : IndexText(Records, index, i), EmptyIndex, candidates)
      BY <1>5 DEF IndexTexts
  <2>3. IsIndexOf(bm25', Matching)
      BY <1>3, <2>1, <2>2, IndexIsExact
  <2>4. ASSUME NEW i \in Matching PROVE Lexical(i)' = Relevance(i)
    <3>1. LexicalScore(bm25', i, Tokenize(sel.query)) = Relevance(i)
        BY <1>3, <2>3, LexicalIsRelevance
    <3>2. Lexical(i)' = LexicalScore(bm25', i, Tokenize(sel'.query))
        BY DEF Lexical
    <3> QED BY <1>1, <3>1, <3>2
  <2> QED BY <1>1, <1>2, <1>3, <2>1, <2>4 DEF ScoringInv
<1>6. CASE CountRow \/ ScoreRows \/ RefuseOrder \/ OrderRows \/ SkipRows \/ CapRows \/ Project
  <2>1. pc' \notin {"index", "score"}
      BY <1>6 DEF CountRow, ScoreRows, RefuseOrder, OrderRows, SkipRows, CapRows, Project
  <2> QED BY <1>3, <2>1 DEF ScoringInv
<1>7. CASE UNCHANGED vars
  <2>1. pc' = pc /\ candidates' = candidates /\ bm25' = bm25
      BY <1>7 DEF vars
  <2>2. \A i : Lexical(i)' = Lexical(i)
      BY <1>1, <2>1 DEF Lexical
  <2> QED BY <1>1, <1>2, <1>3, <2>1, <2>2 DEF ScoringInv
<1> QED BY <1>4, <1>5, <1>6, <1>7 DEF Next

\* The candidates that are scored are the matching records.
LEMMA CandidatesMatch ==
    ASSUME ScoringInv, pc = "score"
    PROVE  Range(candidates) = Matching
<1>1. candidates = Ascending(Matching) /\ Matching \in SUBSET Nat /\ IsFiniteSet(Matching)
    BY MatchingTyped DEF ScoringInv, Inputs
<1> DEFINE S == Matching
<1>2. candidates = Ascending(S) /\ S \in SUBSET Nat /\ IsFiniteSet(S)
    BY <1>1
<1> HIDE DEF S
<1> QED BY <1>2, AscendingIs DEF Range, S

(***************************************************************************)
(* Scores of votes.                                                        *)
(***************************************************************************)

\* Numbers that are apart by as much as they are divided by, rounded down, stay apart.
LEMMA QuotientsApart ==
    ASSUME NEW a \in Int, NEW b \in Int, NEW d \in Nat, d > 0
    PROVE  /\ a >= b + d => a \div d > b \div d
           /\ a <= b => a \div d <= b \div d
<1> DEFINE q == a \div d
           r == b \div d
<1>1. q \in Int /\ d * q <= a /\ a < d * q + d
    OBVIOUS
<1>2. r \in Int /\ d * r <= b /\ b < d * r + d
    OBVIOUS
<1> HIDE DEF q, r
<1>3. \A x, y \in Int : x <= y => d * x <= d * y
    OBVIOUS
<1>4. d * (q + 1) = d * q + d /\ d * (r + 1) = d * r + d
    BY <1>1, <1>2
<1>0. d * q \in Int /\ d * r \in Int
    BY <1>1, <1>2
<1>5. ASSUME a >= b + d, q <= r PROVE FALSE
  <2>1. d * q <= d * r
      BY <1>1, <1>2, <1>3, <1>5
  <2> QED BY <1>0, <1>1, <1>2, <1>5, <2>1
<1>6. ASSUME a <= b, r < q PROVE FALSE
  <2>1. d * (r + 1) <= d * q
      BY <1>1, <1>2, <1>3, <1>6
  <2> QED BY <1>0, <1>1, <1>2, <1>4, <1>6, <2>1
<1> QED BY <1>1, <1>2, <1>5, <1>6 DEF q, r

\* A vote with a value of one or minus one and no weight counts what its value says.
LEMMA PlainVote ==
    ASSUME NEW edge, edge.weight = <<>>, VoteValue(edge) # 0
    PROVE  VoteWeight(edge) = 2 * VoteValue(edge)
<1>1. edge.value # <<>> /\ IsNumber(edge.value[1]) /\ Halves(edge.value[1]) \in {-2, 2}
    BY DEF VoteValue
<1>2. VoteWeight(edge) = Halves(edge.value[1])
    BY <1>1 DEF VoteWeight
<1>3. VoteValue(edge) = Halves(edge.value[1]) \div 2
    BY <1>1 DEF VoteValue
<1> HIDE DEF Halves
<1> QED BY <1>1, <1>2, <1>3

\* The score of a record with such votes only.
LEMMA PlainScore ==
    ASSUME IsStore(store), NEW i,
           \A e \in VotesToward(i) : store.edges[e].weight = <<>> /\ VoteValue(store.edges[e]) # 0
    PROVE  ScoreOf(i) = (Unit * (2 * NetVotes(i) + 2)) \div (2 * (Cardinality(VotesToward(i)) + 2))
<1> DEFINE votes == VotesToward(i)
           f == [e \in votes |-> VoteValue(store.edges[e])]
           w == [e \in votes |-> VoteWeight(store.edges[e])]
<1>1. /\ IsFiniteSet(DOMAIN f) /\ DOMAIN w = DOMAIN f
      /\ \A e \in DOMAIN f : f[e] \in Int /\ w[e] = 2 * f[e]
    BY VotesTyped, PlainVote
<1>2. NetVotes(i) = Total(f)
    BY DEF NetVotes, Sum
<1>3. ScoreOf(i) = (Unit * (Total(w) + 2)) \div (2 * (Cardinality(votes) + 2))
    BY DEF ScoreOf, Sum
<1> HIDE DEF f, w, votes
<1>4. Total(w) = 2 * Total(f)
    BY <1>1, SumOfMultiples
<1> QED BY <1>2, <1>3, <1>4 DEF votes

\* The votes of a store, and the times they are from.
VotesCast == {d \in DOMAIN store.edges : store.edges[d].voted}
Ages == {store.edges[e].created : e \in VotesCast}

\* What a vote from a time counts.
Decayed(created) == Unit \div (1 + Max(Ages) - created)

\* It counts something.
LEMMA DecayedIs ==
    ASSUME IsStore(store), FineUnit(store), NEW e \in VotesCast
    PROVE  Decayed(store.edges[e].created) \in Nat /\ Decayed(store.edges[e].created) > 0
<1> DEFINE c == store.edges[e].created
           d == 1 + Max(Ages) - c
<1>1. Ages \in SUBSET Int /\ IsFiniteSet(Ages)
  <2> DEFINE f == [x \in DOMAIN store.edges |-> store.edges[x].created]
  <2>1. IsFiniteSet(VotesCast)
      BY StoreHolds, FS_Subset DEF VotesCast
  <2>2. Ages = {f[x] : x \in VotesCast}
      BY DEF Ages, VotesCast
  <2>3. IsFiniteSet({f[x] : x \in VotesCast})
    <3> HIDE DEF f
    <3> QED BY <2>1, Shared, F!ImageFinite
  <2>4. Ages \in SUBSET Int
      BY StoreHolds DEF Ages, VotesCast
  <2> HIDE DEF f
  <2> QED BY <2>2, <2>3, <2>4
<1>2. c \in Ages
    BY DEF Ages
<1>3. Max(Ages) \in Ages /\ Max(Ages) >= c
    BY <1>1, <1>2, Shared, F!MaxOf
<1>4. PICK x \in VotesCast : Max(Ages) = store.edges[x].created
    BY <1>3 DEF Ages
<1>5. store.edges[x] \in Range(store.edges) /\ store.edges[e] \in Range(store.edges)
    BY DEF VotesCast, Range
<1>6. Max(Ages) - c < Unit
    BY <1>4, <1>5 DEF FineUnit
<1>7. Max(Ages) \in Int /\ c \in Int /\ Unit \in Nat
    BY <1>1, <1>2, <1>3, UnitAssumption
<1>8. d \in Nat /\ d > 0 /\ d <= Unit
    BY <1>3, <1>6, <1>7
<1>9. Decayed(c) = Unit \div d
    BY DEF Decayed
<1> HIDE DEF c, d
<1>10. Unit \div d \in Nat /\ Unit \div d > 0
  <2>1. d * 1 <= Unit * 1 /\ 1 \in Nat /\ 1 > 0 /\ 1 * d <= Unit * 1
      BY <1>7, <1>8
  <2>2. 1 \div 1 <= Unit \div d
      BY <1>7, <1>8, <2>1, Quotients
  <2>3. Unit \div d \in Int /\ 1 \div 1 = 1
      BY <1>7, <1>8
  <2> QED BY <2>2, <2>3
<1> QED BY <1>9, <1>10 DEF c

\* The feedback score of a record whose votes are all from one time.
LEMMA FeedbackIs ==
    ASSUME IsStore(store), NEW i, NEW c, \A e \in VotesToward(i) : store.edges[e].created = c,
           Decayed(c) \in Nat
    PROVE  FeedbackScore(i) = Decayed(c) * NetVotes(i)
<1> DEFINE votes == VotesToward(i)
           f == [e \in votes |-> VoteValue(store.edges[e])]
           g == [e \in votes |-> VoteValue(store.edges[e]) * Decayed(store.edges[e].created)]
<1>1. /\ IsFiniteSet(DOMAIN f) /\ DOMAIN g = DOMAIN f
      /\ \A e \in DOMAIN f : f[e] \in Int /\ g[e] = f[e] * Decayed(c)
    BY VotesTyped
<1>2. NetVotes(i) = Total(f)
    BY DEF NetVotes, Sum
<1>3. FeedbackScore(i) = Total(g)
    BY DEF FeedbackScore, Sum, Decayed, Ages, VotesCast
<1>4. Decayed(c) \in Int
    OBVIOUS
<1> HIDE DEF f, g
<1>5. \A x, y \in Int : x * y = y * x
    OBVIOUS
<1>6. \A e \in DOMAIN f : g[e] = Decayed(c) * f[e]
    BY <1>1, <1>4, <1>5
<1>7. Total(g) = Decayed(c) * Total(f)
    BY <1>1, <1>4, <1>6, SumOfMultiples
<1> QED BY <1>2, <1>3, <1>7

\* Of two records with as many such votes, the one with more net votes scores more.
LEMMA ScoresAgree ==
    ASSUME IsStore(store), FineUnit(store), NEW i, NEW j,
           Cardinality(VotesToward(i)) = Cardinality(VotesToward(j)),
           \A e \in VotesToward(i) \cup VotesToward(j) :
              store.edges[e].weight = <<>> /\ VoteValue(store.edges[e]) # 0
    PROVE  ScoreOf(i) > ScoreOf(j) <=> NetVotes(i) > NetVotes(j)
<1> DEFINE n == Cardinality(VotesToward(i))
           a == NetVotes(i)
           b == NetVotes(j)
           x == Unit * (2 * a + 2)
           y == Unit * (2 * b + 2)
           d == 2 * (n + 2)
<1>1. ScoreOf(i) = x \div d /\ ScoreOf(j) = y \div d
    BY PlainScore
<1>2. n \in Nat /\ n <= Len(store.edges) /\ Len(store.edges) \in Nat
  <2> DEFINE m == Len(store.edges)
             S == VotesToward(i)
  <2>0. store.edges \in Seq(Range(store.edges))
      BY DEF IsStore
  <2>1. m \in Nat /\ DOMAIN store.edges = 1..m
      BY <2>0
  <2>2. S \in SUBSET (1..m)
      BY <2>1, VotesTyped
  <2>3. n = Cardinality(S)
      OBVIOUS
  <2> HIDE DEF m, S, n
  <2>4. IsFiniteSet(1..m) /\ Cardinality(1..m) = m
      BY <2>1, FS_Interval
  <2>5. n <= m /\ n \in Nat
      BY <2>2, <2>3, <2>4, FS_Subset, FS_CardinalityType
  <2> QED BY <2>1, <2>5 DEF m
<1>3. a \in Int /\ b \in Int /\ Unit \in Nat /\ Unit > 0
    BY VoteScoresTyped, UnitAssumption
<1>4. n + 2 <= Unit
    BY <1>2, <1>3 DEF FineUnit
<1> HIDE DEF n, a, b
<1>5. x \in Int /\ y \in Int /\ d \in Nat /\ d > 0 /\ d <= 2 * Unit
    BY <1>2, <1>3, <1>4
<1>6. x = Unit * (2 * a) + 2 * Unit /\ y = Unit * (2 * b) + 2 * Unit
    BY <1>3
<1>7. \A u, v \in Int : u <= v => Unit * u <= Unit * v
    BY <1>3
<1>8. CASE a > b
  <2>1. 2 * b + 2 <= 2 * a
      BY <1>3, <1>8
  <2>2. y <= Unit * (2 * a)
      BY <1>3, <1>7, <2>1
  <2>3. Unit * (2 * a) \in Int
      BY <1>3
  <2>4. x >= y + d
    <3> HIDE DEF x, y, d
    <3> QED BY <1>3, <1>5, <1>6, <2>2, <2>3
  <2>5. x \div d > y \div d
    <3> HIDE DEF x, y, d
    <3> QED BY <1>5, <2>4, QuotientsApart
  <2> QED BY <1>1, <1>8, <2>5 DEF a, b
<1>9. CASE ~ (a > b)
  <2>1. 2 * a + 2 <= 2 * b + 2
      BY <1>3, <1>9
  <2>2. x <= y
      BY <1>3, <1>7, <2>1
  <2>3. x \div d <= y \div d /\ x \div d \in Int /\ y \div d \in Int
    <3> HIDE DEF x, y, d
    <3> QED BY <1>5, <2>2, QuotientsApart
  <2> HIDE DEF x, y, d
  <2> QED BY <1>1, <1>9, <2>3 DEF a, b
<1> QED BY <1>8, <1>9

\* If all votes for both are from one time, so do their feedback scores.
LEMMA FeedbackAgrees ==
    ASSUME IsStore(store), FineUnit(store), NEW i, NEW j,
           \A e, d \in VotesToward(i) \cup VotesToward(j) :
              store.edges[e].created = store.edges[d].created
    PROVE  FeedbackScore(i) > FeedbackScore(j) <=> NetVotes(i) > NetVotes(j)
<1> DEFINE both == VotesToward(i) \cup VotesToward(j)
<1>0. NetVotes(i) \in Int /\ NetVotes(j) \in Int
    BY VoteScoresTyped
<1>1. CASE both = {}
  <2>1. \A k \in {i, j} : NetVotes(k) = 0 /\ FeedbackScore(k) = 0
    <3> TAKE k \in {i, j}
    <3>1. VotesToward(k) = {}
        BY <1>1
    <3> DEFINE f == [e \in VotesToward(k) |-> VoteValue(store.edges[e])]
               g == [e \in VotesToward(k) |-> VoteValue(store.edges[e]) * Decayed(store.edges[e].created)]
    <3>2. NetVotes(k) = Total(f) /\ DOMAIN f = {}
        BY <3>1 DEF NetVotes, Sum
    <3>3. FeedbackScore(k) = Total(g) /\ DOMAIN g = {}
        BY <3>1 DEF FeedbackScore, Sum, Decayed, Ages, VotesCast
    <3> HIDE DEF f, g
    <3> QED BY <3>2, <3>3, EmptySum
  <2> QED BY <2>1
<1>2. CASE both # {}
  <2>1. PICK e \in both : TRUE
      BY <1>2
  <2> DEFINE c == store.edges[e].created
             k == Decayed(c)
  <2>2. e \in VotesCast
      BY <2>1 DEF VotesToward, VotesCast
  <2>3. k \in Nat /\ k > 0
      BY <2>2, DecayedIs
  <2>4. \A x \in both : store.edges[x].created = c
      BY <2>1
  <2> HIDE DEF c
  <2>5. FeedbackScore(i) = k * NetVotes(i) /\ FeedbackScore(j) = k * NetVotes(j)
      BY <2>3, <2>4, FeedbackIs
  <2> HIDE DEF k
  <2>6. \A a, b \in Int : k * a > k * b <=> a > b
    <3>1. \A a, b \in Int : a <= b => k * a <= k * b
        BY <2>3
    <3>2. \A a, b \in Int : a < b => k * a < k * b
        BY <2>3
    <3>3. \A a, b \in Int : k * a \in Int /\ k * b \in Int
        BY <2>3
    <3> QED BY <3>1, <3>2, <3>3
  <2> QED BY <1>0, <2>5, <2>6
<1> QED BY <1>1, <1>2

(***************************************************************************)
(* The theorems.                                                           *)
(***************************************************************************)

\* What the records of every store hold.
StoresHold(scalars) ==
    \A family \in Families : \A s \in family.stores : \A rec \in Range(s.records) :
        Range(rec.body) \subseteq ValuesOver(scalars)[MaxDepth]

HoldsValues(scalars) == Values \cup {Null} \subseteq ValuesOver(scalars)[MaxDepth]

LEMMA StartsWithValues ==
    ASSUME NEW scalars, Null \in scalars, StoresHold(scalars), Init
    PROVE  HoldsValues(scalars)
<1> DEFINE V == ValuesOver(scalars)[MaxDepth]
<1>1. Null \in V
  <2>1. MaxDepth = 0 \/ (MaxDepth - 1 \in Nat /\ (MaxDepth - 1) + 1 = MaxDepth)
      BY MaxDepthAssumption
  <2>2. CASE MaxDepth = 0
      BY <2>2, ValuesOverIs
  <2>3. CASE MaxDepth - 1 \in Nat /\ (MaxDepth - 1) + 1 = MaxDepth
    <3>1. ValuesOver(scalars)[(MaxDepth - 1) + 1] = scalars \cup Containers(ValuesOver(scalars)[MaxDepth - 1])
        BY <2>3, ValuesOverIs
    <3> QED BY <2>3, <3>1
  <2> QED BY <2>1, <2>2, <2>3
<1> HIDE DEF V
<1>2. PICK family \in Families : store \in family.stores
    BY DEF Init
<1>3. \A rec \in Range(store.records) : Range(rec.body) \subseteq V
    BY <1>2 DEF StoresHold, V
<1>4. ASSUME NEW i \in DOMAIN Records PROVE Range(Body(i)) \subseteq V
  <2>1. Records[i] \in Range(store.records)
      BY DEF Records, Range
  <2> QED BY <1>3, <2>1 DEF Body
<1>5. Values \subseteq V
    BY <1>4 DEF Values
<1> QED BY <1>1, <1>5 DEF HoldsValues, V

\* No stage changes the store.
LEMMA KeepsValues ==
    ASSUME NEW scalars, HoldsValues(scalars), [Next]_vars
    PROVE  HoldsValues(scalars)'
<1>1. store' = store
    BY DEF Next, Scan, CountRow, IndexTexts, ScoreRows, RefuseOrder, OrderRows, SkipRows, CapRows,
           Project, vars
<1>2. Values' = Values
    BY <1>1 DEF Values, Records, Body
<1> QED BY <1>2 DEF HoldsValues

LEMMA StartsOrdered == ASSUME Init, StoresHold(Ordinary) PROVE ValuesOrdered
<1>1. Null \in Ordinary
    BY DEF Null, Ordinary, Scalars
<1>2. Values \cup {Null} \subseteq ValuesOver(Ordinary)[MaxDepth]
    BY <1>1, StartsWithValues DEF HoldsValues
<1>3. Ordered(CmpNested[MaxDepth], ValuesOver(Ordinary)[MaxDepth])
    BY MaxDepthAssumption, NestedOrdered
<1> QED BY <1>2, <1>3 DEF Ordered, ValuesOrdered, CmpTotal

\* Value::cmp_total: values, however deeply nested, are totally ordered, and equal
\* values are equal in the order, unless there is a NaN with its sign set in a value or
\* a zero with its sign set in a vector.
THEOREM OrderIsTotal ==
    ASSUME StoresHold(Plain)
    PROVE  Spec => []OrderTotal
<1>1. Init => HoldsValues(Plain)
  <2>1. Null \in Plain
      BY DEF Null, Plain, Ordinary, Scalars
  <2> QED BY <2>1, StartsWithValues
<1>2. HoldsValues(Plain) /\ [Next]_vars => HoldsValues(Plain)'
    BY KeepsValues
<1>3. HoldsValues(Plain) => OrderTotal
  <2> SUFFICES ASSUME HoldsValues(Plain) PROVE OrderTotal
      OBVIOUS
  <2>1. Values \cup {Null} \subseteq ValuesOver(Plain)[MaxDepth]
      BY DEF HoldsValues
  <2>2. ValuesOver(Plain)[MaxDepth] \subseteq ValuesOver(Ordinary)[MaxDepth]
    <3>1. Plain \subseteq Ordinary
        BY DEF Plain
    <3> QED BY <3>1, ValuesGrow, MaxDepthAssumption
  <2>3. Ordered(CmpNested[MaxDepth], ValuesOver(Ordinary)[MaxDepth])
      BY MaxDepthAssumption, NestedOrdered
  <2>4. \A x, y \in Values \cup {Null} : Same(x, y) => CmpTotal(x, y) = 0
      BY <2>1, MaxDepthAssumption, NestedSameIsEqual DEF Same, CmpTotal
  <2>5. \A x, y \in Values \cup {Null} :
           /\ CmpTotal(x, y) \in {-1, 0, 1} /\ CmpTotal(x, y) = -CmpTotal(y, x)
           /\ \A z \in Values \cup {Null} : CmpTotal(x, y) # 1 /\ CmpTotal(y, z) # 1 => CmpTotal(x, z) # 1
      BY <2>1, <2>2, <2>3 DEF Ordered, CmpTotal
  <2> QED BY <2>4, <2>5 DEF OrderTotal
<1> QED BY <1>1, <1>2, <1>3, PTL DEF Spec

\* run_select: for any store without a NaN that has its sign set and any query, in every
\* mode and every order, the page returned has exactly the matching records that offset
\* to offset + limit others come before, in their order, and COUNT(*) is the number of
\* them.
THEOREM PageIsExact ==
    ASSUME IdfTyped, StoresHold(Ordinary)
    PROVE  Spec => []PageExact
<1>1. Init => PipelineInv
    BY StartsOrdered, PipelineInit
<1>2. PipelineInv /\ [Next]_vars => PipelineInv'
    BY PipelineNext
<1>3. PipelineInv => PageExact
    BY PipelineShows
<1> QED BY <1>1, <1>2, <1>3, PTL DEF Spec

\* run_select and project_field: a row returned shows the score its record has in the
\* mode of the query, computed from the texts, the votes or the ranks and not from what
\* the stages pass on, and of the record's body the fields selected and no others.
THEOREM RowsAreShown ==
    ASSUME IdfTyped, StoresHold(Ordinary)
    PROVE  Spec => []RowsShown
<1>1. Init => PipelineInv
    BY StartsOrdered, PipelineInit
<1>2. PipelineInv /\ [Next]_vars => PipelineInv'
    BY PipelineNext
<1>3. PipelineInv => RowsShown
    BY PipelineShows
<1> QED BY <1>1, <1>2, <1>3, PTL DEF Spec

\* What a filter term over the sort key's field says of a record.
LEMMA TermsOfKey ==
    ASSUME NEW i, NEW v
    PROVE  LET has == "key" \in DOMAIN Body(i)
               x == Body(i)["key"]
           IN  /\ MatchesTerm(i, <<"eq", "key", v>>) <=> has /\ Same(x, v)
               /\ MatchesTerm(i, <<"ne", "key", v>>) <=> has /\ ~Same(x, v)
               /\ MatchesTerm(i, <<"lt", "key", v>>) <=> has /\ CmpTotal(x, v) = -1
               /\ MatchesTerm(i, <<"le", "key", v>>) <=> has /\ CmpTotal(x, v) # 1
               /\ MatchesTerm(i, <<"gt", "key", v>>) <=> has /\ CmpTotal(x, v) = 1
               /\ MatchesTerm(i, <<"ge", "key", v>>) <=> has /\ CmpTotal(x, v) # -1
               /\ MatchesTerm(i, <<"eq", "id", v>>) <=> v = Display(i)
               /\ MatchesTerm(i, <<"ne", "id", v>>) <=> v # Display(i)
BY DEF MatchesTerm, MatchesField, MatchesId, Compares

\* And one with two operands.
LEMMA TermsOfPair ==
    ASSUME NEW i, NEW v, NEW w
    PROVE  LET has == "key" \in DOMAIN Body(i)
               x == Body(i)["key"]
           IN  /\ MatchesTerm(i, <<"between", "key", <<v, w>>>>) <=>
                     has /\ CmpTotal(x, v) # -1 /\ CmpTotal(x, w) # 1
               /\ MatchesTerm(i, <<"in", "key", <<v, w>>>>) <=> has /\ (Same(x, v) \/ Same(x, w))
<1>1. DOMAIN <<v, w>> = {1, 2}
    OBVIOUS
<1>2. MatchesTerm(i, <<"between", "key", <<v, w>>>>) <=>
         /\ "key" \in DOMAIN Body(i)
         /\ CmpTotal(Body(i)["key"], v) # -1 /\ CmpTotal(Body(i)["key"], w) # 1
    BY DEF MatchesTerm, MatchesField, Compares
<1>3. MatchesTerm(i, <<"in", "key", <<v, w>>>>) <=>
         "key" \in DOMAIN Body(i) /\ \E j \in {1, 2} : Same(Body(i)["key"], <<v, w>>[j])
    BY <1>1 DEF MatchesTerm, MatchesField, Compares
<1> QED BY <1>2, <1>3

\* eval_filter: for a record that has the field, whatever the values and however they
\* compare, "=" and "!=" are complements, "<" and ">=", and "<=" and ">"; BETWEEN is
\* ">=" and "<=", IN is "=" of one; one that does not have it matches nothing.
THEOREM PredicatesArePartitioned == Spec => []PredicatesPartition
<1>1. PredicatesPartition
  <2> DEFINE Term(i, op, operand) == MatchesTerm(i, <<op, "key", operand>>)
             Named(i, op, v) == MatchesTerm(i, <<op, "id", v>>)
  <2>1. ASSUME NEW i, NEW v, NEW w
        PROVE  /\ Term(i, "eq", v) \/ Term(i, "ne", v) <=> "key" \in DOMAIN Body(i)
               /\ ~(Term(i, "eq", v) /\ Term(i, "ne", v))
               /\ Term(i, "le", v) \/ Term(i, "gt", v) <=> "key" \in DOMAIN Body(i)
               /\ Term(i, "lt", v) \/ Term(i, "ge", v) <=> "key" \in DOMAIN Body(i)
               /\ ~(Term(i, "le", v) /\ Term(i, "gt", v))
               /\ ~(Term(i, "lt", v) /\ Term(i, "ge", v))
               /\ Term(i, "between", <<v, w>>) <=> Term(i, "ge", v) /\ Term(i, "le", w)
               /\ Term(i, "in", <<v, w>>) <=> Term(i, "eq", v) \/ Term(i, "eq", w)
    <3> HIDE DEF Term
    <3> QED BY TermsOfKey, TermsOfPair DEF Term
  <2>2. ASSUME NEW i, NEW v PROVE Named(i, "eq", v) # Named(i, "ne", v)
    <3>1. Named(i, "eq", v) = (v = Display(i)) /\ Named(i, "ne", v) = (v # Display(i))
        BY DEF MatchesTerm, MatchesId
    <3> HIDE DEF Named
    <3> QED BY <3>1, Zenon
  <2>3. \A i \in DOMAIN Records, v \in Values :
            /\ Term(i, "eq", v) \/ Term(i, "ne", v) <=> "key" \in DOMAIN Body(i)
            /\ ~(Term(i, "eq", v) /\ Term(i, "ne", v))
            /\ Term(i, "le", v) \/ Term(i, "gt", v) <=> "key" \in DOMAIN Body(i)
            /\ Term(i, "lt", v) \/ Term(i, "ge", v) <=> "key" \in DOMAIN Body(i)
            /\ ~(Term(i, "le", v) /\ Term(i, "gt", v)) /\ ~(Term(i, "lt", v) /\ Term(i, "ge", v))
            /\ \A w \in Values :
                  /\ Term(i, "between", <<v, w>>) <=> Term(i, "ge", v) /\ Term(i, "le", w)
                  /\ Term(i, "in", <<v, w>>) <=> Term(i, "eq", v) \/ Term(i, "eq", w)
            /\ Named(i, "eq", v) # Named(i, "ne", v)
    <3> TAKE i \in DOMAIN Records, v \in Values
    <3> HIDE DEF Term, Named
    <3>1. /\ Term(i, "eq", v) \/ Term(i, "ne", v) <=> "key" \in DOMAIN Body(i)
          /\ ~(Term(i, "eq", v) /\ Term(i, "ne", v))
          /\ Term(i, "le", v) \/ Term(i, "gt", v) <=> "key" \in DOMAIN Body(i)
          /\ Term(i, "lt", v) \/ Term(i, "ge", v) <=> "key" \in DOMAIN Body(i)
          /\ ~(Term(i, "le", v) /\ Term(i, "gt", v)) /\ ~(Term(i, "lt", v) /\ Term(i, "ge", v))
        BY <2>1, ZenonT(30)
    <3>2. \A w \in Values :
             /\ Term(i, "between", <<v, w>>) <=> Term(i, "ge", v) /\ Term(i, "le", w)
             /\ Term(i, "in", <<v, w>>) <=> Term(i, "eq", v) \/ Term(i, "eq", w)
        BY <2>1, ZenonT(30)
    <3>3. Named(i, "eq", v) # Named(i, "ne", v)
        BY <2>2, Zenon
    <3> QED BY <3>1, <3>2, <3>3, ZenonT(30)
  <2> QED BY <2>3 DEF PredicatesPartition
<1> QED BY <1>1, PTL

\* score of bm25.rs: a record scores exactly when it shares a token with the query, and
\* one with each of its terms as often as another and no more tokens scores no less,
\* whatever the texts, as far as rounding the scores allows.
THEOREM LexicalIsMonotone ==
    ASSUME IdfFine
    PROVE  Spec => []LexicalMonotone
<1> DEFINE Inv == ScoringInv /\ FineIdf(store)
<1>1. Init => Inv
    BY ScoringInit, StoreGiven DEF IdfFine
<1>2. Inv /\ [Next]_vars => Inv'
  <2> SUFFICES ASSUME Inv, [Next]_vars PROVE Inv'
      OBVIOUS
  <2>1. ScoringInv'
      BY ScoringNext
  <2>2. FineIdf(store)'
    <3>1. store' = store
        BY InputsStay
    <3> QED BY <3>1 DEF FineIdf
  <2> QED BY <2>1, <2>2
<1>3. Inv => LexicalMonotone
  <2> SUFFICES ASSUME Inv, pc = "score", sel.bm25 # <<>> PROVE LexicalMonotone
      BY DEF LexicalMonotone
  <2>1. Range(candidates) = Matching /\ Inputs /\ FineIdf(store)
      BY CandidatesMatch DEF ScoringInv
  <2>2. \A i \in Matching : Lexical(i) = Relevance(i)
      BY DEF ScoringInv
  <2>3. \A i \in Matching :
           Lexical(i) > 0 <=> Range(Tokenize(sel.query)) \cap Range(WordsOf(i)) # {}
      BY <2>1, <2>2, RelevantIfShared
  <2>4. \A i, j \in Matching :
           /\ \A t \in Range(Tokenize(sel.query)) :
                 Occurrences(t, WordsOf(i)) >= Occurrences(t, WordsOf(j))
           /\ Len(WordsOf(i)) <= Len(WordsOf(j))
           => Lexical(i) >= Lexical(j)
      BY <2>1, <2>2, RelevanceGrows
  <2> QED BY <2>1, <2>3, <2>4 DEF LexicalMonotone, WordsOf
<1> QED BY <1>1, <1>2, <1>3, PTL DEF Spec

\* vote_score, net_votes and feedback_scores: three sums over the same votes, each with
\* another weight, order two records alike where their definitions coincide, whatever
\* the votes are, as far as rounding the scores allows.
THEOREM VotesDoAgree ==
    ASSUME UnitFine
    PROVE  Spec => []VotesAgree
<1> DEFINE Inv == Inputs /\ FineUnit(store)
<1>1. Init => Inv
    BY StoreGiven DEF UnitFine
<1>2. Inv /\ [Next]_vars => Inv'
  <2> SUFFICES ASSUME Inv, [Next]_vars PROVE Inv'
      OBVIOUS
  <2>1. store' = store /\ sel' = sel
      BY InputsStay
  <2> QED BY <2>1 DEF Inputs, FineUnit
<1>3. Inv => VotesAgree
  <2> SUFFICES ASSUME Inv, NEW i, NEW j,
                      Cardinality(VotesToward(i)) = Cardinality(VotesToward(j)),
                      \A edge \in {store.edges[e] : e \in VotesToward(i) \cup VotesToward(j)} :
                         edge.weight = <<>> /\ VoteValue(edge) # 0
               PROVE  /\ ScoreOf(i) > ScoreOf(j) <=> NetVotes(i) > NetVotes(j)
                      /\ (\A edge, other \in {store.edges[e] : e \in VotesToward(i) \cup VotesToward(j)} :
                             edge.created = other.created) =>
                            (FeedbackScore(i) > FeedbackScore(j) <=> NetVotes(i) > NetVotes(j))
      BY Zenon DEF VotesAgree
  <2>1. IsStore(store) /\ FineUnit(store)
      BY DEF Inputs
  <2>2. \A e \in VotesToward(i) \cup VotesToward(j) :
           store.edges[e].weight = <<>> /\ VoteValue(store.edges[e]) # 0
      OBVIOUS
  <2>3. ScoreOf(i) > ScoreOf(j) <=> NetVotes(i) > NetVotes(j)
      BY <2>1, <2>2, ScoresAgree
  <2>4. ASSUME \A edge, other \in {store.edges[e] : e \in VotesToward(i) \cup VotesToward(j)} :
                  edge.created = other.created
        PROVE  FeedbackScore(i) > FeedbackScore(j) <=> NetVotes(i) > NetVotes(j)
    <3>1. \A e, d \in VotesToward(i) \cup VotesToward(j) :
             store.edges[e].created = store.edges[d].created
        BY <2>4
    <3> QED BY <2>1, <3>1, FeedbackAgrees
  <2> QED BY <2>3, <2>4
<1> QED BY <1>1, <1>2, <1>3, PTL DEF Spec
==============================================================================
