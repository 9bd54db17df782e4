-------------------------------- MODULE Folding --------------------------------
(***************************************************************************)
(* What the proofs about several modules need: induction over the          *)
(* naturals, with the formula given as the set of those that satisfy it;   *)
(* the equations of a fold of any operator over a sequence, which a module *)
(* that folds its own takes by an INSTANCE with it; sums; and strict total *)
(* orders of finite sets.                                                  *)
(***************************************************************************)
EXTENDS Integers, Sequences, SequencesExt, Collections, FiniteSetTheorems, FunctionTheorems,
        WellFoundedInduction, TLAPS

\* The operator folded, with a parameter that stays the same.
CONSTANT Op(_, _, _)

Fold(p, base, q) == FoldLeft(LAMBDA folded, x : Op(p, folded, x), base, q)

(***************************************************************************)
(* Induction.                                                              *)
(***************************************************************************)

\* Every set of naturals that is not empty has a least element.
LEMMA LeastNat ==
    ASSUME NEW T, T \subseteq Nat, T # {}
    PROVE  \E n \in T : \A m \in T : n <= m
<1> DEFINE R == {ss \in Nat \X Nat : ss[1] < ss[2]}
<1>1. IsWellFoundedOn(R, Nat)
  BY NatLessThanWellFounded DEF OpToRel
<1>2. \A x, y \in Nat : <<y, x>> \in R <=> y < x
  OBVIOUS
<1> HIDE DEF R
<1>3. PICK x \in T : \A y \in T : <<y, x>> \notin R
  BY <1>1, WFMin
<1>4. ASSUME NEW y \in T PROVE x <= y
  <2>1. x \in Nat /\ y \in Nat
    OBVIOUS
  <2>2. ~ (y < x)
    BY <1>2, <1>3, <2>1, Zenon
  <2> QED BY <2>1, <2>2
<1> QED BY <1>4

\* A set with zero and with the successor of each of its naturals has them all.
LEMMA Induction ==
    ASSUME NEW S, 0 \in S, \A n \in Nat : n \in S => n + 1 \in S
    PROVE  \A n \in Nat : n \in S
<1> SUFFICES ASSUME Nat \ S # {} PROVE FALSE
  OBVIOUS
<1>1. PICK n \in Nat \ S : \A m \in Nat \ S : n <= m
  BY LeastNat
<1>2. n # 0 /\ n - 1 \in Nat /\ n - 1 \in S
  BY <1>1
<1> QED BY <1>2

(***************************************************************************)
(* The function a fold over 1..n computes.                                 *)
(***************************************************************************)

IsIter(p, g, n, base, q) ==
    g = [s \in SUBSET (1..n) |-> IF s = {} THEN base ELSE Op(p, g[s \ {Max(s)}], q[Max(s)])]

\* The largest element of a set of numbers up to n.
LEMMA MaxIs ==
    ASSUME NEW s, NEW n \in Int, s \subseteq Int, n \in s, \A m \in s : m <= n
    PROVE  Max(s) = n
<1>1. Max(s) \in s /\ \A m \in s : Max(s) >= m
  <2>1. \E x \in s : \A m \in s : x >= m
    OBVIOUS
  <2> QED BY <2>1, Zenon DEF Max
<1>2. Max(s) \in Int /\ Max(s) <= n /\ Max(s) >= n
  BY <1>1
<1> QED BY <1>2

\* The numbers up to n + 1.
LEMMA Upto ==
    ASSUME NEW n \in Nat
    PROVE  /\ (1..(n + 1)) \ {n + 1} = 1..n /\ n + 1 \in 1..(n + 1)
           /\ Max(1..(n + 1)) = n + 1
<1>1. n + 1 \in 1..(n + 1) /\ 1..(n + 1) \subseteq Int /\ \A m \in 1..(n + 1) : m <= n + 1
  OBVIOUS
<1>2. ASSUME NEW m \in (1..(n + 1)) \ {n + 1} PROVE m \in 1..n
  OBVIOUS
<1>3. ASSUME NEW m \in 1..n PROVE m \in (1..(n + 1)) \ {n + 1}
  OBVIOUS
<1>4. Max(1..(n + 1)) = n + 1
  BY <1>1, MaxIs
<1> QED BY <1>1, <1>2, <1>3, <1>4

\* The maximum of a set of positive numbers is one of them.
LEMMA MaxIn ==
    ASSUME NEW n \in Nat
    PROVE  \A s \in SUBSET (1..n) : s # {} => Max(s) \in s
<1> DEFINE good == {k \in Nat : \A s \in SUBSET (1..k) : s # {} => Max(s) \in s}
<1>1. 0 \in good
  <2>1. 1..0 = {}
    OBVIOUS
  <2> QED BY <2>1
<1>2. ASSUME NEW k \in Nat, k \in good PROVE k + 1 \in good
  <2>1. ASSUME NEW s \in SUBSET (1..(k + 1)), s # {} PROVE Max(s) \in s
    <3>1. CASE k + 1 \in s
      <4>1. s \subseteq Int /\ \A m \in s : m <= k + 1
        OBVIOUS
      <4>2. Max(s) = k + 1
        BY <3>1, <4>1, MaxIs
      <4> QED BY <3>1, <4>2
    <3>2. CASE k + 1 \notin s
      <4>1. s \in SUBSET (1..k)
        BY <3>2
      <4> QED BY <4>1, <2>1, <1>2
    <3> QED BY <3>1, <3>2
  <2> QED BY <2>1
<1> HIDE DEF good
<1>3. n \in good
  BY <1>1, <1>2, Induction
<1> QED BY <1>3 DEF good

\* The function a fold is defined by exists, for as many elements as there are.
LEMMA IterExists ==
    ASSUME NEW n \in Nat, NEW p, NEW base, NEW q
    PROVE  \E g : IsIter(p, g, n, base, q)
<1> DEFINE good == {k \in Nat : \E g : IsIter(p, g, k, base, q)}
<1>1. 0 \in good
  <2> DEFINE g == [s \in SUBSET (1..0) |-> base]
  <2>1. IsIter(p, g, 0, base, q)
    BY DEF IsIter
  <2> QED BY <2>1
<1>2. ASSUME NEW k \in Nat, k \in good PROVE k + 1 \in good
  <2>1. PICK g : IsIter(p, g, k, base, q)
    BY <1>2
  <2> DEFINE step == [s \in SUBSET (1..(k + 1)) |->
                         IF k + 1 \in s THEN Op(p, g[s \ {k + 1}], q[k + 1]) ELSE g[s]]
  <2>2. ASSUME NEW s \in SUBSET (1..(k + 1))
        PROVE  step[s] = IF s = {} THEN base ELSE Op(p, step[s \ {Max(s)}], q[Max(s)])
    <3>1. CASE k + 1 \in s
      <4>0. s \subseteq Int /\ \A m \in s : m <= k + 1
        OBVIOUS
      <4>1. Max(s) = k + 1
        BY <3>1, <4>0, MaxIs
      <4>2. s \ {k + 1} \in SUBSET (1..(k + 1)) /\ k + 1 \notin s \ {k + 1} /\ s # {}
        BY <3>1
      <4> QED BY <3>1, <4>1, <4>2
    <3>2. CASE k + 1 \notin s
      <4>1. s \in SUBSET (1..k)
        BY <3>2
      <4>2. g[s] = IF s = {} THEN base ELSE Op(p, g[s \ {Max(s)}], q[Max(s)])
        BY <2>1, <4>1 DEF IsIter
      <4>3. step[s] = g[s]
        BY <3>2
      <4>4. step[s \ {Max(s)}] = g[s \ {Max(s)}]
        BY <3>2
      <4> QED BY <4>2, <4>3, <4>4
    <3> QED BY <3>1, <3>2
  <2>3. IsIter(p, step, k + 1, base, q)
    BY <2>2 DEF IsIter
  <2> QED BY <2>3
<1> HIDE DEF good
<1>3. n \in good
  BY <1>1, <1>2, Induction
<1> QED BY <1>3 DEF good

\* One more element.
LEMMA IterStep ==
    ASSUME NEW n \in Nat, NEW k \in Nat, k + 1 <= n, NEW p, NEW base, NEW q,
           NEW g, IsIter(p, g, n, base, q)
    PROVE  g[1..(k + 1)] = Op(p, g[1..k], q[k + 1])
<1> DEFINE s == 1..(k + 1)
<1>1. Max(s) = k + 1 /\ s \ {k + 1} = 1..k /\ k + 1 \in s
  BY Upto
<1>2. s \in SUBSET (1..n)
  OBVIOUS
<1> HIDE DEF s
<1>3. g[s] = Op(p, g[s \ {Max(s)}], q[Max(s)])
  BY <1>1, <1>2 DEF IsIter
<1> QED BY <1>1, <1>3 DEF s

\* Two such functions agree as far as their sequences do.
LEMMA IterAgree ==
    ASSUME NEW n \in Nat, NEW m \in Nat, n <= m, NEW p, NEW base, NEW q, NEW r,
           \A i \in 1..n : q[i] = r[i],
           NEW g, IsIter(p, g, n, base, q), NEW h, IsIter(p, h, m, base, r)
    PROVE  g[1..n] = h[1..n]
<1> DEFINE good == {k \in Nat : k <= n => g[1..k] = h[1..k]}
<1>1. 0 \in good
  <2>1. 1..0 = {} /\ {} \in SUBSET (1..n) /\ {} \in SUBSET (1..m)
    OBVIOUS
  <2>2. g[{}] = base /\ h[{}] = base
    BY <2>1 DEF IsIter
  <2> QED BY <2>1, <2>2
<1>2. ASSUME NEW k \in Nat, k \in good PROVE k + 1 \in good
  <2> SUFFICES ASSUME k + 1 <= n PROVE g[1..(k + 1)] = h[1..(k + 1)]
    OBVIOUS
  <2>1. g[1..(k + 1)] = Op(p, g[1..k], q[k + 1])
    BY IterStep
  <2>2. h[1..(k + 1)] = Op(p, h[1..k], r[k + 1])
    BY IterStep
  <2> QED BY <1>2, <2>1, <2>2
<1> HIDE DEF good
<1>3. n \in good
  BY <1>1, <1>2, Induction
<1> QED BY <1>3 DEF good

\* A fold is the value of that function at all positions.
LEMMA FoldIsIter ==
    ASSUME NEW S, NEW q \in Seq(S), NEW p, NEW base
    PROVE  \E g : IsIter(p, g, Len(q), base, q) /\ Fold(p, base, q) = g[1..Len(q)]
<1> DEFINE g == CHOOSE g : IsIter(p, g, Len(q), base, q)
<1>1. DOMAIN q = 1..Len(q) /\ Len(q) \in Nat
  OBVIOUS
<1>2. IsIter(p, g, Len(q), base, q)
  BY <1>1, IterExists
<1>3. Fold(p, base, q) = g[1..Len(q)]
  BY <1>1 DEF Fold, FoldLeft, MapThenFoldSet, IsIter
<1> QED BY <1>2, <1>3

(***************************************************************************)
(* The equations.                                                          *)
(***************************************************************************)

\* Nothing to fold.
LEMMA FoldEmpty == \A p, base : Fold(p, base, <<>>) = base
<1> TAKE p, base
<1>0. <<>> \in Seq({}) /\ 1..Len(<<>>) = {}
  OBVIOUS
<1>1. PICK g : IsIter(p, g, Len(<<>>), base, <<>>) /\ Fold(p, base, <<>>) = g[1..Len(<<>>)]
  BY <1>0, FoldIsIter
<1> QED BY <1>0, <1>1 DEF IsIter

\* The last element is folded last.
THEOREM FoldAppend ==
    ASSUME NEW S, NEW q \in Seq(S), NEW x \in S, NEW p, NEW base
    PROVE  Fold(p, base, Append(q, x)) = Op(p, Fold(p, base, q), x)
<1> DEFINE r == Append(q, x)
           n == Len(q)
<1>1. r \in Seq(S) /\ Len(r) = n + 1 /\ n \in Nat /\ r[n + 1] = x
  OBVIOUS
<1>2. \A i \in 1..n : q[i] = r[i]
  OBVIOUS
<1> HIDE DEF r
<1>3. PICK g : IsIter(p, g, n, base, q) /\ Fold(p, base, q) = g[1..n]
  BY FoldIsIter
<1>4. PICK h : IsIter(p, h, n + 1, base, r) /\ Fold(p, base, r) = h[1..(n + 1)]
  BY <1>1, FoldIsIter
<1>5. g[1..n] = h[1..n]
  BY <1>1, <1>2, <1>3, <1>4, IterAgree
<1>6. h[1..(n + 1)] = Op(p, h[1..n], r[n + 1])
  BY <1>1, <1>4, IterStep
<1> QED BY <1>1, <1>3, <1>4, <1>5, <1>6 DEF r

\* The prefixes of a sequence, for an induction along it.
LEMMA PrefixesGrow ==
    ASSUME NEW S, NEW q \in Seq(S)
    PROVE  /\ SubSeq(q, 1, 0) = <<>> /\ SubSeq(q, 1, Len(q)) = q
           /\ \A n \in 0..Len(q) : SubSeq(q, 1, n) \in Seq(S) /\ Len(SubSeq(q, 1, n)) = n
           /\ \A n \in Nat : n + 1 <= Len(q) =>
                 SubSeq(q, 1, n + 1) = Append(SubSeq(q, 1, n), q[n + 1]) /\ q[n + 1] \in S
<1>1. SubSeq(q, 1, 0) = <<>> /\ SubSeq(q, 1, Len(q)) = q
  OBVIOUS
<1>2. \A n \in 0..Len(q) : SubSeq(q, 1, n) \in Seq(S) /\ Len(SubSeq(q, 1, n)) = n
  OBVIOUS
<1>3. ASSUME NEW n \in Nat, n + 1 <= Len(q)
      PROVE  SubSeq(q, 1, n + 1) = Append(SubSeq(q, 1, n), q[n + 1]) /\ q[n + 1] \in S
  <2>1. n \in 0..Len(q) /\ n + 1 \in 0..Len(q) /\ q[n + 1] \in S
    <3>1. Len(q) \in Nat
      OBVIOUS
    <3>2. n \in 0..Len(q) /\ n + 1 \in 0..Len(q) /\ n + 1 \in 1..Len(q)
      BY <1>3, <3>1
    <3> QED BY <3>2
  <2>2. SubSeq(q, 1, n + 1) = Append(SubSeq(q, 1, n), q[n + 1])
    BY <2>1
  <2> QED BY <2>1, <2>2
<1> QED BY <1>1, <1>2, <1>3

\* Induction along a sequence: a set of sequences over E that holds the empty
\* one and each of its own with one element more holds them all.
LEMMA SeqInduction ==
    ASSUME NEW E, NEW S, <<>> \in S, \A r \in S : \A x \in E : Append(r, x) \in S
    PROVE  Seq(E) \subseteq S
<1> SUFFICES ASSUME NEW q \in Seq(E) PROVE q \in S
  OBVIOUS
<1> DEFINE good == {n \in Nat : n <= Len(q) => SubSeq(q, 1, n) \in S}
<1>1. 0 \in good
  BY PrefixesGrow
<1>2. ASSUME NEW n \in Nat, n \in good PROVE n + 1 \in good
  <2> SUFFICES ASSUME n + 1 <= Len(q) PROVE SubSeq(q, 1, n + 1) \in S
    OBVIOUS
  <2>1. SubSeq(q, 1, n + 1) = Append(SubSeq(q, 1, n), q[n + 1]) /\ q[n + 1] \in E
    BY PrefixesGrow
  <2>2. SubSeq(q, 1, n) \in S
    BY <1>2
  <2> QED BY <2>1, <2>2
<1> HIDE DEF good
<1>3. Len(q) \in Nat /\ Len(q) \in good
  BY <1>1, <1>2, Induction
<1>4. SubSeq(q, 1, Len(q)) \in S
  BY <1>3 DEF good
<1> QED BY <1>4, PrefixesGrow

(***************************************************************************)
(* A function on the naturals given by its value at zero and by each value *)
(* from the one before it.                                                 *)
(***************************************************************************)

\* As far as n.
IsUpto(p, base, n, g) ==
    g = [i \in 0..n |-> IF i = 0 THEN base ELSE Op(p, g[i - 1], i)]

\* One exists, however far.
LEMMA UptoExists ==
    ASSUME NEW n \in Nat, NEW p, NEW base
    PROVE  \E g : IsUpto(p, base, n, g)
<1> DEFINE good == {k \in Nat : \E g : IsUpto(p, base, k, g)}
<1>1. 0 \in good
  <2> DEFINE g == [i \in 0..0 |-> base]
  <2>1. \A i \in 0..0 : i = 0
    OBVIOUS
  <2>2. g = [i \in 0..0 |-> IF i = 0 THEN base ELSE Op(p, g[i - 1], i)]
    BY <2>1
  <2>3. IsUpto(p, base, 0, g)
    BY <2>2 DEF IsUpto
  <2> QED BY <2>3
<1>2. ASSUME NEW k \in Nat, k \in good PROVE k + 1 \in good
  <2>1. PICK g : IsUpto(p, base, k, g)
    BY <1>2
  <2> DEFINE h == [i \in 0..(k + 1) |-> IF i = k + 1 THEN Op(p, g[k], k + 1) ELSE g[i]]
  <2>2. ASSUME NEW i \in 0..(k + 1) PROVE h[i] = IF i = 0 THEN base ELSE Op(p, h[i - 1], i)
    <3>1. CASE i = k + 1
      <4>1. i # 0 /\ i - 1 = k /\ k \in 0..(k + 1) /\ k # k + 1
        BY <3>1
      <4>2. h[i] = Op(p, g[k], k + 1) /\ h[k] = g[k]
        BY <3>1, <4>1
      <4> QED BY <3>1, <4>1, <4>2
    <3>2. CASE i # k + 1
      <4>1. i \in 0..k /\ (i # 0 => i - 1 \in 0..(k + 1) /\ i - 1 # k + 1)
        BY <3>2
      <4>2. g[i] = IF i = 0 THEN base ELSE Op(p, g[i - 1], i)
        BY <2>1, <4>1 DEF IsUpto
      <4>3. h[i] = g[i] /\ (i # 0 => h[i - 1] = g[i - 1])
        BY <3>2, <4>1
      <4> QED BY <4>2, <4>3
    <3> QED BY <3>1, <3>2
  <2>3. IsUpto(p, base, k + 1, h)
    BY <2>2 DEF IsUpto
  <2> QED BY <2>3
<1> HIDE DEF good
<1>3. n \in good
  BY <1>1, <1>2, Induction
<1> QED BY <1>3 DEF good

\* Two of them agree as far as both go.
LEMMA UptoAgree ==
    ASSUME NEW n \in Nat, NEW m \in Nat, n <= m, NEW p, NEW base,
           NEW g, IsUpto(p, base, n, g), NEW h, IsUpto(p, base, m, h)
    PROVE  g[n] = h[n]
<1> DEFINE good == {k \in Nat : k <= n => g[k] = h[k]}
<1>1. 0 \in good
  BY DEF IsUpto
<1>2. ASSUME NEW k \in Nat, k \in good PROVE k + 1 \in good
  <2> SUFFICES ASSUME k + 1 <= n PROVE g[k + 1] = h[k + 1]
    OBVIOUS
  <2>1. k + 1 \in 0..n /\ k + 1 \in 0..m /\ k + 1 # 0 /\ (k + 1) - 1 = k
    OBVIOUS
  <2>2. g[k + 1] = Op(p, g[k], k + 1)
    BY <2>1 DEF IsUpto
  <2>3. h[k + 1] = Op(p, h[k], k + 1)
    BY <2>1 DEF IsUpto
  <2> QED BY <1>2, <2>2, <2>3
<1> HIDE DEF good
<1>3. n \in good
  BY <1>1, <1>2, Induction
<1> QED BY <1>3 DEF good

\* All the way.
IsStepwise(p, base, f) ==
    f = [n \in Nat |-> IF n = 0 THEN base ELSE Op(p, f[n - 1], n)]

\* So a function defined this way exists.
LEMMA StepwiseExists ==
    ASSUME NEW p, NEW base
    PROVE  \E f : IsStepwise(p, base, f)
<1> DEFINE g(n) == CHOOSE g : IsUpto(p, base, n, g)
           f == [n \in Nat |-> g(n)[n]]
<1>1. \A n \in Nat : IsUpto(p, base, n, g(n))
  BY UptoExists
<1> HIDE DEF g
<1>2. ASSUME NEW n \in Nat PROVE f[n] = IF n = 0 THEN base ELSE Op(p, f[n - 1], n)
  <2>1. n \in 0..n /\ IsUpto(p, base, n, g(n))
    BY <1>1
  <2>2. g(n)[n] = IF n = 0 THEN base ELSE Op(p, g(n)[n - 1], n)
    BY <2>1 DEF IsUpto
  <2>3. ASSUME n # 0 PROVE g(n - 1)[n - 1] = g(n)[n - 1] /\ f[n - 1] = g(n - 1)[n - 1]
    <3>1. n - 1 \in Nat /\ n - 1 <= n /\ IsUpto(p, base, n - 1, g(n - 1))
      BY <1>1, <2>3
    <3> QED BY <2>1, <3>1, UptoAgree
  <2> QED BY <2>2, <2>3
<1>3. f = [n \in Nat |-> IF n = 0 THEN base ELSE Op(p, f[n - 1], n)]
  BY <1>2
<1> QED BY <1>3 DEF IsStepwise

(***************************************************************************)
(* Sums of what a function with a finite domain maps to.                   *)
(***************************************************************************)

\* Which element a sum takes out of a set next.
Next1(s) == CHOOSE x \in s : TRUE

\* The sums of f over the subsets of D.
IsSums(f, D, g) ==
    g = [s \in SUBSET D |-> IF s = {} THEN 0 ELSE f[Next1(s)] + g[s \ {Next1(s)}]]

\* As long as a subset has at most n elements.
SumsUpto(f, D, g, n) ==
    /\ g \in [SUBSET D -> Int]
    /\ \A s \in SUBSET D : Cardinality(s) <= n =>
          g[s] = IF s = {} THEN 0 ELSE f[Next1(s)] + g[s \ {Next1(s)}]

\* An element less.
LEMMA OneLess ==
    ASSUME NEW s, IsFiniteSet(s), s # {}
    PROVE  /\ Next1(s) \in s
           /\ \A x \in s : /\ IsFiniteSet(s \ {x}) /\ Cardinality(s) \in Nat
                           /\ Cardinality(s \ {x}) = Cardinality(s) - 1
                           /\ Cardinality(s) > 0 /\ Cardinality(s \ {x}) \in Nat
<1>1. Next1(s) \in s
    BY DEF Next1
<1>2. ASSUME NEW x \in s
      PROVE  /\ IsFiniteSet(s \ {x}) /\ Cardinality(s) \in Nat
             /\ Cardinality(s \ {x}) = Cardinality(s) - 1
             /\ Cardinality(s) > 0 /\ Cardinality(s \ {x}) \in Nat
  <2>1. IsFiniteSet(s \ {x}) /\ Cardinality(s \ {x}) = Cardinality(s) - 1
      BY FS_RemoveElement
  <2>2. Cardinality(s) \in Nat /\ Cardinality(s \ {x}) \in Nat
      BY <2>1, FS_CardinalityType
  <2> QED BY <2>1, <2>2
<1> QED BY <1>1, <1>2

\* The sums exist.
LEMMA SumsExist ==
    ASSUME NEW D, IsFiniteSet(D), NEW f, \A x \in D : f[x] \in Int
    PROVE  \E g \in [SUBSET D -> Int] : IsSums(f, D, g)
<1> DEFINE good == {n \in Nat : \E g : SumsUpto(f, D, g, n)}
<1>0. \A s \in SUBSET D : IsFiniteSet(s) /\ Cardinality(s) \in Nat /\ Cardinality(s) <= Cardinality(D)
    BY FS_Subset, FS_CardinalityType
<1>1. 0 \in good
  <2> DEFINE g == [s \in SUBSET D |-> 0]
  <2>1. ASSUME NEW s \in SUBSET D, Cardinality(s) <= 0 PROVE s = {}
    <3>1. Cardinality(s) = 0
        BY <1>0, <2>1
    <3> QED BY <1>0, <3>1, FS_EmptySet
  <2>2. SumsUpto(f, D, g, 0)
      BY <2>1 DEF SumsUpto
  <2> QED BY <2>2
<1>2. ASSUME NEW n \in Nat, n \in good PROVE n + 1 \in good
  <2>1. PICK g : SumsUpto(f, D, g, n)
      BY <1>2
  <2> DEFINE h == [s \in SUBSET D |->
                      IF s = {} THEN 0
                      ELSE IF Cardinality(s) = n + 1 THEN f[Next1(s)] + g[s \ {Next1(s)}] ELSE g[s]]
  <2>2. ASSUME NEW s \in SUBSET D, s # {}
        PROVE  /\ Next1(s) \in D /\ s \ {Next1(s)} \in SUBSET D
               /\ Cardinality(s \ {Next1(s)}) = Cardinality(s) - 1
      BY <1>0, <2>2, OneLess
  <2>3. h \in [SUBSET D -> Int]
    <3>1. ASSUME NEW s \in SUBSET D
          PROVE  (IF s = {} THEN 0 ELSE IF Cardinality(s) = n + 1
                  THEN f[Next1(s)] + g[s \ {Next1(s)}] ELSE g[s]) \in Int
        BY <2>1, <2>2 DEF SumsUpto
    <3> QED BY <3>1
  <2>4. ASSUME NEW s \in SUBSET D, Cardinality(s) <= n + 1, s # {}
        PROVE  h[s] = f[Next1(s)] + h[s \ {Next1(s)}]
    <3> DEFINE t == s \ {Next1(s)}
    <3>1. t \in SUBSET D /\ Cardinality(t) = Cardinality(s) - 1
        BY <2>2, <2>4
    <3>2. Cardinality(t) # n + 1 /\ Cardinality(t) <= n
        BY <1>0, <2>4, <3>1
    <3>3. h[t] = g[t]
      <4>1. CASE t = {}
        <5>1. Cardinality({}) = 0
            BY FS_EmptySet
        <5>2. g[{}] = 0
            BY <2>1, <5>1 DEF SumsUpto
        <5> QED BY <3>1, <4>1, <5>2
      <4>2. CASE t # {}
        <5> HIDE DEF t
        <5> QED BY <3>1, <3>2, <4>2
      <4> QED BY <4>1, <4>2
    <3>4. CASE Cardinality(s) = n + 1
      <4>1. h[s] = f[Next1(s)] + g[t]
          BY <2>4, <3>4
      <4> QED BY <3>3, <4>1
    <3>5. CASE Cardinality(s) # n + 1
      <4>1. h[s] = g[s] /\ Cardinality(s) <= n
          BY <1>0, <2>4, <3>5
      <4>2. g[s] = f[Next1(s)] + g[t]
          BY <2>1, <2>4, <4>1 DEF SumsUpto
      <4> QED BY <3>3, <4>1, <4>2
    <3> QED BY <3>4, <3>5
  <2>5. SumsUpto(f, D, h, n + 1)
    <3>1. h[{}] = 0
        OBVIOUS
    <3> HIDE DEF h
    <3> QED BY <2>3, <2>4, <3>1 DEF SumsUpto
  <2> QED BY <2>5
<1> HIDE DEF good
<1>3. Cardinality(D) \in good
    BY <1>0, <1>1, <1>2, Induction
<1>4. PICK g : SumsUpto(f, D, g, Cardinality(D))
    BY <1>3 DEF good
<1>5. \A s \in SUBSET D : g[s] = IF s = {} THEN 0 ELSE f[Next1(s)] + g[s \ {Next1(s)}]
    BY <1>0, <1>4 DEF SumsUpto
<1>6. g \in [SUBSET D -> Int]
    BY <1>4 DEF SumsUpto
<1>7. IsSums(f, D, g)
    BY <1>5, <1>6 DEF IsSums
<1> QED BY <1>6, <1>7

\* f has a sum over D, and g is the sums over its subsets.
Sums(f, D, g) ==
    /\ IsFiniteSet(D) /\ \A x \in D : f[x] \in Int
    /\ g \in [SUBSET D -> Int] /\ IsSums(f, D, g)

\* Functions that map the elements of D to the same.
Agree(e, f, D) == \A x \in D : e[x] = f[x]

\* Whichever element is taken out of a set first.
LEMMA SumsStep ==
    ASSUME NEW D, NEW f, NEW g, Sums(f, D, g)
    PROVE  /\ g[{}] = 0
           /\ \A s \in SUBSET D : \A x \in s : g[s] = f[x] + g[s \ {x}]
<1> DEFINE good == {n \in Nat : \A s \in SUBSET D : Cardinality(s) = n =>
                                   \A x \in s : g[s] = f[x] + g[s \ {x}]}
<1>z. /\ IsFiniteSet(D) /\ \A x \in D : f[x] \in Int
      /\ g \in [SUBSET D -> Int] /\ IsSums(f, D, g)
    BY DEF Sums
<1>0. \A s \in SUBSET D : IsFiniteSet(s) /\ Cardinality(s) \in Nat
    BY <1>z, FS_Subset, FS_CardinalityType
<1>a. \A s \in SUBSET D : g[s] = IF s = {} THEN 0 ELSE f[Next1(s)] + g[s \ {Next1(s)}]
    BY <1>z DEF IsSums
<1>1. 0 \in good
  <2>1. ASSUME NEW s \in SUBSET D, Cardinality(s) = 0 PROVE s = {}
      BY <1>0, <2>1, FS_EmptySet
  <2> QED BY <2>1
<1>2. ASSUME NEW n \in Nat, n \in good PROVE n + 1 \in good
  <2>1. ASSUME NEW s \in SUBSET D, Cardinality(s) = n + 1, NEW x \in s
        PROVE  g[s] = f[x] + g[s \ {x}]
    <3> DEFINE c == Next1(s)
    <3>1. c \in s /\ g[s] = f[c] + g[s \ {c}]
        BY <1>0, <1>a, OneLess
    <3> HIDE DEF c
    <3>2. CASE c = x
        BY <3>1, <3>2
    <3>3. CASE c # x
      <4>1. s \ {c} \in SUBSET D /\ Cardinality(s \ {c}) = n /\ x \in s \ {c}
          BY <1>0, <2>1, <3>1, <3>3, OneLess
      <4>2. s \ {x} \in SUBSET D /\ Cardinality(s \ {x}) = n /\ c \in s \ {x}
          BY <1>0, <2>1, <3>1, <3>3, OneLess
      <4>3. g[s \ {c}] = f[x] + g[(s \ {c}) \ {x}]
          BY <1>2, <4>1
      <4>4. g[s \ {x}] = f[c] + g[(s \ {x}) \ {c}]
          BY <1>2, <4>2
      <4>5. (s \ {x}) \ {c} = (s \ {c}) \ {x} /\ (s \ {x}) \ {c} \in SUBSET D
          OBVIOUS
      <4>6. f[x] \in Int /\ f[c] \in Int /\ g[(s \ {x}) \ {c}] \in Int
          BY <1>z, <3>1, <4>5
      <4>7. g[(s \ {x}) \ {c}] = g[(s \ {c}) \ {x}]
          BY <4>5
      <4>8. g[s] = f[c] + (f[x] + g[(s \ {c}) \ {x}])
          BY <3>1, <4>3
      <4>9. f[x] + g[s \ {x}] = f[x] + (f[c] + g[(s \ {c}) \ {x}])
          BY <4>4, <4>7
      <4> DEFINE a == f[x]
                 b == f[c]
                 v == g[(s \ {c}) \ {x}]
      <4>10. a \in Int /\ b \in Int /\ v \in Int
          BY <4>6, <4>7
      <4> HIDE DEF a, b, v
      <4>11. b + (a + v) = a + (b + v)
          BY <4>10
      <4> QED BY <4>8, <4>9, <4>11 DEF a, b, v
    <3> QED BY <3>2, <3>3
  <2> QED BY <2>1
<1> HIDE DEF good
<1>3. \A n \in Nat : n \in good
    BY <1>1, <1>2, Induction
<1>4. ASSUME NEW s \in SUBSET D, NEW x \in s PROVE g[s] = f[x] + g[s \ {x}]
  <2>1. Cardinality(s) \in good
      BY <1>0, <1>3
  <2> QED BY <2>1 DEF good
<1> QED BY <1>a, <1>4

\* Functions that agree on a set have the same sum over it.
LEMMA SumsAgree ==
    ASSUME NEW D, NEW f, NEW g, Sums(f, D, g), NEW E \in SUBSET D,
           NEW e, NEW h, Sums(e, E, h), Agree(e, f, E)
    PROVE  h[E] = g[E]
<1> DEFINE good == {n \in Nat : \A s \in SUBSET E : Cardinality(s) = n => h[s] = g[s]}
<1>y. /\ IsFiniteSet(D) /\ IsFiniteSet(E) /\ IsSums(f, D, g) /\ IsSums(e, E, h)
      /\ g \in [SUBSET D -> Int] /\ h \in [SUBSET E -> Int] /\ \A x \in E : e[x] = f[x]
    BY DEF Sums, Agree
<1>0. \A s \in SUBSET E : IsFiniteSet(s) /\ Cardinality(s) \in Nat /\ s \in SUBSET D
    BY <1>y, FS_Subset, FS_CardinalityType
<1>a. \A s \in SUBSET D : g[s] = IF s = {} THEN 0 ELSE f[Next1(s)] + g[s \ {Next1(s)}]
    BY <1>y DEF IsSums
<1>b. \A s \in SUBSET E : h[s] = IF s = {} THEN 0 ELSE e[Next1(s)] + h[s \ {Next1(s)}]
    BY <1>y DEF IsSums
<1>1. 0 \in good
  <2>1. ASSUME NEW s \in SUBSET E, Cardinality(s) = 0 PROVE s = {}
      BY <1>0, <2>1, FS_EmptySet
  <2> QED BY <1>a, <1>b, <2>1
<1>2. ASSUME NEW n \in Nat, n \in good PROVE n + 1 \in good
  <2>1. ASSUME NEW s \in SUBSET E, Cardinality(s) = n + 1 PROVE h[s] = g[s]
    <3>1. s # {}
      <4>1. Cardinality(s) # 0
          BY <2>1
      <4> QED BY <1>0, <4>1, FS_EmptySet
    <3> DEFINE c == Next1(s)
    <3>2. c \in s /\ s \ {c} \in SUBSET E /\ Cardinality(s \ {c}) = n
      <4>1. c \in s /\ Cardinality(s \ {c}) = Cardinality(s) - 1
          BY <1>0, <3>1, OneLess
      <4> QED BY <2>1, <4>1
    <3>3. g[s] = f[c] + g[s \ {c}] /\ h[s] = e[c] + h[s \ {c}]
        BY <1>0, <1>a, <1>b, <3>1
    <3>4. h[s \ {c}] = g[s \ {c}] /\ e[c] = f[c]
        BY <1>y, <1>2, <3>2
    <3> QED BY <3>3, <3>4
  <2> QED BY <2>1
<1> HIDE DEF good
<1>3. Cardinality(E) \in good
    BY <1>0, <1>1, <1>2, Induction
<1> QED BY <1>3 DEF good

\* A sum of numbers is one, and of naturals a natural.
LEMMA SumsTyped ==
    ASSUME NEW D, IsFiniteSet(D), NEW T \in SUBSET Int, 0 \in T, \A a, b \in T : a + b \in T,
           NEW f, \A x \in D : f[x] \in T, NEW g, IsSums(f, D, g)
    PROVE  g \in [SUBSET D -> T]
<1> DEFINE good == {n \in Nat : \A s \in SUBSET D : Cardinality(s) = n => g[s] \in T}
<1>0. \A s \in SUBSET D : IsFiniteSet(s) /\ Cardinality(s) \in Nat
    BY FS_Subset, FS_CardinalityType
<1>a. \A s \in SUBSET D : g[s] = IF s = {} THEN 0 ELSE f[Next1(s)] + g[s \ {Next1(s)}]
    BY DEF IsSums
<1>1. 0 \in good
  <2>1. ASSUME NEW s \in SUBSET D, Cardinality(s) = 0 PROVE s = {}
      BY <1>0, <2>1, FS_EmptySet
  <2> QED BY <1>a, <2>1
<1>2. ASSUME NEW n \in Nat, n \in good PROVE n + 1 \in good
  <2>1. ASSUME NEW s \in SUBSET D, Cardinality(s) = n + 1 PROVE g[s] \in T
    <3>1. s # {}
      <4>1. Cardinality(s) # 0
          BY <2>1
      <4> QED BY <1>0, <4>1, FS_EmptySet
    <3> DEFINE c == Next1(s)
    <3>2. c \in s /\ s \ {c} \in SUBSET D /\ Cardinality(s \ {c}) = n
        BY <1>0, <2>1, <3>1, OneLess
    <3>3. g[s] = f[c] + g[s \ {c}]
        BY <1>a, <3>1
    <3>4. f[c] \in T /\ g[s \ {c}] \in T
        BY <1>2, <3>2
    <3> QED BY <3>3, <3>4
  <2> QED BY <2>1
<1> HIDE DEF good
<1>3. \A n \in Nat : n \in good
    BY <1>1, <1>2, Induction
<1>4. ASSUME NEW s \in SUBSET D PROVE g[s] \in T
  <2>1. Cardinality(s) \in good
      BY <1>0, <1>3
  <2> QED BY <2>1 DEF good
<1>5. g = [s \in SUBSET D |-> g[s]]
    BY DEF IsSums
<1> QED BY <1>4, <1>5

\* A sum is one of those.
LEMMA TotalIs ==
    ASSUME NEW f, IsFiniteSet(DOMAIN f), \A x \in DOMAIN f : f[x] \in Int
    PROVE  \E g \in [SUBSET DOMAIN f -> Int] : Sums(f, DOMAIN f, g) /\ Total(f) = g[DOMAIN f]
<1> DEFINE D == DOMAIN f
           g == CHOOSE g : IsSums(f, D, g)
<1>1. \E h \in [SUBSET D -> Int] : IsSums(f, D, h)
    BY SumsExist
<1>2. IsSums(f, D, g)
    BY <1>1
<1>3. Total(f) = g[D]
    BY DEF Total, FoldFunction, FoldFunctionOnSet, MapThenFoldSet, IsSums, Next1
<1>4. g \in [SUBSET D -> Int]
  <2> HIDE DEF g, D
  <2>1. IsFiniteSet(D) /\ \A x \in D : f[x] \in Int
      BY DEF D
  <2>2. Int \in SUBSET Int /\ 0 \in Int /\ \A a, b \in Int : a + b \in Int
      OBVIOUS
  <2> QED BY <1>2, <2>1, <2>2, SumsTyped
<1> QED BY <1>2, <1>3, <1>4 DEF Sums

\* The sum over no elements.
LEMMA TotalEmpty ==
    ASSUME NEW f, DOMAIN f = {}
    PROVE  Total(f) = 0
<1>1. IsFiniteSet(DOMAIN f) /\ \A x \in DOMAIN f : f[x] \in Int
    BY FS_EmptySet
<1>2. PICK g \in [SUBSET DOMAIN f -> Int] : Sums(f, DOMAIN f, g) /\ Total(f) = g[DOMAIN f]
    BY <1>1, TotalIs
<1>3. g[{}] = 0
    BY <1>1, <1>2, SumsStep
<1> QED BY <1>2, <1>3

\* The sum over all elements, from the sum over all but one.
LEMMA TotalStep ==
    ASSUME NEW f, IsFiniteSet(DOMAIN f), \A x \in DOMAIN f : f[x] \in Int,
           NEW x \in DOMAIN f, NEW r, r = [y \in DOMAIN f \ {x} |-> f[y]]
    PROVE  Total(f) = f[x] + Total(r) /\ Total(r) \in Int
<1> DEFINE D == DOMAIN f
           E == DOMAIN f \ {x}
<1>1. PICK g \in [SUBSET D -> Int] : Sums(f, D, g) /\ Total(f) = g[D]
    BY TotalIs
<1>2. DOMAIN r = E /\ IsFiniteSet(E) /\ \A y \in E : r[y] = f[y] /\ r[y] \in Int
    BY FS_RemoveElement
<1>3. PICK h \in [SUBSET E -> Int] : Sums(r, E, h) /\ Total(r) = h[E]
  <2> HIDE DEF E
  <2> QED BY <1>2, TotalIs
<1>4. h[E] = g[E]
  <2>1. E \in SUBSET D
      OBVIOUS
  <2>2. Agree(r, f, E)
      BY <1>2 DEF Agree
  <2> HIDE DEF D, E
  <2> QED BY <1>1, <1>3, <2>1, <2>2, SumsAgree
<1>5. g[D] = f[x] + g[D \ {x}]
  <2>1. D \in SUBSET D /\ x \in D
      OBVIOUS
  <2> HIDE DEF D
  <2> QED BY <1>1, <2>1, SumsStep
<1>6. h[E] \in Int
    OBVIOUS
<1> QED BY <1>1, <1>3, <1>4, <1>5, <1>6

\* Numbers have a number for their sum, naturals a natural.
LEMMA TotalTyped ==
    ASSUME NEW f, IsFiniteSet(DOMAIN f), \A x \in DOMAIN f : f[x] \in Int
    PROVE  Total(f) \in Int /\ ((\A x \in DOMAIN f : f[x] \in Nat) => Total(f) \in Nat)
<1> DEFINE D == DOMAIN f
<1>1. PICK g \in [SUBSET D -> Int] : Sums(f, D, g) /\ Total(f) = g[D]
    BY TotalIs
<1>2. Total(f) \in Int
    BY <1>1
<1>3. ASSUME \A x \in D : f[x] \in Nat PROVE g \in [SUBSET D -> Nat]
  <2>1. IsFiniteSet(D)
      OBVIOUS
  <2>2. Nat \in SUBSET Int /\ 0 \in Nat /\ \A a, b \in Nat : a + b \in Nat
      OBVIOUS
  <2> HIDE DEF D
  <2> QED BY <1>1, <1>3, <2>1, <2>2, SumsTyped DEF Sums
<1> QED BY <1>1, <1>2, <1>3

\* Two sums are related as their terms are, if a relation is kept by adding; the
\* second one may have terms that the first one has not.
LEMMA TotalsRelated ==
    ASSUME NEW f, IsFiniteSet(DOMAIN f), \A x \in DOMAIN f : f[x] \in Int,
           NEW e, DOMAIN e \in SUBSET DOMAIN f, \A x \in DOMAIN e : e[x] \in Int,
           NEW R, <<0, 0>> \in R,
           \A a, b, c, d \in Int : <<a, b>> \in R /\ <<c, d>> \in R => <<a + c, b + d>> \in R,
           \A x \in DOMAIN f : <<IF x \in DOMAIN e THEN e[x] ELSE 0, f[x]>> \in R
    PROVE  <<Total(e), Total(f)>> \in R
<1> DEFINE D == DOMAIN f
           E == DOMAIN e
<1>1. IsFiniteSet(D) /\ IsFiniteSet(E) /\ E \in SUBSET D
    BY FS_Subset
<1>2. PICK g \in [SUBSET D -> Int] : Sums(f, D, g) /\ Total(f) = g[D]
    BY TotalIs
<1>3. PICK h \in [SUBSET E -> Int] : Sums(e, E, h) /\ Total(e) = h[E]
    BY <1>1, TotalIs
<1>4. \A x \in D : f[x] \in Int /\ <<IF x \in E THEN e[x] ELSE 0, f[x]>> \in R
    OBVIOUS
<1>5. \A x \in E : e[x] \in Int
    OBVIOUS
<1> HIDE DEF D, E
<1>6. g[{}] = 0 /\ \A s \in SUBSET D : \A x \in s : g[s] = f[x] + g[s \ {x}]
    BY <1>2, SumsStep
<1>7. h[{}] = 0 /\ \A s \in SUBSET E : \A x \in s : h[s] = e[x] + h[s \ {x}]
    BY <1>3, SumsStep
<1> DEFINE good == {n \in Nat : \A s \in SUBSET D : Cardinality(s) = n => <<h[s \cap E], g[s]>> \in R}
<1>8. \A s \in SUBSET D : IsFiniteSet(s) /\ Cardinality(s) \in Nat
    BY <1>1, FS_Subset, FS_CardinalityType
<1>9. 0 \in good
  <2>1. ASSUME NEW s \in SUBSET D, Cardinality(s) = 0 PROVE <<h[s \cap E], g[s]>> \in R
    <3>1. s = {} /\ s \cap E = {}
        BY <1>8, <2>1, FS_EmptySet
    <3> QED BY <1>6, <1>7, <3>1
  <2> QED BY <2>1
<1>10. ASSUME NEW n \in Nat, n \in good PROVE n + 1 \in good
  <2>1. ASSUME NEW s \in SUBSET D, Cardinality(s) = n + 1 PROVE <<h[s \cap E], g[s]>> \in R
    <3>1. s # {}
      <4>1. Cardinality(s) # 0
          BY <2>1
      <4> QED BY <1>8, <4>1, FS_EmptySet
    <3>2. PICK x \in s : TRUE
        BY <3>1
    <3> DEFINE t == s \ {x}
    <3>3. t \in SUBSET D /\ Cardinality(t) = n /\ x \in D
        BY <1>8, <2>1, <3>1, OneLess
    <3>4. <<h[t \cap E], g[t]>> \in R
        BY <1>10, <3>3
    <3>5. g[s] = f[x] + g[t]
        BY <1>6
    <3>6. g[t] \in Int /\ h[t \cap E] \in Int
      <4>1. t \cap E \in SUBSET E
          OBVIOUS
      <4> QED BY <3>3, <4>1
    <3>7. CASE x \in E
      <4>1. s \cap E \in SUBSET E /\ x \in s \cap E /\ (s \cap E) \ {x} = t \cap E
          BY <3>7
      <4>2. h[s \cap E] = e[x] + h[t \cap E]
          BY <1>7, <4>1
      <4>3. <<e[x], f[x]>> \in R /\ e[x] \in Int /\ f[x] \in Int
          BY <1>4, <1>5, <3>3, <3>7
      <4> HIDE DEF t
      <4> QED BY <3>4, <3>5, <3>6, <4>2, <4>3
    <3>8. CASE x \notin E
      <4>1. s \cap E = t \cap E
          BY <3>8
      <4>2. <<0, f[x]>> \in R /\ f[x] \in Int
          BY <1>4, <3>3, <3>8
      <4>3. <<0 + h[t \cap E], f[x] + g[t]>> \in R
        <5> HIDE DEF t
        <5> QED BY <3>4, <3>6, <4>2
      <4>4. h[t \cap E] = h[s \cap E]
          BY <4>1
      <4>5. \A a \in Int : 0 + a = a
          OBVIOUS
      <4> HIDE DEF t
      <4> QED BY <3>5, <3>6, <4>3, <4>4, <4>5
    <3> QED BY <3>7, <3>8
  <2> QED BY <2>1
<1> HIDE DEF good
<1>11. Cardinality(D) \in good
    BY <1>8, <1>9, <1>10, Induction
<1>12. <<h[D \cap E], g[D]>> \in R
    BY <1>11 DEF good
<1>13. D \cap E = E
    BY <1>1
<1> QED BY <1>2, <1>3, <1>12, <1>13

\* An entry put into a map.
LEMMA TotalPut ==
    ASSUME NEW f, IsFiniteSet(DOMAIN f), \A x \in DOMAIN f : f[x] \in Int,
           f = [x \in DOMAIN f |-> f[x]], NEW key, NEW value \in Int
    PROVE  Total(Put(f, key, value))
             = Total(f) + value - (IF key \in DOMAIN f THEN f[key] ELSE 0)
<1> DEFINE h == Put(f, key, value)
           r == [y \in DOMAIN f \ {key} |-> f[y]]
<1>1. /\ DOMAIN h = DOMAIN f \cup {key} /\ h[key] = value
      /\ \A x \in DOMAIN h : h[x] = IF x = key THEN value ELSE f[x]
    BY DEF Put
<1>2. IsFiniteSet(DOMAIN h) /\ \A x \in DOMAIN h : h[x] \in Int
    BY <1>1, FS_AddElement
<1>3. r = [y \in DOMAIN h \ {key} |-> h[y]]
  <2>1. DOMAIN f \ {key} = DOMAIN h \ {key}
      BY <1>1
  <2> HIDE DEF h
  <2> QED BY <1>1, <2>1
<1>4. Total(h) = value + Total(r) /\ Total(r) \in Int
  <2>1. key \in DOMAIN h
      BY <1>1
  <2> HIDE DEF h, r
  <2> QED BY <1>1, <1>2, <1>3, <2>1, TotalStep
<1>5. CASE key \in DOMAIN f
  <2>1. Total(f) = f[key] + Total(r)
    <3>1. r = [y \in DOMAIN f \ {key} |-> f[y]]
        OBVIOUS
    <3> HIDE DEF r
    <3> QED BY <1>5, <3>1, TotalStep
  <2>2. f[key] \in Int
      BY <1>5
  <2> HIDE DEF h, r
  <2> QED BY <1>4, <1>5, <2>1, <2>2 DEF h
<1>6. CASE key \notin DOMAIN f
  <2>1. r = f
      BY <1>6
  <2> HIDE DEF h, r
  <2> QED BY <1>4, <1>6, <2>1 DEF h
<1> QED BY <1>5, <1>6

(***************************************************************************)
(* Numbers, rows and bijections.                                           *)
(***************************************************************************)

\* What a function maps a finite set to.
LEMMA ImageFinite ==
    ASSUME NEW S, IsFiniteSet(S), NEW f
    PROVE  IsFiniteSet({f[x] : x \in S})
<1> DEFINE T == {f[x] : x \in S}
           g == [x \in S |-> f[x]]
<1>1. g \in [S -> T] /\ \A y \in T : \E x \in S : g[x] = y
    OBVIOUS
<1> HIDE DEF g
<1>2. g \in Surjection(S, T)
  <2> HIDE DEF T
  <2> QED BY <1>1, Fun_IsSurj
<1> QED BY <1>2, FS_Surjection

\* The largest of finitely many numbers.
LEMMA MaxOf ==
    ASSUME NEW S \in SUBSET Int, IsFiniteSet(S), S # {}
    PROVE  Max(S) \in S /\ \A y \in S : Max(S) >= y
<1> DEFINE good == {n \in Nat : \A s \in SUBSET S : Cardinality(s) = n + 1 =>
                                   \E x \in s : \A y \in s : x >= y}
<1>0. \A s \in SUBSET S : IsFiniteSet(s) /\ Cardinality(s) \in Nat
    BY FS_Subset, FS_CardinalityType
<1>1. 0 \in good
  <2>1. ASSUME NEW s \in SUBSET S, Cardinality(s) = 0 + 1 PROVE \E x \in s : \A y \in s : x >= y
    <3>1. PICK x : s = {x}
      <4>1. Cardinality(s) = 1 /\ IsFiniteSet(s)
          BY <1>0, <2>1
      <4> QED BY <4>1, FS_Singleton
    <3>2. x \in Int
        BY <3>1
    <3> QED BY <3>1, <3>2
  <2> QED BY <2>1
<1>2. ASSUME NEW n \in Nat, n \in good PROVE n + 1 \in good
  <2>1. ASSUME NEW s \in SUBSET S, Cardinality(s) = (n + 1) + 1
        PROVE  \E x \in s : \A y \in s : x >= y
    <3>1. s # {}
      <4>1. Cardinality(s) # 0
          BY <2>1
      <4> QED BY <1>0, <4>1, FS_EmptySet
    <3>2. PICK c \in s : TRUE
        BY <3>1
    <3>3. s \ {c} \in SUBSET S /\ Cardinality(s \ {c}) = n + 1
        BY <1>0, <2>1, <3>1, <3>2, OneLess
    <3>4. PICK x \in s \ {c} : \A y \in s \ {c} : x >= y
        BY <1>2, <3>3
    <3>5. x \in Int /\ c \in Int
        BY <3>2, <3>4
    <3>6. CASE x >= c
        BY <3>4, <3>6
    <3>7. CASE ~ (x >= c)
      <4>1. \A y \in s : c >= y
        <5> TAKE y \in s
        <5>1. y \in Int /\ (y # c => x >= y)
            BY <3>4
        <5> QED BY <3>5, <3>7, <5>1
      <4> QED BY <3>2, <4>1
    <3> QED BY <3>6, <3>7
  <2> QED BY <2>1
<1> HIDE DEF good
<1>3. \A n \in Nat : n \in good
    BY <1>1, <1>2, Induction
<1>4. Cardinality(S) - 1 \in Nat
    BY <1>0, FS_EmptySet
<1>5. \E x \in S : \A y \in S : x >= y
  <2>1. Cardinality(S) - 1 \in good /\ Cardinality(S) = (Cardinality(S) - 1) + 1
      BY <1>0, <1>3, <1>4
  <2> QED BY <2>1 DEF good
<1> QED BY <1>5, Zenon DEF Max

\* The smallest of some naturals.
LEMMA MinOf ==
    ASSUME NEW S \in SUBSET Nat, S # {}
    PROVE  Min(S) \in S /\ \A y \in S : Min(S) <= y
<1>1. \E x \in S : \A y \in S : x <= y
    BY LeastNat
<1> QED BY <1>1, Zenon DEF Min

\* The larger of two numbers.
LEMMA MaxOfTwo ==
    ASSUME NEW a \in Int, NEW b \in Int
    PROVE  Max({a, b}) = IF a >= b THEN a ELSE b
<1> DEFINE m == IF a >= b THEN a ELSE b
<1>1. m \in {a, b} /\ \A y \in {a, b} : m >= y
    OBVIOUS
<1>2. Max({a, b}) \in {a, b} /\ \A y \in {a, b} : Max({a, b}) >= y
    BY <1>1, Zenon DEF Max
<1> QED BY <1>2

\* The smaller of two numbers.
LEMMA MinOfTwo ==
    ASSUME NEW a \in Int, NEW b \in Int
    PROVE  Min({a, b}) = IF a <= b THEN a ELSE b
<1> DEFINE m == IF a <= b THEN a ELSE b
<1>1. m \in {a, b} /\ \A y \in {a, b} : m <= y
    OBVIOUS
<1>2. Min({a, b}) \in {a, b} /\ \A y \in {a, b} : Min({a, b}) <= y
    BY <1>1, Zenon DEF Min
<1> QED BY <1>2

\* A row for each of n numbers is a sequence of n rows.
LEMMA RowsLen ==
    ASSUME NEW n \in Nat, NEW rows, rows = [r \in 1..n |-> rows[r]]
    PROVE  /\ rows \in Seq({rows[r] : r \in 1..n}) /\ Len(rows) = n
           /\ DOMAIN rows = 1..n
<1> DEFINE T == {rows[r] : r \in 1..n}
<1>1. \A r \in 1..n : rows[r] \in T
    OBVIOUS
<1> HIDE DEF T
<1>2. rows \in [1..n -> T]
    BY <1>1
<1>3. rows \in Seq(T) /\ Len(rows) = n
    BY <1>2
<1> QED BY <1>2, <1>3 DEF T

\* A bijection maps every element to a different one, and reaches them all.
LEMMA BijectionIs ==
    ASSUME NEW S, NEW T, NEW k \in Bijection(S, T)
    PROVE  /\ k \in [S -> T]
           /\ \A a, b \in S : k[a] = k[b] => a = b
           /\ \A x \in T : \E a \in S : k[a] = x
<1>1. k \in Injection(S, T) /\ k \in Surjection(S, T)
    BY DEF Bijection
<1>2. k \in [S -> T] /\ \A a, b \in DOMAIN k : k[a] = k[b] => a = b
    BY <1>1 DEF Injection, IsInjective
<1>3. \A x \in T : \E a \in S : k[a] = x
    BY <1>1 DEF Surjection
<1> QED BY <1>2, <1>3

\* A function that does is one.
LEMMA IsBijection ==
    ASSUME NEW S, NEW T, NEW k \in [S -> T],
           \A a, b \in S : k[a] = k[b] => a = b,
           \A x \in T : \E a \in S : k[a] = x
    PROVE  k \in Bijection(S, T)
<1>1. k \in Injection(S, T)
    BY Fun_IsInj
<1>2. k \in Surjection(S, T)
    BY Fun_IsSurj
<1> QED BY <1>1, <1>2 DEF Bijection

\* A bijection read in another order is one.
LEMMA Rearranging ==
    ASSUME NEW D, NEW S, NEW c \in Bijection(D, S), NEW order \in Bijection(D, D),
           NEW k, k = [r \in D |-> c[order[r]]]
    PROVE  k \in Bijection(D, S)
<1>1. /\ c \in [D -> S]
      /\ \A a, b \in D : c[a] = c[b] => a = b
      /\ \A x \in S : \E a \in D : c[a] = x
    BY BijectionIs
<1>2. /\ order \in [D -> D]
      /\ \A a, b \in D : order[a] = order[b] => a = b
      /\ \A x \in D : \E a \in D : order[a] = x
    BY BijectionIs
<1>3. k \in [D -> S]
    BY <1>1, <1>2
<1>4. \A a, b \in D : k[a] = k[b] => a = b
    BY <1>1, <1>2
<1>5. \A x \in S : \E a \in D : k[a] = x
    BY <1>1, <1>2
<1> QED BY <1>3, <1>4, <1>5, IsBijection

\* k is c, read in another order.
Reordered(k, c, D) ==
    \E order \in Bijection(D, D) : order \in [D -> D] /\ \A r \in D : k[r] = c[order[r]]

\* Each bijection is any other one, read in another order.
LEMMA Rearranged ==
    ASSUME NEW D, NEW S, NEW c \in Bijection(D, S), NEW k \in Bijection(D, S)
    PROVE  Reordered(k, c, D)
<1>1. /\ c \in [D -> S]
      /\ \A a, b \in D : c[a] = c[b] => a = b
      /\ \A x \in S : \E a \in D : c[a] = x
    BY BijectionIs
<1>2. /\ k \in [D -> S]
      /\ \A a, b \in D : k[a] = k[b] => a = b
      /\ \A x \in S : \E a \in D : k[a] = x
    BY BijectionIs
<1> DEFINE order == [r \in D |-> CHOOSE a \in D : c[a] = k[r]]
<1>3. \A r \in D : order[r] \in D /\ c[order[r]] = k[r]
    BY <1>1, <1>2
<1>4. order \in [D -> D]
    BY <1>3
<1>5. \A a, b \in D : order[a] = order[b] => a = b
    BY <1>2, <1>3
<1>6. ASSUME NEW x \in D PROVE \E a \in D : order[a] = x
  <2>1. PICK a \in D : k[a] = c[x]
      BY <1>1, <1>2
  <2>2. order[a] = x
      BY <1>1, <1>3, <2>1
  <2> QED BY <2>2
<1> HIDE DEF order
<1>7. order \in Bijection(D, D)
    BY <1>4, <1>5, <1>6, IsBijection
<1> QED BY <1>3, <1>4, <1>7 DEF Reordered

(***************************************************************************)
(* Strict total orders of finite sets.  An element's rank is the number of *)
(* those below it.                                                         *)
(***************************************************************************)

StrictOrder(R, S) ==
    /\ \A x \in S : <<x, x>> \notin R
    /\ \A x, y \in S : x # y => <<x, y>> \in R \/ <<y, x>> \in R
    /\ \A x, y, z \in S : <<x, y>> \in R /\ <<y, z>> \in R => <<x, z>> \in R

Below(R, S, x) == {y \in S : <<y, x>> \in R}

Rank(R, S, x) == Cardinality(Below(R, S, x))

\* A rank is a number less than the number of elements.
LEMMA RankTyped ==
    ASSUME NEW S, IsFiniteSet(S), NEW R, StrictOrder(R, S), NEW x \in S
    PROVE  /\ IsFiniteSet(Below(R, S, x)) /\ Cardinality(S) \in Nat
           /\ Rank(R, S, x) \in Nat /\ Rank(R, S, x) < Cardinality(S)
<1>1. Below(R, S, x) \in SUBSET S /\ x \notin Below(R, S, x)
    BY DEF Below, StrictOrder
<1>2. /\ IsFiniteSet(Below(R, S, x)) /\ Rank(R, S, x) <= Cardinality(S)
      /\ Cardinality(S) # Rank(R, S, x)
    BY <1>1, FS_Subset DEF Rank
<1>3. Rank(R, S, x) \in Nat /\ Cardinality(S) \in Nat
    BY <1>2, FS_CardinalityType DEF Rank
<1> QED BY <1>2, <1>3

\* The element that comes before has the lower rank.
LEMMA RankOrdered ==
    ASSUME NEW S, IsFiniteSet(S), NEW R, StrictOrder(R, S), NEW x \in S, NEW y \in S,
           <<x, y>> \in R
    PROVE  Rank(R, S, x) < Rank(R, S, y)
<1>1. Below(R, S, x) \in SUBSET Below(R, S, y)
    BY DEF Below, StrictOrder
<1>2. x \in Below(R, S, y) /\ x \notin Below(R, S, x)
    BY DEF Below, StrictOrder
<1>3. /\ Rank(R, S, x) <= Rank(R, S, y) /\ Rank(R, S, x) # Rank(R, S, y)
    BY <1>1, <1>2, RankTyped, FS_Subset DEF Rank
<1>4. Rank(R, S, x) \in Nat /\ Rank(R, S, y) \in Nat
    BY RankTyped
<1> QED BY <1>3, <1>4

\* No two elements have the same rank, and every number up to the largest is one.
LEMMA RankUnique ==
    ASSUME NEW S, IsFiniteSet(S), NEW R, StrictOrder(R, S)
    PROVE  /\ \A x, y \in S : Rank(R, S, x) = Rank(R, S, y) => x = y
           /\ \A k \in 0 .. Cardinality(S) - 1 : \E x \in S : Rank(R, S, x) = k
<1>1. ASSUME NEW x \in S, NEW y \in S, Rank(R, S, x) = Rank(R, S, y), x # y PROVE FALSE
  <2>1. <<x, y>> \in R \/ <<y, x>> \in R
      BY <1>1 DEF StrictOrder
  <2>2. Rank(R, S, x) \in Nat
      BY RankTyped
  <2> QED BY <1>1, <2>1, <2>2, RankOrdered
<1> DEFINE n == Cardinality(S)
           T == 0 .. n - 1
           rank == [x \in S |-> Rank(R, S, x)]
<1>2. n \in Nat
    BY FS_CardinalityType
<1>3. \A x \in S : Rank(R, S, x) \in T
    BY <1>2, RankTyped
<1>4. IsFiniteSet(T) /\ Cardinality(T) = n
    BY SMTT(30), <1>2, FS_Interval
<1> HIDE DEF n, T
<1>5. rank \in [S -> T] /\ \A x, y \in S : rank[x] = rank[y] => x = y
    BY <1>1, <1>3
<1>6. rank \in Injection(S, T)
    BY <1>5, Fun_IsInj
<1>7. rank \in Surjection(S, T)
    BY <1>4, <1>6, FS_Injection DEF n
<1>8. \A k \in T : \E x \in S : rank[x] = k
    BY <1>7, Fun_SurjectionProperties
<1> QED BY <1>1, <1>8 DEF n, T

\* Elements in order, none twice: a list whose neighbours are not the wrong way
\* round has the element of rank r - 1 in place r.
LEMMA SortedByRank ==
    ASSUME NEW S, IsFiniteSet(S), NEW R, StrictOrder(R, S),
           NEW k \in Bijection(1 .. Cardinality(S), S),
           \A r \in 2 .. Cardinality(S) : <<k[r], k[r - 1]>> \notin R
    PROVE  \A r \in 1 .. Cardinality(S) : Rank(R, S, k[r]) = r - 1
<1> DEFINE n == Cardinality(S)
<1>1. n \in Nat
    BY FS_CardinalityType
<1>0. k \in Bijection(1..n, S)
    OBVIOUS
<1>3. \A r \in 2..n : <<k[r], k[r - 1]>> \notin R
    OBVIOUS
<1> HIDE DEF n
<1>2. /\ k \in [1..n -> S]
      /\ \A a, b \in 1..n : k[a] = k[b] => a = b
      /\ \A x \in S : \E a \in 1..n : k[a] = x
  <2>1. k \in [1..n -> S]
      BY <1>0, BijectionIs
  <2>2. \A a, b \in 1..n : k[a] = k[b] => a = b
      BY <1>0, BijectionIs
  <2>3. \A x \in S : \E a \in 1..n : k[a] = x
    <3> DEFINE D == 1..n
    <3>1. k \in Bijection(D, S)
        BY <1>0
    <3> HIDE DEF D
    <3>2. \A x \in S : \E a \in D : k[a] = x
        BY <3>1, BijectionIs
    <3> QED BY <3>2 DEF D
  <2> QED BY <2>1, <2>2, <2>3
<1>4. ASSUME NEW r \in 2..n PROVE <<k[r - 1], k[r]>> \in R
  <2>1. r \in 1..n /\ r - 1 \in 1..n /\ r # r - 1
      BY <1>1
  <2>2. k[r] \in S /\ k[r - 1] \in S /\ k[r] # k[r - 1]
      BY <1>2, <2>1
  <2> QED BY <1>3, <2>2 DEF StrictOrder
<1> DEFINE good == {d \in Nat : \A a, b \in 1..n : b = a + d + 1 => <<k[a], k[b]>> \in R}
<1>5. 0 \in good
  <2>1. ASSUME NEW a \in 1..n, NEW b \in 1..n, b = a + 0 + 1 PROVE <<k[a], k[b]>> \in R
    <3>1. b \in 2..n /\ b - 1 = a
        BY <1>1, <2>1
    <3> QED BY <1>4, <3>1
  <2> QED BY <2>1
<1>6. ASSUME NEW d \in Nat, d \in good PROVE d + 1 \in good
  <2>1. ASSUME NEW a \in 1..n, NEW b \in 1..n, b = a + (d + 1) + 1 PROVE <<k[a], k[b]>> \in R
    <3>1. b \in 2..n /\ b - 1 \in 1..n /\ b - 1 = a + d + 1
        BY <1>1, <2>1
    <3>2. <<k[a], k[b - 1]>> \in R
        BY <1>6, <3>1
    <3>3. <<k[b - 1], k[b]>> \in R
        BY <1>4, <3>1
    <3>4. k[a] \in S /\ k[b - 1] \in S /\ k[b] \in S
        BY <1>2, <3>1
    <3> QED BY <3>2, <3>3, <3>4 DEF StrictOrder
  <2> QED BY <2>1
<1>7. \A d \in Nat : d \in good
  <2> HIDE DEF good
  <2> QED BY <1>5, <1>6, Induction
<1>8. ASSUME NEW a \in 1..n, NEW b \in 1..n, a < b PROVE <<k[a], k[b]>> \in R
  <2>1. b - a - 1 \in Nat /\ b = a + (b - a - 1) + 1
      BY <1>1, <1>8
  <2>2. b - a - 1 \in good
      BY <1>7, <2>1
  <2> QED BY <2>1, <2>2
<1> HIDE DEF good
<1>9. ASSUME NEW r \in 1..n PROVE Rank(R, S, k[r]) = r - 1
  <2> DEFINE D == 1 .. r - 1
             T == Below(R, S, k[r])
             g == [a \in D |-> k[a]]
  <2>1. \A a \in D : a \in 1..n /\ a < r
      BY <1>1
  <2>2. \A a \in D : k[a] \in T
      BY <1>2, <1>8, <2>1 DEF Below
  <2>3. ASSUME NEW x \in T PROVE \E a \in D : k[a] = x
    <3>1. x \in S /\ <<x, k[r]>> \in R
        BY DEF Below
    <3>2. PICK a \in 1..n : k[a] = x
        BY <1>2, <3>1
    <3>3. a # r
        BY <1>2, <3>1, <3>2 DEF StrictOrder
    <3>4. ~ (r < a)
      <4> SUFFICES ASSUME r < a PROVE FALSE
          OBVIOUS
      <4>1. <<k[r], k[a]>> \in R
          BY <1>8
      <4>2. k[r] \in S /\ k[a] \in S
          BY <1>2
      <4> QED BY <3>1, <3>2, <4>1, <4>2 DEF StrictOrder
    <3>5. a \in D
        BY <1>1, <3>3, <3>4
    <3> QED BY <3>2, <3>5
  <2>4. IsFiniteSet(D) /\ Cardinality(D) = r - 1
      BY FS_Interval
  <2> HIDE DEF D, T
  <2>5. g \in [D -> T] /\ \A x \in T : \E a \in D : g[a] = x
      BY <2>2, <2>3
  <2>6. \A a, b \in D : g[a] = g[b] => a = b
      BY <1>2, <2>1
  <2>7. g \in Surjection(D, T) /\ g \in Injection(D, T)
      BY <2>5, <2>6, Fun_IsSurj, Fun_IsInj
  <2>8. Cardinality(T) = Cardinality(D)
      BY <2>4, <2>7, FS_Surjection
  <2> QED BY <2>4, <2>8 DEF T, Rank
<1> QED BY <1>9 DEF n

\* The list of the elements by rank.
Ranked(R, S) == [r \in 1 .. Cardinality(S) |-> CHOOSE x \in S : Rank(R, S, x) = r - 1]

\* It is one of those.
LEMMA ByRank ==
    ASSUME NEW S, IsFiniteSet(S), NEW R, StrictOrder(R, S),
           NEW k, k = Ranked(R, S)
    PROVE  /\ k \in Bijection(1 .. Cardinality(S), S)
           /\ \A r \in 1 .. Cardinality(S) : Rank(R, S, k[r]) = r - 1
           /\ \A r \in 2 .. Cardinality(S) : <<k[r], k[r - 1]>> \notin R
<1> DEFINE n == Cardinality(S)
<1>1. n \in Nat
    BY FS_CardinalityType
<1>2. ASSUME NEW r \in 1..n PROVE k[r] \in S /\ Rank(R, S, k[r]) = r - 1
  <2>1. r - 1 \in 0 .. n - 1
      BY <1>1
  <2>2. \E x \in S : Rank(R, S, x) = r - 1
      BY <2>1, RankUnique
  <2>3. k[r] = CHOOSE x \in S : Rank(R, S, x) = r - 1
      BY DEF Ranked
  <2> QED BY <2>2, <2>3
<1>3. \A x \in S : Rank(R, S, x) \in Nat /\ Rank(R, S, x) < n
    BY RankTyped
<1> HIDE DEF n
<1>4. k \in [1..n -> S]
    BY <1>2 DEF n, Ranked
<1>5. \A a, b \in 1..n : k[a] = k[b] => a = b
    BY <1>1, <1>2
<1>6. ASSUME NEW x \in S PROVE \E r \in 1..n : k[r] = x
  <2>1. Rank(R, S, x) + 1 \in 1..n
      BY <1>1, <1>3
  <2>2. Rank(R, S, k[Rank(R, S, x) + 1]) = Rank(R, S, x)
      BY <1>2, <1>3, <2>1
  <2>3. k[Rank(R, S, x) + 1] = x
      BY <1>2, <2>1, <2>2, RankUnique
  <2> QED BY <2>1, <2>3
<1>7. k \in Bijection(1..n, S)
    BY <1>4, <1>5, <1>6, IsBijection
<1>8. ASSUME NEW r \in 2..n PROVE <<k[r], k[r - 1]>> \notin R
  <2>1. r \in 1..n /\ r - 1 \in 1..n
      BY <1>1
  <2>2. Rank(R, S, k[r]) = r - 1 /\ Rank(R, S, k[r - 1]) = (r - 1) - 1
      BY <1>2, <2>1
  <2>3. k[r] \in S /\ k[r - 1] \in S
      BY <1>2, <2>1
  <2>4. ~ (Rank(R, S, k[r]) < Rank(R, S, k[r - 1]))
      BY <2>1, <2>2
  <2> QED BY <2>3, <2>4, RankOrdered
<1> QED BY <1>2, <1>7, <1>8 DEF n

\* Iterating over a map reaches every id once.
LEMMA Iterated ==
    ASSUME NEW S \in SUBSET Nat, IsFiniteSet(S)
    PROVE  /\ Ascending(S) \in Bijection(1 .. Cardinality(S), S)
           /\ \A r \in 1 .. Cardinality(S) : Cardinality({i \in S : i < Ascending(S)[r]}) = r - 1
<1> DEFINE R == {p \in S \X S : p[1] < p[2]}
<1>1. \A x, y \in S : <<x, y>> \in R <=> x < y
    OBVIOUS
<1>2. \A x, y, z \in S : /\ ~ (x < x) /\ (x # y => x < y \/ y < x)
                         /\ (x < y /\ y < z => x < z)
    OBVIOUS
<1> HIDE DEF R
<1>3. StrictOrder(R, S)
    BY <1>1, <1>2 DEF StrictOrder
<1>4. \A x \in S : Rank(R, S, x) = Cardinality({i \in S : i < x})
  <2> TAKE x \in S
  <2>1. Below(R, S, x) = {i \in S : i < x}
      BY <1>1 DEF Below
  <2> QED BY <2>1 DEF Rank
<1>5. Ascending(S) = Ranked(R, S)
  <2> DEFINE byRank(r) == CHOOSE x \in S : Rank(R, S, x) = r - 1
             byCount(r) == CHOOSE x \in S : Cardinality({i \in S : i < x}) = r - 1
  <2>1. \A r : byRank(r) = byCount(r)
      BY <1>4
  <2>2. Ascending(S) = [r \in 1 .. Cardinality(S) |-> byCount(r)]
      BY DEF Ascending
  <2>3. [r \in 1 .. Cardinality(S) |-> byRank(r)] = [r \in 1 .. Cardinality(S) |-> byCount(r)]
    <3> HIDE DEF byRank, byCount
    <3> QED BY <2>1
  <2> QED BY <2>2, <2>3 DEF Ranked
<1> DEFINE n == Cardinality(S)
           k == Ascending(S)
<1>6. k \in Bijection(1..n, S) /\ \A r \in 1..n : Rank(R, S, k[r]) = r - 1
    BY <1>3, <1>5, ByRank
<1>7. k \in [1..n -> S]
  <2> DEFINE D == 1..n
  <2>1. k \in Bijection(D, S)
      BY <1>6
  <2> HIDE DEF D, k
  <2>2. k \in [D -> S]
      BY <2>1, BijectionIs
  <2> QED BY <2>2 DEF D
<1>8. ASSUME NEW r \in 1..n PROVE Cardinality({i \in S : i < k[r]}) = r - 1
  <2>1. k[r] \in S /\ Rank(R, S, k[r]) = r - 1
      BY <1>6, <1>7
  <2> HIDE DEF k
  <2> QED BY <1>4, <2>1
<1> QED BY <1>6, <1>8
==============================================================================
