---------------------------- MODULE TraversalProofs ----------------------------
(***************************************************************************)
(* For every graph and every path: the loops keep their types; MATCH       *)
(* returns the ends of the walks, in order and with the scores it should;  *)
(* COUNT is the number of the walks; a closure returns nothing that is out *)
(* of reach and nothing twice, and a closure of one step returns exactly   *)
(* the reachable records, nearest first, with their distances.             *)
(***************************************************************************)
EXTENDS Traversal, FiniteSetTheorems, TLAPS

(***************************************************************************)
(* Sequences of records.                                                   *)
(***************************************************************************)

\* The elements of a sequence are the members it ranges over.
LEMMA RangeOf ==
    ASSUME NEW S, NEW q \in Seq(S)
    PROVE  /\ Range(q) \subseteq S
           /\ \A i \in 1..Len(q) : q[i] \in Range(q)
           /\ \A x \in Range(q) : \E i \in 1..Len(q) : q[i] = x
    BY DEF Range

\* How the loops make sequences: from nothing, from one element, by appending.
LEMMA SeqTyped ==
    ASSUME NEW S, NEW q \in Seq(S), NEW x \in S
    PROVE  /\ <<>> \in Seq(S)
           /\ <<x>> \in Seq(S) /\ <<x>> # <<>> /\ <<x>>[1] = x
           /\ Append(q, x) \in Seq(S) /\ Append(q, x) # <<>>
           /\ q # <<>> => Append(q, x)[1] = q[1]
<1>1. <<x>> \in Seq(S) /\ Len(<<x>>) = 1 /\ <<x>>[1] = x
    OBVIOUS
<1>2. <<x>> # <<>>
    BY <1>1
<1>3. Append(q, x) \in Seq(S) /\ Len(Append(q, x)) = Len(q) + 1 /\ Len(q) \in Nat
    OBVIOUS
<1>4. Append(q, x) # <<>>
    BY <1>3
<1>5. q # <<>> => Append(q, x)[1] = q[1]
    OBVIOUS
<1> QED BY <1>1, <1>2, <1>3, <1>4, <1>5

\* Append adds one element to what a sequence ranges over.
LEMMA RangeAppend ==
    ASSUME NEW S, NEW q \in Seq(S), NEW x \in S
    PROVE  Range(Append(q, x)) = Range(q) \cup {x}
<1>1. Append(q, x) \in Seq(S) /\ Len(Append(q, x)) = Len(q) + 1
    OBVIOUS
<1>2. \A i \in 1..Len(q) : Append(q, x)[i] = q[i]
    OBVIOUS
<1>3. Append(q, x)[Len(q) + 1] = x
    OBVIOUS
<1>4. DOMAIN q = 1..Len(q) /\ DOMAIN Append(q, x) = 1..(Len(q) + 1) /\ Len(q) \in Nat
    OBVIOUS
<1>5. ASSUME NEW y \in Range(Append(q, x)) PROVE y \in Range(q) \cup {x}
    BY <1>2, <1>3, <1>4 DEF Range
<1>6. ASSUME NEW y \in Range(q) \cup {x} PROVE y \in Range(Append(q, x))
  <2>1. CASE y = x
    <3>1. Len(q) + 1 \in DOMAIN Append(q, x)
        BY <1>4
    <3> QED BY <2>1, <3>1, <1>3 DEF Range
  <2>2. CASE y \in Range(q)
    <3>1. PICK i \in 1..Len(q) : q[i] = y
        BY <2>2, RangeOf
    <3>2. i \in DOMAIN Append(q, x)
        BY <1>4
    <3> QED BY <3>1, <3>2, <1>2 DEF Range
  <2> QED BY <2>1, <2>2
<1> QED BY <1>5, <1>6

\* A sequence without its first element ranges over no more, and over all that
\* is not that element.
LEMMA RangeTail ==
    ASSUME NEW S, NEW q \in Seq(S), q # <<>>
    PROVE  /\ Tail(q) \in Seq(S)
           /\ Range(Tail(q)) \subseteq Range(q)
<1>1. Tail(q) \in Seq(S) /\ Len(Tail(q)) = Len(q) - 1 /\ Len(q) \in Nat \ {0}
    OBVIOUS
<1>2. \A i \in 1..Len(Tail(q)) : Tail(q)[i] = q[i + 1] /\ i + 1 \in 1..Len(q)
    BY <1>1
<1> QED BY <1>1, <1>2, RangeOf DEF Range

\* Nothing twice stays so when something new is appended.
LEMMA AppendDistinct ==
    ASSUME NEW S, NEW q \in Seq(S), NEW x \in S, IsInjective(q), x \notin Range(q)
    PROVE  IsInjective(Append(q, x))
<1>1. /\ Append(q, x) \in Seq(S) /\ Len(Append(q, x)) = Len(q) + 1
      /\ \A i \in 1..Len(q) : Append(q, x)[i] = q[i]
      /\ Append(q, x)[Len(q) + 1] = x
    OBVIOUS
<1>2. DOMAIN q = 1..Len(q) /\ DOMAIN Append(q, x) = 1..(Len(q) + 1) /\ Len(q) \in Nat
    OBVIOUS
<1>3. \A i \in 1..Len(q) : q[i] # x
    BY RangeOf
<1>4. ASSUME NEW i \in 1..(Len(q) + 1), NEW j \in 1..(Len(q) + 1),
             Append(q, x)[i] = Append(q, x)[j]
      PROVE  i = j
  <2>1. CASE i \in 1..Len(q) /\ j \in 1..Len(q)
      BY <2>1, <1>1, <1>2, <1>4 DEF IsInjective
  <2>2. CASE i = Len(q) + 1 \/ j = Len(q) + 1
      BY <2>2, <1>1, <1>2, <1>3, <1>4
  <2> QED BY <2>1, <2>2, <1>2
<1>5. \A i, j \in DOMAIN Append(q, x) : Append(q, x)[i] = Append(q, x)[j] => i = j
    BY <1>2, <1>4
<1> QED BY <1>5, Zenon DEF IsInjective

(***************************************************************************)
(* Types.  A step of CLOSURE starts from the tail of what was visited, so  *)
(* that there is a first record visited is part of the invariant.          *)
(***************************************************************************)

StartVisited == Start \in graph.records => visited # <<>> /\ visited[1] = Start

TypeInv == TypeOK /\ StartVisited

\* What the input is made of.
LEMMA InputTyped ==
    ASSUME graph \in Graphs, path \in Paths
    PROVE  /\ graph.records \in SUBSET Ids /\ graph.edges \in Seq(Edges)
           /\ Start \in Ids /\ path.steps \in Seq(Steps) /\ Len(path.steps) \in Nat \ {0}
<1>1. graph \in [records : SUBSET Ids, edges : Seq(Edges)]
    BY GraphsTyped
<1>2. path \in [start : Ids, steps : Seq(Steps)] /\ path.steps # <<>>
    BY PathsTyped, PathsNotEmpty
<1> QED BY <1>1, <1>2 DEF Start

\* A query starts with its types right.
LEMMA TypeInit == Init => TypeInv
<1> SUFFICES ASSUME Init PROVE TypeInv
    OBVIOUS
<1>1. graph \in Graphs /\ path \in Paths
    BY DEF Init
<1>2. Len(path.steps) \in Nat \ {0}
    BY <1>1, InputTyped
<1>3. done \in BOOLEAN /\ (~done <=> Start \in graph.records)
    BY Zenon DEF Init
<1>4. CASE Start \in graph.records
  <2>1. frontier = <<Start>> /\ visited = <<Start>> /\ next = <<>>
      BY <1>4 DEF Init
  <2>2. /\ frontier \in Seq(graph.records) /\ next \in Seq(graph.records)
        /\ visited \in Seq(graph.records) /\ visited # <<>> /\ visited[1] = Start
    <3>1. <<>> \in Seq(graph.records)
        OBVIOUS
    <3> QED BY <1>4, <2>1, <3>1, SeqTyped
  <2>3. s = 1 /\ f = 1 /\ e = 1 /\ depth = 1 /\ query \in Queries
      BY DEF Init
  <2> QED BY <1>1, <1>2, <1>3, <2>2, <2>3 DEF TypeInv, TypeOK, StartVisited
<1>5. CASE Start \notin graph.records
  <2>1. frontier = <<>> /\ visited = <<>> /\ next = <<>>
      BY <1>5 DEF Init
  <2>2. s = 1 /\ f = 1 /\ e = 1 /\ depth = 1 /\ query \in Queries
      BY DEF Init
  <2> QED BY <1>1, <1>3, <1>5, <2>1, <2>2 DEF TypeInv, TypeOK, StartVisited
<1> QED BY <1>4, <1>5

\* Every turn of a loop keeps the types.
LEMMA TypeNext == TypeInv /\ [Next]_vars => TypeInv'
<1> SUFFICES ASSUME TypeInv, [Next]_vars PROVE TypeInv'
    OBVIOUS
<1> USE DEF TypeInv, StartVisited, TypeOK, input, counts, Running, Start
<1>1. /\ graph.edges \in Seq(Edges) /\ Len(graph.edges) \in Nat
      /\ path.steps \in Seq(Steps) /\ Len(path.steps) \in Nat \ {0}
    BY InputTyped
<1>2. Crosses(Edge, Step) => Reached \in graph.records
    BY DEF Crosses, Reached
<1>3. CASE FollowMatch
  <2>0. Reached \in graph.records
      BY <1>2, <1>3 DEF FollowMatch
  <2>1. next' = next \/ next' = Append(next, Reached)
      BY <1>3 DEF FollowMatch
  <2>2. Append(next, Reached) \in Seq(graph.records)
      BY <2>0, SeqTyped
  <2>3. next' \in Seq(graph.records)
      BY <2>1, <2>2
  <2> QED BY <2>3, <1>3 DEF FollowMatch
<1>4. CASE SkipMatch
    BY <1>4 DEF SkipMatch
<1>5. CASE StepMatch
  <2>0. s' = s + 1 /\ (~done' => s # Len(path.steps)) /\ ~done /\ done' \in BOOLEAN
      BY <1>5, Zenon DEF StepMatch
  <2>1. s' \in Nat \ {0} /\ (~done' => s' <= Len(path.steps))
      BY <1>1, <2>0
  <2> QED BY <2>1, <1>5 DEF StepMatch
<1>6. CASE FollowCount \/ SkipCount
    BY SMTT(30), <1>6 DEF FollowCount, SkipCount
<1>7. CASE StepCount
  <2>0. s' = s + 1 /\ (~done' => s # Len(path.steps)) /\ ~done /\ done' \in BOOLEAN
      BY <1>7, Zenon DEF StepCount
  <2>1. s' \in Nat \ {0} /\ (~done' => s' <= Len(path.steps))
      BY <1>1, <2>0
  <2> QED BY <2>1, <1>7 DEF StepCount
<1>8. CASE FollowClosure
  <2>1. next' \in Seq(graph.records) /\ visited' \in Seq(graph.records)
      BY <1>2, <1>8 DEF FollowClosure
  <2>2. visited' # <<>> /\ visited'[1] = path.start
      BY <1>8 DEF FollowClosure, AtVertex
  <2>3. e' = e + 1 /\ UNCHANGED <<graph, path, query, done, s, f, frontier, depth>>
      BY <1>8 DEF FollowClosure
  <2>4. e' \in Nat \ {0}
      BY <2>3
  <2> QED BY <2>1, <2>2, <2>3, <2>4
<1>9. CASE SkipClosure \/ VertexClosure
    BY <1>9 DEF SkipClosure, VertexClosure
<1>10. CASE RoundClosure
    BY <1>10 DEF RoundClosure
<1>11. CASE StepClosure
  <2>0. s' = s + 1 /\ (~done' => s # Len(path.steps)) /\ ~done /\ done' \in BOOLEAN
      BY <1>11, Zenon DEF StepClosure
  <2>1. s' \in Nat \ {0} /\ (~done' => s' <= Len(path.steps))
      BY <1>1, <2>0
  <2>2. frontier' \in Seq(graph.records)
      BY <1>11, RangeTail DEF StepClosure
  <2> QED BY <2>1, <2>2, <1>11 DEF StepClosure
<1>12. CASE UNCHANGED vars
    BY <1>12 DEF vars, loops
<1> QED
    BY <1>3, <1>4, <1>5, <1>6, <1>7, <1>8, <1>9, <1>10, <1>11, <1>12 DEF Next

\* Type correctness: every variable of the three loops stays in its type; while a
\* query runs, its step is one of the path's.
THEOREM TraversalTyped == Spec => []TypeOK
<1>1. Spec => []TypeInv
    BY TypeInit, TypeNext, PTL DEF Spec
<1> QED BY <1>1, PTL DEF TypeInv

(***************************************************************************)
(* CLOSURE returns nothing that is out of reach.  Whatever set is closed   *)
(* under the path's steps, the walk does not leave it, because it only     *)
(* goes on from records it has visited.                                    *)
(***************************************************************************)

ClosedUnderPath(set) == \A i \in DOMAIN path.steps : ClosedUnder(set, path.steps[i])

InsideClosed ==
    \A set \in SUBSET Ids : Start \in set /\ ClosedUnderPath(set) => Range(visited) \subseteq set

SoundInv ==
    query = "closure" =>
        /\ Range(frontier) \subseteq Range(visited)
        /\ Range(next) \subseteq Range(visited)
        /\ IsInjective(visited)
        /\ InsideClosed

\* Before the walk only the start, or nothing, is visited.
LEMMA SoundInit == Init => SoundInv
<1> SUFFICES ASSUME Init PROVE SoundInv
    OBVIOUS
<1>1. CASE Start \in graph.records
  <2>1. frontier = <<Start>> /\ visited = <<Start>> /\ next = <<>>
      BY <1>1 DEF Init
  <2>2. Range(visited) = {Start} /\ Range(next) = {} /\ IsInjective(visited)
      BY <2>1 DEF Range, IsInjective
  <2> QED BY <2>1, <2>2 DEF SoundInv, InsideClosed
<1>2. CASE Start \notin graph.records
  <2>1. frontier = <<>> /\ visited = <<>> /\ next = <<>>
      BY <1>2 DEF Init
  <2>2. Range(visited) = {} /\ Range(next) = {} /\ IsInjective(visited)
      BY <2>1 DEF Range, IsInjective
  <2> QED BY <2>1, <2>2 DEF SoundInv, InsideClosed
<1> QED BY <1>1, <1>2

\* The edge a closure looks at, and its step, are ones of the graph and the path.
LEMMA AtEdge ==
    ASSUME TypeInv, AtVertex
    PROVE  /\ e \in DOMAIN graph.edges /\ s \in DOMAIN path.steps
           /\ f \in 1..Len(frontier) /\ frontier[f] \in Range(frontier)
           /\ ~done /\ query = "closure"
<1>1. graph.edges \in Seq(Edges) /\ path.steps \in Seq(Steps)
    BY InputTyped DEF TypeInv, TypeOK
<1>2. ~done /\ query = "closure" /\ f <= Len(frontier) /\ e <= Len(graph.edges)
    BY DEF AtVertex, Running
<1>3. /\ s \in Nat \ {0} /\ f \in Nat \ {0} /\ e \in Nat \ {0} /\ s <= Len(path.steps)
      /\ frontier \in Seq(graph.records)
    BY <1>2 DEF TypeInv, TypeOK
<1>4. f \in 1..Len(frontier) /\ frontier[f] \in Range(frontier)
    BY <1>2, <1>3, RangeOf
<1> QED BY <1>1, <1>2, <1>3, <1>4

\* A new record is visited: what that does to the sequences.
LEMMA VisitNew ==
    ASSUME TypeInv, FollowClosure
    PROVE  /\ Reached \in graph.records
           /\ Range(visited') = Range(visited) \cup {Reached}
           /\ Range(next') = Range(next) \cup {Reached}
           /\ IsInjective(visited) => IsInjective(visited')
<1>1. Reached \in graph.records
    BY DEF FollowClosure, Crosses, Reached
<1>2. /\ visited \in Seq(graph.records) /\ next \in Seq(graph.records)
      /\ Reached \notin Range(visited)
      /\ visited' = Append(visited, Reached) /\ next' = Append(next, Reached)
    BY DEF FollowClosure, TypeInv, TypeOK
<1> QED BY <1>1, <1>2, RangeAppend, AppendDistinct

\* The walk stays inside every closed set.
LEMMA SoundNext == TypeInv /\ SoundInv /\ [Next]_vars => SoundInv'
<1> SUFFICES ASSUME TypeInv, SoundInv, [Next]_vars, query' = "closure" PROVE SoundInv'
    BY DEF SoundInv
<1>1. query = "closure" /\ UNCHANGED <<graph, path>>
    BY DEF Next, vars, input, FollowMatch, SkipMatch, StepMatch, FollowCount, SkipCount, StepCount,
           FollowClosure, SkipClosure, VertexClosure, RoundClosure, StepClosure
<1>2. /\ Range(frontier) \subseteq Range(visited) /\ Range(next) \subseteq Range(visited)
      /\ IsInjective(visited) /\ InsideClosed
    BY <1>1 DEF SoundInv
<1>3. CASE FollowClosure
  <2>1. /\ Range(visited') = Range(visited) \cup {Reached}
        /\ Range(next') = Range(next) \cup {Reached}
        /\ IsInjective(visited') /\ frontier' = frontier
      BY <1>2, <1>3, VisitNew DEF FollowClosure
  <2>2. ASSUME NEW set \in SUBSET Ids, Start \in set, ClosedUnderPath(set)
        PROVE  Range(visited') \subseteq set
    <3>1. Range(visited) \subseteq set
        BY <2>2, <1>2 DEF InsideClosed
    <3>2. Near(Edge, Step) \in set /\ Crosses(Edge, Step)
        BY <3>1, <1>2, <1>3, AtEdge DEF FollowClosure
    <3>3. ClosedUnder(set, Step) /\ e \in DOMAIN graph.edges
        BY <2>2, <1>3, AtEdge DEF ClosedUnderPath, FollowClosure, Step
    <3>4. Reached \in set
        BY <3>2, <3>3 DEF ClosedUnder, Edge, Reached
    <3> QED BY <3>1, <3>4, <2>1
  <2>3. InsideClosed'
      BY <2>2, <1>1 DEF InsideClosed, ClosedUnderPath, ClosedUnder, Crosses, Start
  <2> QED BY <2>1, <2>3, <1>2 DEF SoundInv
<1>4. ASSUME UNCHANGED visited,
             Range(frontier') \subseteq Range(visited), Range(next') \subseteq Range(visited)
      PROVE  SoundInv'
    BY <1>1, <1>2, <1>4
       DEF SoundInv, InsideClosed, ClosedUnderPath, ClosedUnder, Crosses, Start
<1>5. CASE SkipClosure \/ VertexClosure
    BY <1>5, <1>4, <1>2 DEF SkipClosure, VertexClosure
<1>6. CASE RoundClosure
  <2>1. Range(next') = {}
      BY <1>6 DEF RoundClosure, Range
  <2> QED BY <2>1, <1>6, <1>4, <1>2 DEF RoundClosure
<1>7. CASE StepClosure
  <2>1. visited # <<>> /\ visited \in Seq(graph.records)
      BY <1>7 DEF StepClosure, Running, TypeInv, TypeOK, StartVisited
  <2>2. Range(frontier') \subseteq Range(visited)
      BY <2>1, <1>7, RangeTail DEF StepClosure
  <2> QED BY <2>2, <1>7, <1>4, <1>2 DEF StepClosure
<1>8. CASE \/ FollowMatch \/ SkipMatch \/ StepMatch
           \/ FollowCount \/ SkipCount \/ StepCount
    BY <1>8, <1>1 DEF FollowMatch, SkipMatch, StepMatch, FollowCount, SkipCount, StepCount, Running
<1>9. CASE UNCHANGED vars
    BY <1>9, <1>4, <1>2 DEF vars
<1> QED BY <1>3, <1>5, <1>6, <1>7, <1>8, <1>9 DEF Next

\* A closure returns nothing twice and nothing that its steps, each taken any
\* number of times, do not reach.
THEOREM ClosureReachesNoMore == Spec => []ClosureSound
<1>1. TypeInv /\ SoundInv => ClosureSound
    BY DEF SoundInv, InsideClosed, ClosedUnderPath, ClosureSound
<1>2. Spec => [](TypeInv /\ SoundInv)
    BY TypeInit, TypeNext, SoundInit, SoundNext, PTL DEF Spec
<1> QED BY <1>1, <1>2, PTL

(***************************************************************************)
(* A closure of one step returns all that is in reach.  Every record       *)
(* visited is still to be looked at, in the next round or in this one, or  *)
(* every edge that leaves it has been followed; of the vertex being looked *)
(* at, the edges before e have been.                                       *)
(***************************************************************************)

\* The edges before n that leave id lead to records visited.
Expanded(id, n) ==
    \A j \in DOMAIN graph.edges :
        /\ j < n
        /\ Near(graph.edges[j], path.steps[1]) = id
        /\ Crosses(graph.edges[j], path.steps[1])
        => Far(graph.edges[j], path.steps[1]) \in Range(visited)

AllExpanded(id) == Expanded(id, Len(graph.edges) + 1)

Waiting(id) == id \in Range(next) \/ \E i \in f..Len(frontier) : frontier[i] = id

OneStep == query = "closure" /\ Len(path.steps) = 1 /\ Start \in graph.records

ScanInv ==
    OneStep =>
        /\ e <= Len(graph.edges) + 1
        /\ ~done => s = 1 /\ \A id \in Range(visited) : Waiting(id) \/ AllExpanded(id)
        /\ ~done /\ f <= Len(frontier) => Expanded(frontier[f], e)
        /\ done => \A id \in Range(visited) : AllExpanded(id)

\* At the start the only record visited is the one to be looked at first.
LEMMA ScanInit == Init => ScanInv
<1> SUFFICES ASSUME Init, OneStep PROVE ScanInv
    BY DEF ScanInv
<1>1. ~done /\ frontier = <<Start>> /\ visited = <<Start>> /\ s = 1 /\ f = 1 /\ e = 1
    BY Zenon DEF Init, OneStep
<1>2. Len(graph.edges) \in Nat
    BY InputTyped DEF Init
<1>3. \A id \in Range(visited) : id = Start
    BY <1>1 DEF Range
<1>4. \A id \in Range(visited) : Waiting(id)
    BY <1>1, <1>3 DEF Waiting
<1>5. Expanded(frontier[f], e)
    BY <1>1, InputTyped DEF Expanded, Init
<1> QED BY <1>1, <1>2, <1>4, <1>5 DEF ScanInv

\* The walk forgets no record and no edge.
LEMMA ScanNext == TypeInv /\ SoundInv /\ ScanInv /\ [Next]_vars => ScanInv'
<1> SUFFICES ASSUME TypeInv, SoundInv, ScanInv, [Next]_vars, OneStep' PROVE ScanInv'
    BY DEF ScanInv
<1>1. UNCHANGED <<graph, path, query>>
    BY DEF Next, vars, input, FollowMatch, SkipMatch, StepMatch, FollowCount, SkipCount, StepCount,
           FollowClosure, SkipClosure, VertexClosure, RoundClosure, StepClosure
<1>2. OneStep
    BY <1>1 DEF OneStep, Start
<1>3. /\ Len(graph.edges) \in Nat /\ DOMAIN graph.edges = 1..Len(graph.edges)
      /\ f \in Nat \ {0} /\ e \in Nat \ {0} /\ e <= Len(graph.edges) + 1
      /\ frontier \in Seq(graph.records) /\ next \in Seq(graph.records)
    BY <1>2, InputTyped DEF ScanInv, TypeInv, TypeOK
<1>4. ASSUME ~done
      PROVE  /\ s = 1 /\ Step = path.steps[1]
             /\ \A id \in Range(visited) : Waiting(id) \/ AllExpanded(id)
             /\ f <= Len(frontier) => Expanded(frontier[f], e)
    BY <1>2, <1>4 DEF ScanInv, Step
<1>5. ASSUME Range(visited) \subseteq Range(visited')
      PROVE  \A id, n : Expanded(id, n) => Expanded(id, n)'
    BY <1>1, <1>5 DEF Expanded, Crosses
<1>6. CASE FollowClosure
  <2>1. ~done /\ done' = done /\ e' = e + 1 /\ f' = f /\ s' = s /\ frontier' = frontier
      BY <1>6, Zenon DEF FollowClosure, AtVertex, Running
  <2>2. e \in DOMAIN graph.edges /\ f \in 1..Len(frontier)
      BY <1>6, AtEdge DEF FollowClosure
  <2>3. /\ Range(visited') = Range(visited) \cup {Reached}
        /\ Range(next') = Range(next) \cup {Reached}
      BY <1>6, VisitNew
  <2>4. ASSUME NEW id \in Range(visited') PROVE Waiting(id)' \/ AllExpanded(id)'
    <3>1. CASE id = Reached
        BY <3>1, <2>3 DEF Waiting
    <3>2. CASE id \in Range(visited)
      <4>1. Waiting(id) \/ AllExpanded(id)
          BY <3>2, <2>1, <1>4
      <4>2. Waiting(id) => Waiting(id)'
          BY <2>1, <2>3 DEF Waiting
      <4>3. AllExpanded(id) => AllExpanded(id)'
          BY <2>3, <1>5, <1>1 DEF AllExpanded
      <4> QED BY <4>1, <4>2, <4>3
    <3> QED BY <3>1, <3>2, <2>3
  <2>5. Expanded(frontier[f], e)'
    <3>1. Expanded(frontier[f], e)
        BY <2>1, <2>2, <1>4
    <3>2. SUFFICES ASSUME NEW j \in DOMAIN graph.edges, j < e + 1,
                          Near(graph.edges[j], path.steps[1]) = frontier[f],
                          Crosses(graph.edges[j], path.steps[1])
                   PROVE  Far(graph.edges[j], path.steps[1]) \in Range(visited')
        BY <2>1, <1>1 DEF Expanded, Crosses
    <3>3. CASE j < e
        BY <3>1, <3>2, <3>3, <2>3 DEF Expanded
    <3>4. CASE j = e
        BY <3>4, <2>1, <2>3, <1>4 DEF Reached, Edge
    <3> QED BY <3>2, <3>3, <3>4, <1>3
  <2>6. e' <= Len(graph.edges') + 1
      BY <2>1, <2>2, <1>1, <1>3
  <2> QED BY <2>1, <2>4, <2>5, <2>6, <1>4 DEF ScanInv
<1>7. CASE SkipClosure
  <2>1. /\ ~done /\ done' = done /\ e' = e + 1 /\ f' = f /\ s' = s
        /\ frontier' = frontier /\ next' = next /\ visited' = visited
      BY <1>7, Zenon DEF SkipClosure, AtVertex, Running
  <2>2. e \in DOMAIN graph.edges /\ f \in 1..Len(frontier)
      BY <1>7, AtEdge DEF SkipClosure
  <2>3. ASSUME NEW id \in Range(visited') PROVE Waiting(id)' \/ AllExpanded(id)'
      BY <2>1, <1>1, <1>4, <1>5 DEF Waiting, AllExpanded
  <2>4. Expanded(frontier[f], e)'
    <3>1. Expanded(frontier[f], e)
        BY <2>1, <2>2, <1>4
    <3>2. SUFFICES ASSUME NEW j \in DOMAIN graph.edges, j < e + 1,
                          Near(graph.edges[j], path.steps[1]) = frontier[f],
                          Crosses(graph.edges[j], path.steps[1])
                   PROVE  Far(graph.edges[j], path.steps[1]) \in Range(visited)
        BY <2>1, <1>1 DEF Expanded, Crosses
    <3>3. CASE j < e
        BY <3>1, <3>2, <3>3 DEF Expanded
    <3>4. CASE j = e
      <4>1. Near(Edge, Step) = frontier[f] /\ Crosses(Edge, Step)
          BY <3>2, <3>4, <2>1, <1>4 DEF Edge
      <4>2. Reached \in Range(visited)
          BY <4>1, <1>7 DEF SkipClosure
      <4> QED BY <4>2, <3>4, <2>1, <1>4 DEF Reached, Edge
    <3> QED BY <3>2, <3>3, <3>4, <1>3
  <2>5. e' <= Len(graph.edges') + 1
      BY <2>1, <2>2, <1>1, <1>3
  <2> QED BY <2>1, <2>3, <2>4, <2>5, <1>4 DEF ScanInv
<1>8. CASE VertexClosure
  <2>1. /\ ~done /\ done' = done /\ e' = 1 /\ f' = f + 1 /\ s' = s
        /\ frontier' = frontier /\ next' = next /\ visited' = visited
        /\ f <= Len(frontier) /\ e > Len(graph.edges)
      BY <1>8, Zenon DEF VertexClosure, Running
  <2>2. AllExpanded(frontier[f])
    <3>1. e = Len(graph.edges) + 1
        BY <2>1, <1>3
    <3> QED BY <3>1, <2>1, <1>4 DEF AllExpanded
  <2>3. ASSUME NEW id \in Range(visited') PROVE Waiting(id)' \/ AllExpanded(id)'
    <3>1. CASE Waiting(id)
      <4>1. id = frontier[f] \/ Waiting(id)'
          BY <3>1, <2>1, <1>3 DEF Waiting
      <4>2. id = frontier[f] => AllExpanded(id)'
          BY <2>2, <2>1, <1>1, <1>5 DEF AllExpanded
      <4> QED BY <4>1, <4>2
    <3>2. CASE AllExpanded(id)
        BY <3>2, <2>1, <1>1, <1>5 DEF AllExpanded
    <3> QED BY <3>1, <3>2, <2>1, <1>4
  <2>4. Expanded(frontier[f], e)'
      BY <2>1, <1>1, <1>3 DEF Expanded
  <2> QED BY <2>1, <2>3, <2>4, <1>1, <1>3, <1>4 DEF ScanInv
<1>9. CASE RoundClosure
  <2>1. /\ ~done /\ done' = done /\ e' = 1 /\ f' = 1 /\ s' = s
        /\ frontier' = next /\ visited' = visited /\ f > Len(frontier)
      BY <1>9, Zenon DEF RoundClosure, Running
  <2>2. ASSUME NEW id \in Range(visited') PROVE Waiting(id)' \/ AllExpanded(id)'
    <3>1. CASE Waiting(id)
      <4>1. id \in Range(next)
          BY <3>1, <2>1, <1>3 DEF Waiting
      <4>2. \E i \in 1..Len(next) : next[i] = id
          BY <4>1, <1>3, RangeOf
      <4> QED BY <4>2, <2>1 DEF Waiting
    <3>2. CASE AllExpanded(id)
        BY <3>2, <2>1, <1>1, <1>5 DEF AllExpanded
    <3> QED BY <3>1, <3>2, <2>1, <1>4
  <2>3. Expanded(frontier[f], e)'
      BY <2>1, <1>1, <1>3 DEF Expanded
  <2> QED BY <2>1, <2>2, <2>3, <1>1, <1>3, <1>4 DEF ScanInv
<1>10. CASE StepClosure
  <2>1. /\ ~done /\ e' = 1 /\ visited' = visited /\ f > Len(frontier) /\ next = <<>>
        /\ done' = (s = Len(path.steps))
      BY <1>10, Zenon DEF StepClosure, Running
  <2>2. done'
      BY <2>1, <1>2, <1>4 DEF OneStep
  <2>3. ASSUME NEW id \in Range(visited) PROVE AllExpanded(id)'
    <3>1. ~Waiting(id)
        BY <2>1, <1>3 DEF Waiting, Range
    <3> QED BY <3>1, <2>1, <1>1, <1>4, <1>5 DEF AllExpanded
  <2> QED BY <2>1, <2>2, <2>3, <1>1, <1>3 DEF ScanInv
<1>11. CASE \/ FollowMatch \/ SkipMatch \/ StepMatch
            \/ FollowCount \/ SkipCount \/ StepCount
    BY <1>11, <1>2
       DEF FollowMatch, SkipMatch, StepMatch, FollowCount, SkipCount, StepCount, Running, OneStep
<1>12. CASE UNCHANGED vars
    BY <1>12
       DEF vars, loops, input, ScanInv, OneStep, Start, Waiting, AllExpanded, Expanded, Crosses
<1> QED BY <1>6, <1>7, <1>8, <1>9, <1>10, <1>11, <1>12 DEF Next

\* A closure of one step returns the least set that has the start in it and that
\* no edge of the step leaves: the records reachable from the start.
THEOREM ClosureReachesAll == Spec => []ClosureExact
<1>1. TypeInv /\ SoundInv /\ ScanInv => ClosureExact
  <2> SUFFICES ASSUME TypeInv, SoundInv, ScanInv, Returned("closure"),
                      Len(path.steps) = 1, Start \in graph.records
               PROVE  /\ Start \in Range(visited)
                      /\ ClosedUnder(Range(visited), path.steps[1])
                      /\ \A set \in SUBSET Ids :
                            Start \in set /\ ClosedUnder(set, path.steps[1])
                              => Range(visited) \subseteq set
      BY DEF ClosureExact
  <2>1. OneStep /\ done
      BY DEF OneStep, Returned
  <2>2. Start \in Range(visited)
    <3>1. visited \in Seq(graph.records) /\ visited # <<>> /\ visited[1] = Start
        BY DEF TypeInv, TypeOK, StartVisited
    <3>2. 1 \in 1..Len(visited)
        BY <3>1
    <3> QED BY <3>1, <3>2, RangeOf
  <2>3. \A id \in Range(visited) : AllExpanded(id)
      BY <2>1 DEF ScanInv
  <2>4. ClosedUnder(Range(visited), path.steps[1])
    <3>1. graph.edges \in Seq(Edges)
        BY InputTyped DEF TypeInv, TypeOK
    <3>2. \A j \in DOMAIN graph.edges : j < Len(graph.edges) + 1
        BY <3>1
    <3> QED BY <2>3, <3>2 DEF ClosedUnder, AllExpanded, Expanded
  <2>5. DOMAIN path.steps = {1}
    <3>1. path.steps \in Seq(Steps)
        BY InputTyped DEF TypeInv, TypeOK
    <3> QED BY <3>1
  <2>6. \A set \in SUBSET Ids : ClosedUnder(set, path.steps[1]) => ClosedUnderPath(set)
      BY <2>5 DEF ClosedUnderPath
  <2> QED BY <2>1, <2>2, <2>4, <2>6 DEF OneStep, SoundInv, InsideClosed
<1>2. Spec => [](TypeInv /\ SoundInv /\ ScanInv)
    BY TypeInit, TypeNext, SoundInit, SoundNext, ScanInit, ScanNext, PTL DEF Spec
<1> QED BY <1>1, <1>2, PTL

(***************************************************************************)
(* Walks.  The queries never look at one: a step of theirs goes on from    *)
(* the records where walks ended.  A walk with one edge more is a walk and *)
(* an edge that a step may follow from its end.                            *)
(***************************************************************************)

\* Where the walks of n steps end, the edges step n follows from the ends of the
\* step before, and what such an edge reaches.
Ends(n) == {EndOf(n, w) : w \in Walks(n)}

Follows(j, n) == j \in DOMAIN graph.edges /\ Crosses(graph.edges[j], path.steps[n])

NearOf(j, n) == Near(graph.edges[j], path.steps[n])
FarOf(j, n) == Far(graph.edges[j], path.steps[n])

Hits(n) == {j \in DOMAIN graph.edges : Follows(j, n) /\ NearOf(j, n) \in Ends(n - 1)}

Shorter(n, w) == [i \in 1..(n - 1) |-> w[i]]
Longer(n, w, j) == [i \in 1..n |-> IF i = n THEN j ELSE w[i]]

\* The walk of no steps ends at the start.
LEMMA NoSteps ==
    /\ Start \notin graph.records => \A n : Walks(n) = {}
    /\ Start \in graph.records => Ends(0) = {Start} /\ \A w, u \in Walks(0) : w = u
<1>1. Start \notin graph.records => \A n : Walks(n) = {}
    BY DEF Walks
<1>2. ASSUME Start \in graph.records PROVE Ends(0) = {Start} /\ \A w, u \in Walks(0) : w = u
  <2>1. 1..0 = {}
      OBVIOUS
  <2>2. \A w, u \in [1..0 -> DOMAIN graph.edges] : w = u
      BY <2>1
  <2>3. [i \in 1..0 |-> i] \in Walks(0)
      BY <1>2, <2>1 DEF Walks
  <2> QED BY <2>2, <2>3 DEF Ends, EndOf, Walks
<1> QED BY <1>1, <1>2

\* A walk without its last edge is a walk, and that edge goes on from its end.
LEMMA WalkLast ==
    ASSUME NEW n \in Nat \ {0}, NEW w \in Walks(n)
    PROVE  /\ Shorter(n, w) \in Walks(n - 1)
           /\ w[n] \in DOMAIN graph.edges /\ Follows(w[n], n)
           /\ NearOf(w[n], n) = EndOf(n - 1, Shorter(n, w))
           /\ EndOf(n, w) = FarOf(w[n], n)
           /\ w = Longer(n, Shorter(n, w), w[n])
<1>1. /\ w \in [1..n -> DOMAIN graph.edges] /\ Start \in graph.records
      /\ \A i \in 1..n :
            /\ Crosses(graph.edges[w[i]], path.steps[i])
            /\ Near(graph.edges[w[i]], path.steps[i]) =
                  IF i = 1 THEN Start ELSE Far(graph.edges[w[i - 1]], path.steps[i - 1])
    BY DEF Walks
<1>2. n \in 1..n /\ \A i \in 1..(n - 1) : i \in 1..n /\ (i # 1 => i - 1 \in 1..(n - 1))
    OBVIOUS
<1>3. Shorter(n, w) \in [1..(n - 1) -> DOMAIN graph.edges]
    BY <1>1, <1>2 DEF Shorter
<1>4. ASSUME NEW i \in 1..(n - 1)
      PROVE  /\ Crosses(graph.edges[Shorter(n, w)[i]], path.steps[i])
             /\ Near(graph.edges[Shorter(n, w)[i]], path.steps[i]) =
                   IF i = 1 THEN Start
                   ELSE Far(graph.edges[Shorter(n, w)[i - 1]], path.steps[i - 1])
  <2>1. Shorter(n, w)[i] = w[i] /\ (i # 1 => Shorter(n, w)[i - 1] = w[i - 1])
      BY <1>2 DEF Shorter
  <2> QED BY <1>1, <1>2, <2>1
<1>5. Shorter(n, w) \in Walks(n - 1)
    BY <1>1, <1>3, <1>4 DEF Walks
<1>6. w[n] \in DOMAIN graph.edges /\ Follows(w[n], n)
    BY <1>1, <1>2 DEF Follows
<1>7. NearOf(w[n], n) = EndOf(n - 1, Shorter(n, w))
  <2>1. NearOf(w[n], n) = IF n = 1 THEN Start ELSE Far(graph.edges[w[n - 1]], path.steps[n - 1])
      BY <1>1, <1>2 DEF NearOf
  <2>2. n # 1 => Shorter(n, w)[n - 1] = w[n - 1]
      BY DEF Shorter
  <2> QED BY <2>1, <2>2 DEF EndOf
<1>8. EndOf(n, w) = FarOf(w[n], n)
    BY DEF EndOf, FarOf
<1>9. w = Longer(n, Shorter(n, w), w[n])
    BY <1>1 DEF Longer, Shorter
<1> QED BY <1>5, <1>6, <1>7, <1>8, <1>9

\* A walk goes on with every edge that the next step follows from its end.
LEMMA WalkMore ==
    ASSUME NEW n \in Nat \ {0}, NEW v \in Walks(n - 1), NEW j, Follows(j, n),
           NearOf(j, n) = EndOf(n - 1, v)
    PROVE  /\ Longer(n, v, j) \in Walks(n) /\ Longer(n, v, j)[n] = j
           /\ EndOf(n, Longer(n, v, j)) = FarOf(j, n)
           /\ Shorter(n, Longer(n, v, j)) = v
<1>1. /\ v \in [1..(n - 1) -> DOMAIN graph.edges] /\ Start \in graph.records
      /\ \A i \in 1..(n - 1) :
            /\ Crosses(graph.edges[v[i]], path.steps[i])
            /\ Near(graph.edges[v[i]], path.steps[i]) =
                  IF i = 1 THEN Start ELSE Far(graph.edges[v[i - 1]], path.steps[i - 1])
    BY DEF Walks
<1>2. /\ Longer(n, v, j)[n] = j
      /\ \A i \in 1..(n - 1) : Longer(n, v, j)[i] = v[i] /\ i # n
    BY DEF Longer
<1>3. Longer(n, v, j) \in [1..n -> DOMAIN graph.edges]
    BY <1>1 DEF Longer, Follows
<1>4. ASSUME NEW i \in 1..n
      PROVE  /\ Crosses(graph.edges[Longer(n, v, j)[i]], path.steps[i])
             /\ Near(graph.edges[Longer(n, v, j)[i]], path.steps[i]) =
                   IF i = 1 THEN Start
                   ELSE Far(graph.edges[Longer(n, v, j)[i - 1]], path.steps[i - 1])
  <2>1. CASE i = n
    <3>1. n # 1 => n - 1 \in 1..(n - 1)
        OBVIOUS
    <3>2. n # 1 => Longer(n, v, j)[n - 1] = v[n - 1]
        BY <3>1, <1>2
    <3>3. Near(graph.edges[j], path.steps[n]) =
             IF n = 1 THEN Start ELSE Far(graph.edges[v[n - 1]], path.steps[n - 1])
        BY DEF NearOf, EndOf
    <3> QED BY <2>1, <1>2, <3>2, <3>3 DEF Follows
  <2>2. CASE i # n
    <3>1. i \in 1..(n - 1) /\ (i # 1 => i - 1 \in 1..(n - 1))
        BY <2>2
    <3>2. Longer(n, v, j)[i] = v[i] /\ (i # 1 => Longer(n, v, j)[i - 1] = v[i - 1])
        BY <3>1, <1>2
    <3> QED BY <1>1, <3>1, <3>2
  <2> QED BY <2>1, <2>2
<1>5. Longer(n, v, j) \in Walks(n)
    BY <1>1, <1>3, <1>4 DEF Walks
<1>6. EndOf(n, Longer(n, v, j)) = FarOf(j, n)
    BY <1>2 DEF EndOf, FarOf
<1>7. Shorter(n, Longer(n, v, j)) = v
    BY <1>1, <1>2 DEF Shorter, Longer
<1> QED BY <1>2, <1>5, <1>6, <1>7

\* The edges by which walks arrive at a record are those that hit it.
LEMMA ArrivalsAre ==
    ASSUME NEW n \in Nat \ {0}, NEW id
    PROVE  /\ Arrivals(n, id) = {j \in Hits(n) : FarOf(j, n) = id}
           /\ id \in Ends(n) <=> Arrivals(n, id) # {}
<1>1. ASSUME NEW w \in Walks(n) PROVE w[n] \in Hits(n) /\ EndOf(n, w) = FarOf(w[n], n)
    BY WalkLast DEF Hits, Ends
<1>2. ASSUME NEW j \in Hits(n) PROVE \E w \in Walks(n) : w[n] = j /\ EndOf(n, w) = FarOf(j, n)
  <2>1. PICK v \in Walks(n - 1) : NearOf(j, n) = EndOf(n - 1, v)
      BY DEF Hits, Ends
  <2> QED BY <2>1, WalkMore DEF Hits
<1>3. Arrivals(n, id) = {j \in Hits(n) : FarOf(j, n) = id}
  <2>1. ASSUME NEW j \in Arrivals(n, id) PROVE j \in Hits(n) /\ FarOf(j, n) = id
      BY <1>1 DEF Arrivals
  <2>2. ASSUME NEW j \in Hits(n), FarOf(j, n) = id PROVE j \in Arrivals(n, id)
      BY <2>2, <1>2 DEF Arrivals
  <2> QED BY <2>1, <2>2
<1>4. id \in Ends(n) <=> Arrivals(n, id) # {}
    BY DEF Ends, Arrivals
<1> QED BY <1>3, <1>4

\* What the edges of a step reach is where its walks end.
LEMMA EndsAre ==
    ASSUME NEW n \in Nat \ {0}
    PROVE  Ends(n) = {FarOf(j, n) : j \in Hits(n)}
<1>1. \A id : id \in Ends(n) <=> \E j \in Hits(n) : FarOf(j, n) = id
    BY ArrivalsAre
<1> QED BY <1>1

\* What a record a step follows edges from makes of the records within reach.
Widen(p, set, n) ==
    set \cup {Far(p.edges[i], p.step) : i \in {j \in DOMAIN p.edges :
                 /\ p.edges[j].name = p.step.name
                 /\ p.edges[j].props \in p.step.accepts
                 /\ Far(p.edges[j], p.step) \in p.records
                 /\ Near(p.edges[j], p.step) \in set}}

N == INSTANCE Folding WITH Op <- Widen

\* Where no walk ends, no longer walk does.
LEMMA NoMoreEnds ==
    ASSUME NEW n \in Nat, Ends(n) = {}, NEW m \in Nat, n <= m
    PROVE  Ends(m) = {}
<1> DEFINE good == {d \in Nat : Ends(n + d) = {}}
<1>1. 0 \in good
  <2>1. n + 0 = n
      OBVIOUS
  <2> QED BY <2>1
<1>2. ASSUME NEW d \in Nat, d \in good PROVE d + 1 \in good
  <2>1. n + (d + 1) \in Nat \ {0} /\ (n + (d + 1)) - 1 = n + d
      OBVIOUS
  <2>2. Hits(n + (d + 1)) = {}
      BY <1>2, <2>1 DEF Hits
  <2>3. Ends(n + (d + 1)) = {}
      BY <2>1, <2>2, EndsAre
  <2> QED BY <2>3
<1> HIDE DEF good
<1>3. m - n \in good
    BY <1>1, <1>2, N!Induction
<1>4. n + (m - n) = m
    OBVIOUS
<1> QED BY <1>3, <1>4 DEF good

\* Walks depend on the input alone.
LEMMA WalksStay ==
    ASSUME graph' = graph, path' = path
    PROVE  /\ \A n : Walks(n)' = Walks(n) /\ Ends(n)' = Ends(n) /\ Hits(n)' = Hits(n)
           /\ \A n, id : Arrivals(n, id)' = Arrivals(n, id)
           /\ \A n, j : FarOf(j, n)' = FarOf(j, n) /\ NearOf(j, n)' = NearOf(j, n)
           /\ \A n, j : Follows(j, n)' = Follows(j, n)
<1>1. \A n, j : /\ FarOf(j, n)' = FarOf(j, n) /\ NearOf(j, n)' = NearOf(j, n)
                /\ Follows(j, n)' = Follows(j, n)
    BY DEF FarOf, NearOf, Follows, Crosses
<1>2. \A n : Walks(n)' = Walks(n)
    BY DEF Walks, Crosses, Start
<1>3. \A n : \A w : EndOf(n, w)' = EndOf(n, w)
    BY DEF EndOf, Start
<1>4. \A n : Ends(n)' = Ends(n)
    BY <1>2, <1>3 DEF Ends
<1>5. \A n : Hits(n)' = Hits(n)
    BY <1>1, <1>4 DEF Hits
<1>6. \A n, id : Arrivals(n, id)' = Arrivals(n, id)
    BY <1>2, <1>3 DEF Arrivals
<1> QED BY <1>1, <1>2, <1>4, <1>5, <1>6

\* The least of a set of numbers.
LEMMA MinIn ==
    ASSUME NEW T \in SUBSET Nat, T # {}
    PROVE  Min(T) \in T /\ \A t \in T : Min(T) <= t
  BY N!LeastNat DEF Min

\* Which one it is.
LEMMA MinIs ==
    ASSUME NEW T \in SUBSET Nat, NEW t \in T, \A u \in T : t <= u
    PROVE  Min(T) = t
<1>1. T # {} /\ t \in Nat
    OBVIOUS
<1>2. Min(T) \in T /\ \A u \in T : Min(T) <= u
    BY <1>1, MinIn
<1>3. Min(T) \in Nat /\ Min(T) <= t /\ t <= Min(T)
    BY <1>1, <1>2
<1> QED BY <1>1, <1>3

\* Hits and arrivals are positions of edges.
LEMMA HitsAreEdges ==
    ASSUME graph \in Graphs, path \in Paths
    PROVE  /\ \A n : Hits(n) \in SUBSET (1..Len(graph.edges)) /\ Hits(n) \in SUBSET Nat
           /\ \A n \in Nat \ {0} : \A id : Arrivals(n, id) \in SUBSET Nat
           /\ \A n \in Nat \ {0} : \A id \in Ends(n) :
                 /\ Min(Arrivals(n, id)) \in Arrivals(n, id)
                 /\ \A j \in Arrivals(n, id) : Min(Arrivals(n, id)) <= j
<1>1. graph.edges \in Seq(Edges)
    BY InputTyped
<1>2. \A n : Hits(n) \in SUBSET (1..Len(graph.edges)) /\ Hits(n) \in SUBSET Nat
    BY <1>1 DEF Hits
<1>3. ASSUME NEW n \in Nat \ {0}, NEW id PROVE Arrivals(n, id) \in SUBSET Nat
    BY <1>2, ArrivalsAre
<1>4. ASSUME NEW n \in Nat \ {0}, NEW id \in Ends(n)
      PROVE  /\ Min(Arrivals(n, id)) \in Arrivals(n, id)
             /\ \A j \in Arrivals(n, id) : Min(Arrivals(n, id)) <= j
  <2>1. Arrivals(n, id) # {}
      BY ArrivalsAre
  <2> QED BY <1>3, <2>1, MinIn
<1> QED BY <1>2, <1>3, <1>4

(***************************************************************************)
(* MATCH.  A step's frontier is where the walks before it end; what it has *)
(* reached, the edges before e.                                            *)
(***************************************************************************)

\* Every record comes after those that an earlier edge reached.
InOrder(n, q) ==
    \A i, j \in DOMAIN q : i < j => Min(Arrivals(n, q[i])) < Min(Arrivals(n, q[j]))

HitsBefore(n, m) == {j \in Hits(n) : j < m}

MatchInv ==
    query = "match" =>
        /\ e <= Len(graph.edges) + 1
        /\ ~done => /\ Range(frontier) = Ends(s - 1)
                    /\ Range(next) = {FarOf(j, s) : j \in HitsBefore(s, e)}
                    /\ InOrder(s, next)
        /\ done => Range(frontier) = Ends(Len(path.steps)) /\ InOrder(Len(path.steps), frontier)

\* The score of a record is the weight of the first edge that reached it: the
\* earliest of the earliest step.
FirstStep(n, id) ==
    Arrivals(n, id) # {} /\ \A m \in 1..(n - 1) : Arrivals(m, id) = {}

ScoreInv ==
    query = "match" =>
        /\ \A id \in DOMAIN score \ {Start} : \E n \in 1..Len(path.steps) :
              FirstStep(n, id) /\ score[id] = graph.edges[Min(Arrivals(n, id))].weight
        /\ ~done => /\ \A n \in 1..(s - 1) : Ends(n) \subseteq DOMAIN score
                    /\ \A j \in HitsBefore(s, e) : FarOf(j, s) \in DOMAIN score
        /\ done => Ends(Len(path.steps)) \subseteq DOMAIN score

\* A step starts from where the walks before it end: nothing is looked at yet.
LEMMA NothingHit ==
    ASSUME graph \in Graphs, path \in Paths, NEW n
    PROVE  /\ HitsBefore(n, 1) = {}
           /\ HitsBefore(n, Len(graph.edges) + 1) = Hits(n)
           /\ InOrder(n, <<>>) /\ Range(<<>>) = {}
<1>1. Hits(n) \in SUBSET (1..Len(graph.edges)) /\ Len(graph.edges) \in Nat
    BY HitsAreEdges, InputTyped
<1> QED BY <1>1 DEF HitsBefore, InOrder, Range

\* One more edge looked at.
LEMMA OneMoreHit ==
    ASSUME graph \in Graphs, path \in Paths, NEW n, NEW m \in 1..Len(graph.edges)
    PROVE  HitsBefore(n, m + 1) =
              IF m \in Hits(n) THEN HitsBefore(n, m) \cup {m} ELSE HitsBefore(n, m)
<1>1. Hits(n) \in SUBSET Nat /\ m \in Nat
    BY HitsAreEdges, InputTyped
<1>2. \A j \in Hits(n) : j < m + 1 <=> j < m \/ j = m
    BY <1>1
<1>3. ~ (m < m)
    BY <1>1
<1> QED BY <1>2, <1>3 DEF HitsBefore

\* Before the first step no edge has been looked at.
LEMMA MatchInit == Init => MatchInv /\ ScoreInv
<1> SUFFICES ASSUME Init, query = "match" PROVE MatchInv /\ ScoreInv
    BY DEF MatchInv, ScoreInv
<1>1. /\ graph \in Graphs /\ path \in Paths /\ s = 1 /\ e = 1 /\ next = <<>>
      /\ done = (Start \notin graph.records) /\ Len(graph.edges) \in Nat
      /\ Len(path.steps) \in Nat \ {0}
    BY InputTyped DEF Init
<1>2. CASE Start \in graph.records
  <2>1. ~done /\ frontier = <<Start>> /\ score = Put(<<>>, Start, 0)
      BY <1>1, <1>2, Zenon DEF Init
  <2>2. Range(frontier) = {Start} /\ DOMAIN score = {Start}
      BY <2>1 DEF Range, Put
  <2>3. Range(frontier) = Ends(s - 1)
    <3>1. s - 1 = 0
        BY <1>1
    <3> QED BY <2>2, <3>1, <1>2, NoSteps
  <2>4. MatchInv
      BY <1>1, <2>1, <2>3, NothingHit DEF MatchInv
  <2>5. ScoreInv
    <3>1. 1..(s - 1) = {}
        BY <1>1
    <3> QED BY <1>1, <2>1, <2>2, <3>1, NothingHit DEF ScoreInv
  <2> QED BY <2>4, <2>5
<1>3. CASE Start \notin graph.records
  <2>1. done /\ frontier = <<>> /\ score = <<>>
      BY <1>1, <1>3, Zenon DEF Init
  <2>2. Ends(Len(path.steps)) = {}
      BY <1>3, NoSteps DEF Ends
  <2>3. MatchInv
      BY <1>1, <2>1, <2>2, NothingHit DEF MatchInv
  <2>4. ScoreInv
      BY <1>1, <2>1, <2>2 DEF ScoreInv
  <2> QED BY <2>3, <2>4
<1> QED BY <1>2, <1>3

\* The edge a step of MATCH looks at.
LEMMA MatchEdge ==
    ASSUME TypeInv, MatchInv, Running("match"), e <= Len(graph.edges)
    PROVE  /\ e \in 1..Len(graph.edges) /\ s \in Nat \ {0} /\ s \in 1..Len(path.steps)
           /\ e \in Hits(s) <=> Crosses(Edge, Step) /\ Near(Edge, Step) \in Range(frontier)
           /\ Reached = FarOf(e, s) /\ Edge = graph.edges[e]
<1>1. /\ graph.edges \in Seq(Edges) /\ Len(graph.edges) \in Nat
      /\ e \in Nat \ {0} /\ s \in Nat \ {0} /\ s <= Len(path.steps) /\ Len(path.steps) \in Nat
    BY InputTyped DEF TypeInv, TypeOK, Running
<1>2. e \in 1..Len(graph.edges) /\ e \in DOMAIN graph.edges
    BY <1>1
<1>3. s \in 1..Len(path.steps)
    BY <1>1
<1>4. Range(frontier) = Ends(s - 1)
    BY DEF MatchInv, Running
<1> QED BY <1>1, <1>2, <1>3, <1>4 DEF Hits, Follows, NearOf, FarOf, Edge, Step, Reached

\* Each edge looked at reaches what it hits; after the last, the step's ends are known.
LEMMA MatchNext == TypeInv /\ MatchInv /\ [Next]_vars => MatchInv'
<1> SUFFICES ASSUME TypeInv, MatchInv, [Next]_vars, query' = "match" PROVE MatchInv'
    BY DEF MatchInv
<1>1. query = "match" /\ graph' = graph /\ path' = path
    BY DEF Next, vars, input, FollowMatch, SkipMatch, StepMatch, FollowCount, SkipCount, StepCount,
           FollowClosure, SkipClosure, VertexClosure, RoundClosure, StepClosure
<1>2. /\ graph \in Graphs /\ path \in Paths /\ Len(graph.edges) \in Nat
      /\ Len(path.steps) \in Nat \ {0} /\ s \in Nat \ {0} /\ e \in Nat \ {0}
      /\ frontier \in Seq(graph.records) /\ next \in Seq(graph.records)
    BY InputTyped DEF TypeInv, TypeOK
<1>3. /\ \A n : Ends(n)' = Ends(n) /\ Hits(n)' = Hits(n)
      /\ \A n, id : Arrivals(n, id)' = Arrivals(n, id)
      /\ \A n, j : FarOf(j, n)' = FarOf(j, n)
    BY <1>1, WalksStay
<1>4. \A n, m : HitsBefore(n, m)' = HitsBefore(n, m)
    BY <1>3 DEF HitsBefore
<1>5. \A n, q : InOrder(n, q)' = InOrder(n, q)
    BY <1>3 DEF InOrder
<1>6. e <= Len(graph.edges) + 1
    BY <1>1 DEF MatchInv
<1>7. ASSUME ~done
      PROVE  /\ Range(frontier) = Ends(s - 1) /\ InOrder(s, next)
             /\ Range(next) = {FarOf(j, s) : j \in HitsBefore(s, e)}
    BY <1>1, <1>7 DEF MatchInv
<1>8. CASE FollowMatch
  <2>1. /\ Running("match") /\ ~done /\ e <= Len(graph.edges)
        /\ done' = done /\ s' = s /\ e' = e + 1 /\ frontier' = frontier
        /\ next' = IF Reached \in Range(next) THEN next ELSE Append(next, Reached)
        /\ Crosses(Edge, Step) /\ Near(Edge, Step) \in Range(frontier)
        /\ Reached \in graph.records
      BY <1>8, Zenon DEF FollowMatch, Running, Crosses, Reached
  <2>2. /\ e \in 1..Len(graph.edges) /\ e \in Hits(s) /\ Reached = FarOf(e, s)
      BY <2>1, MatchEdge
  <2>3. HitsBefore(s, e + 1) = HitsBefore(s, e) \cup {e}
      BY <2>2, <1>2, OneMoreHit
  <2>4. Range(next') = Range(next) \cup {Reached}
      BY <2>1, <1>2, RangeAppend
  <2>5. Range(next') = {FarOf(j, s) : j \in HitsBefore(s, e + 1)}
      BY <2>2, <2>3, <2>4, <2>1, <1>7
  <2>6. InOrder(s, next')
    <3>1. CASE Reached \in Range(next)
        BY <3>1, <2>1, <1>7
    <3>2. CASE Reached \notin Range(next)
      <4>1. next' = Append(next, Reached)
          BY <3>2, <2>1
      <4>2. /\ DOMAIN next = 1..Len(next) /\ DOMAIN next' = 1..(Len(next) + 1) /\ Len(next) \in Nat
            /\ \A i \in 1..Len(next) : next'[i] = next[i] /\ next[i] \in Range(next)
            /\ next'[Len(next) + 1] = Reached
          BY <4>1, <1>2, RangeOf
      <4>3. ASSUME NEW id \in Range(next) PROVE Min(Arrivals(s, id)) < e
        <5>1. PICK j \in HitsBefore(s, e) : FarOf(j, s) = id
            BY <2>1, <1>7
        <5>2. j \in Hits(s) /\ j < e
            BY <5>1 DEF HitsBefore
        <5>3. j \in Arrivals(s, id) /\ id \in Ends(s)
            BY <5>1, <5>2, <1>2, ArrivalsAre
        <5>4. Min(Arrivals(s, id)) <= j /\ Min(Arrivals(s, id)) \in Nat /\ j \in Nat
            BY <5>2, <5>3, <1>2, HitsAreEdges
        <5> QED BY <5>2, <5>4, <1>2
      <4>4. Min(Arrivals(s, Reached)) = e
        <5>1. e \in Arrivals(s, Reached)
            BY <2>2, <1>2, ArrivalsAre
        <5>2. ASSUME NEW j \in Arrivals(s, Reached) PROVE e <= j
          <6>1. j \in Hits(s) /\ FarOf(j, s) = Reached /\ j \in Nat
              BY <1>2, ArrivalsAre, HitsAreEdges
          <6>2. ~ (j < e)
              BY <6>1, <3>2, <2>1, <1>7 DEF HitsBefore
          <6> QED BY <6>1, <6>2, <1>2
        <5>3. Arrivals(s, Reached) \in SUBSET Nat
            BY <1>2, HitsAreEdges
        <5> QED BY <5>1, <5>2, <5>3, MinIs
      <4>5. ASSUME NEW i \in 1..(Len(next) + 1), NEW j \in 1..(Len(next) + 1), i < j
            PROVE  Min(Arrivals(s, next'[i])) < Min(Arrivals(s, next'[j]))
        <5>1. CASE j \in 1..Len(next)
          <6>1. i \in 1..Len(next)
              BY <4>5, <5>1, <4>2
          <6>2. Min(Arrivals(s, next[i])) < Min(Arrivals(s, next[j]))
              BY <5>1, <6>1, <4>5, <4>2, <2>1, <1>7 DEF InOrder
          <6> QED BY <5>1, <6>1, <6>2, <4>2
        <5>2. CASE j = Len(next) + 1
          <6>1. i \in 1..Len(next)
              BY <4>5, <5>2, <4>2
          <6>2. next'[i] \in Range(next) /\ next'[j] = Reached
              BY <5>2, <6>1, <4>2
          <6> QED BY <6>2, <4>3, <4>4
        <5> QED BY <5>1, <5>2, <4>2
      <4> QED BY <4>2, <4>5 DEF InOrder
    <3> QED BY <3>1, <3>2
  <2>7. e' <= Len(graph.edges') + 1
      BY <2>1, <2>2, <1>1, <1>2
  <2>8. (Range(frontier) = Ends(s - 1))'
      BY <2>1, <1>3, <1>7
  <2>9. (Range(next) = {FarOf(j, s) : j \in HitsBefore(s, e)})'
      BY <2>1, <2>5, <1>3, <1>4
  <2>10. InOrder(s, next)'
      BY <2>1, <2>6, <1>5
  <2> QED BY <2>1, <2>7, <2>8, <2>9, <2>10 DEF MatchInv
<1>9. CASE SkipMatch
  <2>1. /\ Running("match") /\ ~done /\ e <= Len(graph.edges)
        /\ done' = done /\ s' = s /\ e' = e + 1 /\ frontier' = frontier /\ next' = next
        /\ ~(Crosses(Edge, Step) /\ Near(Edge, Step) \in Range(frontier))
      BY <1>9, Zenon DEF SkipMatch, Running
  <2>2. e \in 1..Len(graph.edges) /\ e \notin Hits(s)
      BY <2>1, MatchEdge
  <2>3. HitsBefore(s, e + 1) = HitsBefore(s, e)
      BY <2>2, <1>2, OneMoreHit
  <2>4. e' <= Len(graph.edges') + 1
      BY <2>1, <2>2, <1>1, <1>2
  <2>5. (Range(frontier) = Ends(s - 1))'
      BY <2>1, <1>3, <1>7
  <2>6. (Range(next) = {FarOf(j, s) : j \in HitsBefore(s, e)})'
      BY <2>1, <2>3, <1>3, <1>4, <1>7
  <2>7. InOrder(s, next)'
      BY <2>1, <1>5, <1>7
  <2> QED BY <2>1, <2>4, <2>5, <2>6, <2>7 DEF MatchInv
<1>10. CASE StepMatch
  <2>1. /\ ~done /\ e > Len(graph.edges) /\ frontier' = next /\ next' = <<>>
        /\ s' = s + 1 /\ e' = 1 /\ done' = (next = <<>> \/ s = Len(path.steps))
      BY <1>10, Zenon DEF StepMatch, Running
  <2>2. e = Len(graph.edges) + 1
      BY <2>1, <1>2, <1>6
  <2>3. HitsBefore(s, e) = Hits(s)
      BY <2>2, <1>2, NothingHit
  <2>4. Range(next) = Ends(s) /\ InOrder(s, next)
      BY <2>1, <2>3, <1>2, <1>7, EndsAre
  <2>5. e' <= Len(graph.edges') + 1
      BY <2>1, <1>1, <1>2
  <2>6. (Range(frontier) = Ends(s - 1))'
    <3>1. s' - 1 = s
        BY <2>1, <1>2
    <3> QED BY <2>1, <2>4, <3>1, <1>3
  <2>7. (Range(next) = {FarOf(j, s) : j \in HitsBefore(s, e)})' /\ InOrder(s, next)'
    <3>1. \A n : HitsBefore(n, 1) = {} /\ InOrder(n, <<>>) /\ Range(<<>>) = {}
        BY <1>2, NothingHit
    <3> QED BY <2>1, <3>1, <1>4, <1>5
  <2>8. ASSUME done'
        PROVE  (Range(frontier) = Ends(Len(path.steps)) /\ InOrder(Len(path.steps), frontier))'
    <3>1. CASE s = Len(path.steps)
        BY <3>1, <2>1, <2>4, <1>1, <1>3, <1>5
    <3>2. CASE s # Len(path.steps)
      <4>1. next = <<>> /\ s <= Len(path.steps)
          BY <3>2, <2>8, <2>1 DEF TypeInv, TypeOK
      <4>2. Range(next) = {} /\ InOrder(Len(path.steps), next)
          BY <4>1, <1>2, NothingHit
      <4>3. Ends(Len(path.steps)) = {}
          BY <4>1, <4>2, <2>4, <1>2, NoMoreEnds
      <4> QED BY <4>2, <4>3, <2>1, <1>1, <1>3, <1>5
    <3> QED BY <3>1, <3>2
  <2> QED BY <2>5, <2>6, <2>7, <2>8 DEF MatchInv
<1>11. CASE \/ FollowCount \/ SkipCount \/ StepCount
            \/ FollowClosure \/ SkipClosure \/ VertexClosure \/ RoundClosure \/ StepClosure
    BY <1>11, <1>1
       DEF FollowCount, SkipCount, StepCount, FollowClosure, SkipClosure, VertexClosure,
           RoundClosure, StepClosure, AtVertex, Running
<1>12. CASE UNCHANGED vars
  <2>1. /\ UNCHANGED <<done, s, e, frontier, next>>
      BY <1>12, Zenon DEF vars, loops
  <2>2. ~done => (/\ Range(frontier) = Ends(s - 1) /\ InOrder(s, next)
                  /\ Range(next) = {FarOf(j, s) : j \in HitsBefore(s, e)})'
      BY <2>1, <1>3, <1>4, <1>5, <1>7
  <2>3. done => (Range(frontier) = Ends(Len(path.steps)) /\ InOrder(Len(path.steps), frontier))'
      BY <2>1, <1>1, <1>3, <1>5 DEF MatchInv
  <2> QED BY <2>1, <2>2, <2>3, <1>1, <1>6 DEF MatchInv
<1> QED BY <1>8, <1>9, <1>10, <1>11, <1>12 DEF Next

\* Each edge that reaches a record for the first time gives it its score.
LEMMA ScoreNext == TypeInv /\ MatchInv /\ ScoreInv /\ [Next]_vars => ScoreInv'
<1> SUFFICES ASSUME TypeInv, MatchInv, ScoreInv, [Next]_vars, query' = "match" PROVE ScoreInv'
    BY DEF ScoreInv
<1>1. query = "match" /\ graph' = graph /\ path' = path
    BY DEF Next, vars, input, FollowMatch, SkipMatch, StepMatch, FollowCount, SkipCount, StepCount,
           FollowClosure, SkipClosure, VertexClosure, RoundClosure, StepClosure
<1>2. /\ graph \in Graphs /\ path \in Paths /\ Len(graph.edges) \in Nat
      /\ Len(path.steps) \in Nat \ {0} /\ s \in Nat \ {0} /\ e \in Nat \ {0}
    BY InputTyped DEF TypeInv, TypeOK
<1>3. /\ \A n : Ends(n)' = Ends(n) /\ Hits(n)' = Hits(n)
      /\ \A n, id : Arrivals(n, id)' = Arrivals(n, id)
      /\ \A n, j : FarOf(j, n)' = FarOf(j, n)
    BY <1>1, WalksStay
<1>4. /\ \A n, m : HitsBefore(n, m)' = HitsBefore(n, m)
      /\ \A n, id : FirstStep(n, id)' = FirstStep(n, id)
      /\ Start' = Start
    BY <1>1, <1>3 DEF HitsBefore, FirstStep, Start
<1>5. /\ \A id \in DOMAIN score \ {Start} : \E n \in 1..Len(path.steps) :
            FirstStep(n, id) /\ score[id] = graph.edges[Min(Arrivals(n, id))].weight
      /\ ~done => /\ \A n \in 1..(s - 1) : Ends(n) \subseteq DOMAIN score
                  /\ \A j \in HitsBefore(s, e) : FarOf(j, s) \in DOMAIN score
      /\ done => Ends(Len(path.steps)) \subseteq DOMAIN score
    BY <1>1 DEF ScoreInv
<1>6. ASSUME \A id \in DOMAIN score' \ {Start} : \E n \in 1..Len(path.steps) :
                FirstStep(n, id) /\ score'[id] = graph.edges[Min(Arrivals(n, id))].weight,
             ~done' => /\ \A n \in 1..(s' - 1) : Ends(n) \subseteq DOMAIN score'
                       /\ \A j \in HitsBefore(s', e') : FarOf(j, s') \in DOMAIN score',
             done' => Ends(Len(path.steps)) \subseteq DOMAIN score'
      PROVE  ScoreInv'
    BY <1>1, <1>3, <1>4, <1>6 DEF ScoreInv
<1>7. CASE FollowMatch
  <2>1. /\ Running("match") /\ ~done /\ e <= Len(graph.edges)
        /\ done' = done /\ s' = s /\ e' = e + 1
        /\ score' = PutNew(score, Reached, Edge.weight)
        /\ Crosses(Edge, Step) /\ Near(Edge, Step) \in Range(frontier)
      BY <1>7, Zenon DEF FollowMatch, Running
  <2>2. /\ e \in 1..Len(graph.edges) /\ e \in Hits(s) /\ Reached = FarOf(e, s)
        /\ s \in 1..Len(path.steps) /\ Edge = graph.edges[e]
      BY <2>1, MatchEdge
  <2>3. HitsBefore(s, e + 1) = HitsBefore(s, e) \cup {e}
      BY <2>2, <1>2, OneMoreHit
  <2>4. DOMAIN score' = DOMAIN score \cup {Reached}
      BY <2>1 DEF PutNew, Put
  <2>5. \A id \in DOMAIN score : score'[id] = score[id]
      BY <2>1 DEF PutNew, Put
  <2>6. ASSUME Reached \notin DOMAIN score
        PROVE  /\ score'[Reached] = graph.edges[e].weight
               /\ FirstStep(s, Reached) /\ Min(Arrivals(s, Reached)) = e
    <3>1. score'[Reached] = graph.edges[e].weight
        BY <2>1, <2>2, <2>6 DEF PutNew, Put
    <3>2. e \in Arrivals(s, Reached)
        BY <2>2, <1>2, ArrivalsAre
    <3>3. ASSUME NEW n \in 1..(s - 1) PROVE Arrivals(n, Reached) = {}
      <4>1. Reached \notin Ends(n) /\ n \in Nat \ {0}
          BY <2>1, <2>6, <1>5
      <4> QED BY <4>1, ArrivalsAre
    <3>4. ASSUME NEW j \in Arrivals(s, Reached) PROVE e <= j
      <4>1. j \in Hits(s) /\ FarOf(j, s) = Reached /\ j \in Nat
          BY <1>2, ArrivalsAre, HitsAreEdges
      <4>2. ~ (j < e)
          BY <4>1, <2>1, <2>6, <1>5 DEF HitsBefore
      <4> QED BY <4>1, <4>2, <1>2
    <3>5. Arrivals(s, Reached) \in SUBSET Nat
        BY <1>2, HitsAreEdges
    <3> QED BY <3>1, <3>2, <3>3, <3>4, <3>5, MinIs DEF FirstStep
  <2>7. ASSUME NEW id \in DOMAIN score' \ {Start}
        PROVE  \E n \in 1..Len(path.steps) :
                  FirstStep(n, id) /\ score'[id] = graph.edges[Min(Arrivals(n, id))].weight
    <3>1. CASE id \in DOMAIN score
        BY <3>1, <2>5, <1>5
    <3>2. CASE id \notin DOMAIN score
      <4>1. id = Reached
          BY <3>2, <2>4
      <4> QED BY <4>1, <3>2, <2>2, <2>6
    <3> QED BY <3>1, <3>2
  <2>8. \A n \in 1..(s - 1) : Ends(n) \subseteq DOMAIN score'
      BY <2>1, <2>4, <1>5
  <2>9. \A j \in HitsBefore(s, e + 1) : FarOf(j, s) \in DOMAIN score'
      BY <2>1, <2>2, <2>3, <2>4, <1>5
  <2> QED BY <2>1, <2>7, <2>8, <2>9, <1>6
<1>8. CASE SkipMatch
  <2>1. /\ Running("match") /\ ~done /\ e <= Len(graph.edges)
        /\ done' = done /\ s' = s /\ e' = e + 1 /\ score' = score
        /\ ~(Crosses(Edge, Step) /\ Near(Edge, Step) \in Range(frontier))
      BY <1>8, Zenon DEF SkipMatch, Running
  <2>2. e \in 1..Len(graph.edges) /\ e \notin Hits(s)
      BY <2>1, MatchEdge
  <2>3. HitsBefore(s, e + 1) = HitsBefore(s, e)
      BY <2>2, <1>2, OneMoreHit
  <2> QED BY <2>1, <2>3, <1>5, <1>6
<1>9. CASE StepMatch
  <2>1. /\ ~done /\ e > Len(graph.edges) /\ score' = score
        /\ s' = s + 1 /\ e' = 1 /\ done' = (next = <<>> \/ s = Len(path.steps))
      BY <1>9, Zenon DEF StepMatch, Running
  <2>2. e = Len(graph.edges) + 1
      BY <2>1, <1>1, <1>2 DEF MatchInv
  <2>3. HitsBefore(s, e) = Hits(s)
      BY <2>2, <1>2, NothingHit
  <2>4. Ends(s) \subseteq DOMAIN score
      BY <2>1, <2>3, <1>2, <1>5, EndsAre
  <2>5. \A n \in 1..(s' - 1) : Ends(n) \subseteq DOMAIN score
    <3>1. \A n \in 1..(s' - 1) : n = s \/ n \in 1..(s - 1)
        BY <2>1, <1>2
    <3> QED BY <3>1, <2>1, <2>4, <1>5
  <2>6. HitsBefore(s', e') = {}
      BY <2>1, <1>2, NothingHit
  <2>7. ASSUME done' PROVE Ends(Len(path.steps)) \subseteq DOMAIN score
    <3>1. CASE s = Len(path.steps)
        BY <3>1, <2>4
    <3>2. CASE s # Len(path.steps)
      <4>1. next = <<>> /\ s <= Len(path.steps)
          BY <3>2, <2>7, <2>1 DEF TypeInv, TypeOK
      <4>2. {FarOf(j, s) : j \in Hits(s)} = Range(next) /\ Range(next) = {}
          BY <4>1, <2>1, <2>3, <1>1, <1>2, NothingHit DEF MatchInv
      <4>3. Ends(Len(path.steps)) = {}
          BY <4>1, <4>2, <1>2, EndsAre, NoMoreEnds
      <4> QED BY <4>3
    <3> QED BY <3>1, <3>2
  <2> QED BY <2>1, <2>5, <2>6, <2>7, <1>5, <1>6
<1>10. CASE \/ FollowCount \/ SkipCount \/ StepCount
            \/ FollowClosure \/ SkipClosure \/ VertexClosure \/ RoundClosure \/ StepClosure
    BY <1>10, <1>1
       DEF FollowCount, SkipCount, StepCount, FollowClosure, SkipClosure, VertexClosure,
           RoundClosure, StepClosure, AtVertex, Running
<1>11. CASE UNCHANGED vars
  <2>1. UNCHANGED <<done, s, e, score>>
      BY <1>11, Zenon DEF vars, loops
  <2> QED BY <2>1, <1>5, <1>6
<1> QED BY <1>7, <1>8, <1>9, <1>10, <1>11 DEF Next

\* MATCH returns the ends of the walks that take every step, each once, in the
\* order of the first edges that arrive there.
THEOREM MatchReturnsEnds == Spec => []MatchExact
<1>1. MatchInv => MatchExact
    BY DEF MatchInv, MatchExact, InOrder, Ends, Returned
<1>2. Spec => [](TypeInv /\ MatchInv)
    BY TypeInit, TypeNext, MatchInit, MatchNext, PTL DEF Spec
<1> QED BY <1>1, <1>2, PTL

\* The score of a row of MATCH is the weight of the first edge that reached its
\* record, of the earliest step.
THEOREM MatchScoresFirst == Spec => []MatchScore
<1>1. TypeInv /\ MatchInv /\ ScoreInv => MatchScore
  <2> SUFFICES ASSUME TypeInv, MatchInv, ScoreInv, Returned("match"),
                      NEW id \in Range(frontier) \ {Start}
               PROVE  score[id] = graph.edges[Min(Arrivals(
                         Min({m \in 1..Len(path.steps) : Arrivals(m, id) # {}}), id))].weight
      BY DEF MatchScore
  <2>1. id \in DOMAIN score
      BY DEF MatchInv, ScoreInv, Returned
  <2>2. PICK n \in 1..Len(path.steps) :
               FirstStep(n, id) /\ score[id] = graph.edges[Min(Arrivals(n, id))].weight
      BY <2>1 DEF ScoreInv, Returned
  <2> DEFINE reached == {m \in 1..Len(path.steps) : Arrivals(m, id) # {}}
  <2>3. n \in reached /\ reached \in SUBSET Nat
      BY <2>2 DEF FirstStep
  <2>4. ASSUME NEW m \in reached PROVE n <= m
    <3>1. m \in Nat /\ n \in Nat /\ 1 <= m /\ Arrivals(m, id) # {}
        OBVIOUS
    <3>2. m \notin 1..(n - 1)
        BY <3>1, <2>2 DEF FirstStep
    <3> QED BY <3>1, <3>2
  <2>5. Min(reached) = n
    <3> HIDE DEF reached
    <3> QED BY <2>3, <2>4, MinIs
  <2> QED BY <2>2, <2>5
<1>2. Spec => [](TypeInv /\ MatchInv /\ ScoreInv)
    BY TypeInit, TypeNext, MatchInit, MatchNext, ScoreNext, PTL DEF Spec
<1> QED BY <1>1, <1>2, PTL

(***************************************************************************)
(* The scores of a closure.                                                *)
(***************************************************************************)

\* The records within no hops, and within one more.
LEMMA BallIs ==
    ASSUME NEW step
    PROVE  /\ Ball(step)[0] = {Start}
           /\ \A n \in Nat : Ball(step)[n + 1] = Ball(step)[n] \cup
                 {Far(graph.edges[i], step) : i \in {j \in DOMAIN graph.edges :
                     Crosses(graph.edges[j], step) /\ Near(graph.edges[j], step) \in Ball(step)[n]}}
<1> DEFINE p == [edges |-> graph.edges, records |-> graph.records, step |-> step]
           More(set) == set \cup
                 {Far(graph.edges[i], step) : i \in {j \in DOMAIN graph.edges :
                     Crosses(graph.edges[j], step) /\ Near(graph.edges[j], step) \in set}}
<1>1. \A set, n : Widen(p, set, n) = More(set)
    BY DEF Widen, Crosses
<1>2. PICK ball : ball = [n \in Nat |-> IF n = 0 THEN {Start} ELSE Widen(p, ball[n - 1], n)]
  <2>1. PICK ball : N!IsStepwise(p, {Start}, ball)
      BY N!StepwiseExists
  <2> QED BY <2>1 DEF N!IsStepwise
<1> HIDE DEF p
<1>3. ball = [n \in Nat |-> IF n = 0 THEN {Start} ELSE More(ball[n - 1])]
  <2>1. \A n \in Nat : ball[n] = IF n = 0 THEN {Start} ELSE Widen(p, ball[n - 1], n)
      BY <1>2
  <2>2. \A n \in Nat : ball[n] = IF n = 0 THEN {Start} ELSE More(ball[n - 1])
    <3> HIDE DEF More
    <3> QED BY <1>1, <2>1
  <2>3. ball = [n \in Nat |-> ball[n]]
    <3>1. DOMAIN ball = Nat
        BY ONLY <1>2
    <3>2. ball = [n \in DOMAIN ball |-> ball[n]]
        BY ONLY <1>2
    <3> QED BY <3>1, <3>2
  <2> HIDE DEF More
  <2> QED BY <2>2, <2>3
<1>4. Ball(step) = [n \in Nat |-> IF n = 0 THEN {Start} ELSE More(Ball(step)[n - 1])]
    BY <1>3 DEF Ball
<1>5. Ball(step)[0] = {Start}
    BY <1>4
<1>6. ASSUME NEW n \in Nat PROVE Ball(step)[n + 1] = More(Ball(step)[n])
  <2>1. n + 1 \in Nat /\ n + 1 # 0 /\ (n + 1) - 1 = n
      OBVIOUS
  <2> HIDE DEF More
  <2> QED BY <1>4, <2>1
<1> QED BY <1>5, <1>6

\* Scores do not fall along the rows, and the n-th row is less than n hops away.
DepthInv ==
    query = "closure" =>
        /\ Start \notin graph.records => visited = <<>>
        /\ DOMAIN score = Range(visited)
        /\ Start \in graph.records => depth <= Len(visited)
        /\ next # <<>> => depth < Len(visited)
        /\ \A i \in DOMAIN visited :
              /\ score[visited[i]] \in Nat /\ score[visited[i]] < i
              /\ score[visited[i]] <= depth
        /\ \A i, j \in DOMAIN visited : i < j => score[visited[i]] <= score[visited[j]]

\* A row's score is its distance; the rounds have visited all that is nearer than
\* the round being made, which goes on from records one hop nearer.
BallInv ==
    OneStep =>
        LET B == Ball(path.steps[1]) IN
        /\ \A id \in Range(visited) :
              id \in B[score[id]] /\ \A m \in 0..(score[id] - 1) : id \notin B[m]
        /\ \A m \in 0..(depth - 1) : B[m] \subseteq Range(visited)
        /\ \A id \in Range(next) : score[id] = depth
        /\ ~done => Range(frontier) \subseteq B[depth - 1]

\* At first the only row is the start, with score zero.
LEMMA DepthInit == Init => DepthInv /\ BallInv
<1> SUFFICES ASSUME Init, query = "closure" PROVE DepthInv /\ BallInv
    BY DEF DepthInv, BallInv, OneStep
<1>1. depth = 1 /\ next = <<>>
    BY DEF Init
<1>2. CASE Start \in graph.records
  <2>1. frontier = <<Start>> /\ visited = <<Start>> /\ score = Put(<<>>, Start, 0)
      BY <1>2 DEF Init
  <2>2. /\ DOMAIN visited = {1} /\ visited[1] = Start /\ Len(visited) = 1
        /\ Range(visited) = {Start} /\ Range(frontier) = {Start} /\ Range(next) = {}
      BY <1>1, <2>1 DEF Range
  <2>3. DOMAIN score = {Start} /\ score[Start] = 0
      BY <2>1 DEF Put
  <2>4. DepthInv
      BY <1>1, <1>2, <2>2, <2>3 DEF DepthInv
  <2>5. Ball(path.steps[1])[0] = {Start}
      BY BallIs
  <2>6. BallInv
    <3>1. 0..(depth - 1) = {0} /\ 0..(0 - 1) = {} /\ depth - 1 = 0
        BY <1>1
    <3> QED BY <2>2, <2>3, <2>5, <3>1 DEF BallInv
  <2> QED BY <2>4, <2>6
<1>3. CASE Start \notin graph.records
  <2>1. visited = <<>> /\ score = <<>>
      BY <1>3 DEF Init
  <2>2. DOMAIN visited = {} /\ Range(visited) = {} /\ DOMAIN score = {}
      BY <2>1 DEF Range
  <2>3. DepthInv
      BY <1>1, <1>3, <2>1, <2>2 DEF DepthInv
  <2> QED BY <2>3, <1>3 DEF BallInv, OneStep
<1> QED BY <1>2, <1>3

\* A new record: its score, and what stays.
LEMMA VisitScore ==
    ASSUME TypeInv, DepthInv, FollowClosure
    PROVE  /\ DOMAIN score' = Range(visited')
           /\ score'[Reached] = depth
           /\ \A id \in Range(visited) : score'[id] = score[id] /\ id # Reached
           /\ visited \in Seq(graph.records) /\ Len(visited) \in Nat
           /\ DOMAIN visited = 1..Len(visited)
           /\ Len(visited') = Len(visited) + 1 /\ DOMAIN visited' = 1..(Len(visited) + 1)
           /\ visited'[Len(visited) + 1] = Reached
           /\ \A i \in 1..Len(visited) : visited'[i] = visited[i] /\ visited[i] \in Range(visited)
<1>1. /\ score' = Put(score, Reached, depth) /\ Reached \notin Range(visited)
      /\ visited' = Append(visited, Reached) /\ query = "closure"
      /\ visited \in Seq(graph.records)
    BY DEF FollowClosure, AtVertex, Running, TypeInv, TypeOK
<1>2. DOMAIN score = Range(visited)
    BY <1>1 DEF DepthInv
<1>3. Range(visited') = Range(visited) \cup {Reached}
    BY VisitNew
<1>4. /\ DOMAIN score' = Range(visited') /\ score'[Reached] = depth
      /\ \A id \in Range(visited) : score'[id] = score[id] /\ id # Reached
    BY <1>1, <1>2, <1>3 DEF Put
<1>5. /\ Len(visited) \in Nat
      /\ DOMAIN visited = 1..Len(visited)
      /\ Len(visited') = Len(visited) + 1 /\ DOMAIN visited' = 1..(Len(visited) + 1)
      /\ visited'[Len(visited) + 1] = Reached
      /\ \A i \in 1..Len(visited) : visited'[i] = visited[i]
    BY <1>1
<1>6. \A i \in 1..Len(visited) : visited[i] \in Range(visited)
    BY <1>1, RangeOf
<1> QED BY <1>1, <1>4, <1>5, <1>6

\* A new record comes last and has the greatest score.
LEMMA DepthNext == TypeInv /\ DepthInv /\ [Next]_vars => DepthInv'
<1> SUFFICES ASSUME TypeInv, DepthInv, [Next]_vars, query' = "closure" PROVE DepthInv'
    BY DEF DepthInv
<1>1. query = "closure" /\ graph' = graph /\ path' = path /\ Start' = Start
    BY DEF Next, vars, input, FollowMatch, SkipMatch, StepMatch, FollowCount, SkipCount, StepCount,
           FollowClosure, SkipClosure, VertexClosure, RoundClosure, StepClosure, Start
<1>2. /\ Start \notin graph.records => visited = <<>>
      /\ DOMAIN score = Range(visited)
      /\ Start \in graph.records => depth <= Len(visited)
      /\ next # <<>> => depth < Len(visited)
      /\ \A i \in DOMAIN visited :
            score[visited[i]] \in Nat /\ score[visited[i]] < i /\ score[visited[i]] <= depth
      /\ \A i, j \in DOMAIN visited : i < j => score[visited[i]] <= score[visited[j]]
    BY <1>1 DEF DepthInv
<1>3. depth \in Nat \ {0} /\ visited \in Seq(graph.records) /\ Len(visited) \in Nat
      /\ (~done => Start \in graph.records)
    BY DEF TypeInv, TypeOK
<1>4. CASE FollowClosure
  <2>1. depth' = depth /\ depth <= Len(visited) /\ Start \in graph.records
      BY <1>2, <1>3, <1>4 DEF FollowClosure, AtVertex, Running
  <2>2. ASSUME NEW i \in DOMAIN visited'
        PROVE  /\ score'[visited'[i]] \in Nat /\ score'[visited'[i]] < i
               /\ score'[visited'[i]] <= depth'
    <3>1. CASE i \in 1..Len(visited)
      <4>1. visited'[i] = visited[i] /\ score'[visited[i]] = score[visited[i]] /\ i \in DOMAIN visited
          BY <3>1, <1>4, VisitScore
      <4> QED BY <4>1, <2>1, <1>2
    <3>2. CASE i = Len(visited) + 1
      <4>1. visited'[i] = Reached /\ score'[Reached] = depth
          BY <3>2, <1>4, VisitScore
      <4> QED BY <3>2, <4>1, <2>1, <1>3
    <3> QED BY <3>1, <3>2, <1>3, <1>4, VisitScore
  <2>3. ASSUME NEW i \in DOMAIN visited', NEW j \in DOMAIN visited', i < j
        PROVE  score'[visited'[i]] <= score'[visited'[j]]
    <3>1. CASE j \in 1..Len(visited)
      <4>1. i \in 1..Len(visited) /\ i \in DOMAIN visited /\ j \in DOMAIN visited
          BY <2>3, <3>1, <1>4, VisitScore
      <4>2. /\ score'[visited'[i]] = score[visited[i]]
            /\ score'[visited'[j]] = score[visited[j]]
          BY <3>1, <4>1, <1>4, VisitScore
      <4> QED BY <4>1, <4>2, <2>3, <1>2
    <3>2. CASE j = Len(visited) + 1
      <4>1. score'[visited'[j]] = depth
          BY <3>2, <1>4, VisitScore
      <4> QED BY <4>1, <2>1, <2>2
    <3> QED BY <3>1, <3>2, <1>3, <1>4, VisitScore
  <2>4. DOMAIN score' = Range(visited') /\ Len(visited') = Len(visited) + 1
      BY <1>4, VisitScore
  <2>5. depth' < Len(visited') /\ depth' <= Len(visited')
      BY <2>1, <2>4, <1>3
  <2> QED BY <2>1, <2>2, <2>3, <2>4, <2>5, <1>1 DEF DepthInv
<1>5. CASE RoundClosure
  <2>1. /\ depth' = depth + 1 /\ next # <<>> /\ next' = <<>>
        /\ visited' = visited /\ score' = score
      BY <1>5 DEF RoundClosure
  <2>2. depth' <= Len(visited')
      BY <2>1, <1>2, <1>3
  <2>3. ASSUME NEW i \in DOMAIN visited' PROVE score'[visited'[i]] <= depth'
    <3>1. score[visited[i]] \in Nat /\ score[visited[i]] <= depth
        BY <2>1, <1>2
    <3> QED BY <2>1, <3>1, <1>3
  <2> QED BY <2>1, <2>2, <2>3, <1>1, <1>2 DEF DepthInv
<1>6. CASE SkipClosure \/ VertexClosure \/ StepClosure \/ UNCHANGED vars
  <2>1. UNCHANGED <<next, visited, score, depth>>
      BY <1>6 DEF SkipClosure, VertexClosure, StepClosure, vars
  <2> QED BY <2>1, <1>1, <1>2 DEF DepthInv
<1>7. CASE \/ FollowMatch \/ SkipMatch \/ StepMatch
           \/ FollowCount \/ SkipCount \/ StepCount
    BY <1>7, <1>1 DEF FollowMatch, SkipMatch, StepMatch, FollowCount, SkipCount, StepCount, Running
<1> QED BY <1>4, <1>5, <1>6, <1>7 DEF Next

\* A round visits what is one hop further than the round before did.
LEMMA BallNext ==
    TypeInv /\ SoundInv /\ ScanInv /\ DepthInv /\ BallInv /\ [Next]_vars => BallInv'
<1> SUFFICES ASSUME TypeInv, SoundInv, ScanInv, DepthInv, BallInv, [Next]_vars, OneStep'
             PROVE  BallInv'
    BY DEF BallInv
<1> DEFINE B == Ball(path.steps[1])
<1>1. query = "closure" /\ graph' = graph /\ path' = path /\ Start' = Start
    BY DEF Next, vars, input, FollowMatch, SkipMatch, StepMatch, FollowCount, SkipCount, StepCount,
           FollowClosure, SkipClosure, VertexClosure, RoundClosure, StepClosure, Start, OneStep
<1>2. OneStep /\ B' = B
    BY <1>1 DEF OneStep, Ball, Crosses
<1>3. /\ \A id \in Range(visited) :
            id \in B[score[id]] /\ \A m \in 0..(score[id] - 1) : id \notin B[m]
      /\ \A m \in 0..(depth - 1) : B[m] \subseteq Range(visited)
      /\ \A id \in Range(next) : score[id] = depth
      /\ ~done => Range(frontier) \subseteq B[depth - 1]
    BY <1>2 DEF BallInv
<1>4. /\ depth \in Nat \ {0} /\ depth - 1 \in Nat /\ (depth - 1) + 1 = depth
      /\ graph.edges \in Seq(Edges)
      /\ frontier \in Seq(graph.records) /\ next \in Seq(graph.records)
      /\ f \in Nat \ {0}
      /\ Range(next) \subseteq Range(visited)
    BY <1>1, InputTyped DEF TypeInv, TypeOK, SoundInv
<1>5. B[depth] = B[depth - 1] \cup
         {Far(graph.edges[i], path.steps[1]) : i \in {j \in DOMAIN graph.edges :
             Crosses(graph.edges[j], path.steps[1]) /\ Near(graph.edges[j], path.steps[1]) \in B[depth - 1]}}
    BY SMTT(30), <1>4, BallIs
<1> HIDE DEF B
<1>6. ASSUME /\ \A id \in Range(visited') :
                   id \in B[score'[id]] /\ \A m \in 0..(score'[id] - 1) : id \notin B[m]
             /\ \A m \in 0..(depth' - 1) : B[m] \subseteq Range(visited')
             /\ \A id \in Range(next') : score'[id] = depth'
             /\ ~done' => Range(frontier') \subseteq B[depth' - 1]
      PROVE  BallInv'
    BY <1>2, <1>6 DEF BallInv, B
<1>7. ASSUME ~done PROVE Step = path.steps[1]
    BY <1>2, <1>7 DEF ScanInv, Step
<1>8. CASE FollowClosure
  <2>1. /\ ~done /\ done' = done /\ depth' = depth /\ frontier' = frontier
        /\ Near(Edge, Step) = frontier[f] /\ Crosses(Edge, Step)
        /\ Reached \notin Range(visited)
      BY <1>8, Zenon DEF FollowClosure, AtVertex, Running
  <2>2. e \in DOMAIN graph.edges /\ frontier[f] \in Range(frontier)
      BY <1>8, AtEdge DEF FollowClosure
  <2>3. Reached \in B[depth]
    <3>1. /\ Near(graph.edges[e], path.steps[1]) \in B[depth - 1]
          /\ Crosses(graph.edges[e], path.steps[1])
          /\ Reached = Far(graph.edges[e], path.steps[1])
        BY <2>1, <2>2, <1>3, <1>7 DEF Edge, Reached
    <3> QED BY <3>1, <2>2, <1>5
  <2>4. /\ Range(visited') = Range(visited) \cup {Reached}
        /\ Range(next') = Range(next) \cup {Reached}
      BY <1>8, VisitNew
  <2>5. /\ score'[Reached] = depth
        /\ \A id \in Range(visited) : score'[id] = score[id]
      BY <1>8, VisitScore
  <2>6. ASSUME NEW id \in Range(visited')
        PROVE  id \in B[score'[id]] /\ \A m \in 0..(score'[id] - 1) : id \notin B[m]
    <3>1. CASE id \in Range(visited)
        BY <3>1, <2>5, <1>3
    <3>2. CASE id = Reached
        BY <3>2, <2>1, <2>3, <2>5, <1>3
    <3> QED BY <3>1, <3>2, <2>4
  <2>7. \A m \in 0..(depth' - 1) : B[m] \subseteq Range(visited')
      BY <2>1, <2>4, <1>3
  <2>8. \A id \in Range(next') : score'[id] = depth'
      BY <2>1, <2>4, <2>5, <1>3, <1>4
  <2> QED BY <2>1, <2>6, <2>7, <2>8, <1>3, <1>6
<1>9. CASE RoundClosure
  <2>1. /\ ~done /\ done' = done /\ depth' = depth + 1 /\ frontier' = next /\ next' = <<>>
        /\ visited' = visited /\ score' = score /\ f > Len(frontier)
      BY <1>9, Zenon DEF RoundClosure, Running
  <2>2. ASSUME NEW id \in B[depth] PROVE id \in Range(visited)
    <3>1. B[depth - 1] \subseteq Range(visited)
        BY <1>3, <1>4
    <3>2. CASE id \in B[depth - 1]
        BY <3>1, <3>2
    <3>3. CASE id \notin B[depth - 1]
      <4>1. PICK i \in DOMAIN graph.edges :
                   /\ id = Far(graph.edges[i], path.steps[1])
                   /\ Crosses(graph.edges[i], path.steps[1])
                   /\ Near(graph.edges[i], path.steps[1]) \in B[depth - 1]
          BY <2>2, <3>3, <1>5
      <4> DEFINE near == Near(graph.edges[i], path.steps[1])
      <4>2. near \in Range(visited)
          BY <4>1, <3>1
      <4>3. near \notin Range(next)
        <5>1. near \in Range(next) => score[near] = depth
            BY <1>3
        <5>2. \A m \in 0..(score[near] - 1) : near \notin B[m]
            BY <4>2, <1>3
        <5>3. depth - 1 \in 0..(depth - 1)
            BY <1>4
        <5> QED BY <4>1, <5>1, <5>2, <5>3
      <4>4. ~Waiting(near)
          BY <4>3, <2>1, <1>4 DEF Waiting
      <4>5. AllExpanded(near)
          BY <4>2, <4>4, <2>1, <1>2 DEF ScanInv
      <4>6. i < Len(graph.edges) + 1
          BY <1>4
      <4> QED BY <4>1, <4>5, <4>6 DEF AllExpanded, Expanded
    <3> QED BY <3>2, <3>3
  <2>3. \A m \in 0..(depth' - 1) : B[m] \subseteq Range(visited')
    <3>1. \A m \in 0..(depth' - 1) : m = depth \/ m \in 0..(depth - 1)
        BY <2>1, <1>4
    <3> QED BY <3>1, <2>1, <2>2, <1>3
  <2>4. Range(next') = {}
      BY <2>1 DEF Range
  <2>5. Range(frontier') \subseteq B[depth' - 1]
    <3>1. depth' - 1 = depth
        BY <2>1, <1>4
    <3>2. \A id \in Range(next) : id \in B[score[id]] /\ score[id] = depth
        BY <1>3, <1>4
    <3> QED BY <2>1, <3>1, <3>2
  <2> QED BY <2>1, <2>3, <2>4, <2>5, <1>3, <1>6
<1>10. CASE StepClosure
  <2>1. /\ ~done /\ done' = (s = Len(path.steps))
        /\ UNCHANGED <<next, visited, score, depth>>
      BY <1>10, Zenon DEF StepClosure, Running
  <2>2. done'
      BY <2>1, <1>2 DEF OneStep, ScanInv
  <2> QED BY <2>1, <2>2, <1>3, <1>6
<1>11. CASE SkipClosure \/ VertexClosure \/ UNCHANGED vars
  <2>1. UNCHANGED <<done, frontier, next, visited, score, depth>>
      BY <1>11, Zenon DEF SkipClosure, VertexClosure, vars
  <2> QED BY <2>1, <1>3, <1>6
<1>12. CASE \/ FollowMatch \/ SkipMatch \/ StepMatch
            \/ FollowCount \/ SkipCount \/ StepCount
    BY <1>12, <1>1 DEF FollowMatch, SkipMatch, StepMatch, FollowCount, SkipCount, StepCount, Running
<1> QED BY <1>8, <1>9, <1>10, <1>11, <1>12 DEF Next

\* The rows of a closure come in the order of their scores, and after one step a
\* row's score is its distance from the start.
THEOREM ClosureIsBreadthFirst == Spec => []ClosureDepth
<1>1. TypeInv /\ DepthInv /\ BallInv => ClosureDepth
  <2> SUFFICES ASSUME TypeInv, DepthInv, BallInv, Returned("closure")
               PROVE  /\ \A i, j \in DOMAIN visited : i < j => score[visited[i]] <= score[visited[j]]
                      /\ Len(path.steps) = 1 =>
                            \A id \in Range(visited) :
                               score[id] = Min({n \in 0..Len(visited) : id \in Ball(path.steps[1])[n]})
      BY DEF ClosureDepth
  <2>1. \A i, j \in DOMAIN visited : i < j => score[visited[i]] <= score[visited[j]]
      BY DEF DepthInv, Returned
  <2>2. ASSUME Len(path.steps) = 1, NEW id \in Range(visited)
        PROVE  score[id] = Min({n \in 0..Len(visited) : id \in Ball(path.steps[1])[n]})
    <3> DEFINE near == {n \in 0..Len(visited) : id \in Ball(path.steps[1])[n]}
    <3>1. visited \in Seq(graph.records) /\ Len(visited) \in Nat
        BY DEF TypeInv, TypeOK
    <3>2. PICK i \in 1..Len(visited) : visited[i] = id
        BY <3>1, RangeOf
    <3>3. score[id] \in Nat /\ score[id] < i
        BY <3>1, <3>2 DEF DepthInv, Returned
    <3>4. Start \in graph.records
      <4>1. DOMAIN <<>> = {}
          OBVIOUS
      <4> QED BY <4>1, <2>2 DEF DepthInv, Returned, Range
    <3>5. id \in Ball(path.steps[1])[score[id]] /\
          \A m \in 0..(score[id] - 1) : id \notin Ball(path.steps[1])[m]
        BY <2>2, <3>4 DEF BallInv, OneStep, Returned
    <3>6. score[id] \in near /\ near \in SUBSET Nat
        BY <3>1, <3>2, <3>3, <3>5
    <3>7. ASSUME NEW m \in near PROVE score[id] <= m
      <4>1. m \in Nat /\ id \in Ball(path.steps[1])[m]
          BY <3>1
      <4>2. m \notin 0..(score[id] - 1)
          BY <4>1, <3>5
      <4> QED BY <4>1, <4>2, <3>3
    <3>8. Min(near) = score[id]
      <4> HIDE DEF near
      <4> QED BY <3>6, <3>7, MinIs
    <3> QED BY <3>8
  <2> QED BY <2>1, <2>2
<1>2. Spec => [](TypeInv /\ SoundInv /\ ScanInv /\ DepthInv /\ BallInv)
    BY TypeInit, TypeNext, SoundInit, SoundNext, ScanInit, ScanNext, DepthInit, DepthNext, BallNext,
       PTL DEF Spec
<1> QED BY <1>1, <1>2, PTL

(***************************************************************************)
(* MATCH ... COUNT.  The walks that end at a record are finitely many; one *)
(* more edge adds the walks that it makes longer.                          *)
(***************************************************************************)

\* The walks of n steps that end in a set, and those by an edge before m.
WalksInto(n, set) == {w \in Walks(n) : EndOf(n, w) \in set}
WalksBefore(n, id, m) == {w \in Walks(n) : EndOf(n, w) = id /\ w[n] < m}

Saturated(n) == IF n > MaxCount THEN MaxCount ELSE n

\* Saturating on the way gives what saturating at the end would.
LEMMA SaturatedAdd ==
    ASSUME NEW m \in Nat, NEW n \in Nat
    PROVE  SaturatingAdd(Saturated(m), Saturated(n)) = Saturated(m + n)
    BY MaxCountAssumption DEF SaturatingAdd, Saturated

\* Zero and one are small enough.
LEMMA SaturatedLow == Saturated(0) = 0 /\ Saturated(1) = 1
    BY MaxCountAssumption DEF Saturated

\* There are finitely many walks.
LEMMA WalksFinite ==
    ASSUME graph \in Graphs, path \in Paths, NEW n \in Nat
    PROVE  IsFiniteSet(Walks(n))
<1>0. IsFiniteSet(DOMAIN graph.edges)
  <2>1. graph.edges \in Seq(Edges)
      BY InputTyped
  <2>2. DOMAIN graph.edges = 1..Len(graph.edges) /\ Len(graph.edges) \in Int /\ 1 \in Int
      BY <2>1
  <2> QED BY <2>2, FS_Interval
<1> DEFINE good == {k \in Nat : IsFiniteSet(Walks(k))}
<1>1. 0 \in good
  <2>1. CASE Walks(0) = {}
      BY <2>1, FS_EmptySet
  <2>2. CASE Walks(0) # {}
    <3>1. PICK w : w \in Walks(0)
        BY <2>2
    <3>2. Start \in graph.records
        BY <3>1 DEF Walks
    <3>3. Walks(0) = {w}
        BY <3>1, <3>2, NoSteps
    <3> QED BY <3>3, FS_Singleton
  <2> QED BY <2>1, <2>2
<1>2. ASSUME NEW k \in Nat, k \in good PROVE k + 1 \in good
  <2>0. k + 1 \in Nat \ {0} /\ (k + 1) - 1 = k
      OBVIOUS
  <2> DEFINE pairs == Walks(k) \X DOMAIN graph.edges
             cut == [w \in Walks(k + 1) |-> <<Shorter(k + 1, w), w[k + 1]>>]
  <2>1. IsFiniteSet(Walks(k))
      BY <1>2
  <2>2. IsFiniteSet(pairs)
      BY <1>0, <2>1, FS_Product
  <2>3. ASSUME NEW w \in Walks(k + 1)
        PROVE  /\ cut[w] \in pairs
               /\ w = Longer(k + 1, cut[w][1], cut[w][2])
      BY <2>0, WalkLast
  <2>4. cut \in [Walks(k + 1) -> pairs]
      BY <2>3
  <2>5. \A w, u \in Walks(k + 1) : cut[w] = cut[u] => w = u
      BY <2>3
  <2> HIDE DEF cut, pairs
  <2>6. cut \in Injection(Walks(k + 1), pairs)
    <3>1. DOMAIN cut = Walks(k + 1)
        BY <2>4
    <3> QED BY <2>4, <2>5, <3>1 DEF Injection, IsInjective
  <2>7. IsFiniteSet(Walks(k + 1))
      BY <2>2, <2>6, FS_Injection
  <2> QED BY <2>7
<1> HIDE DEF good
<1>3. n \in good
    BY <1>1, <1>2, N!Induction
<1> QED BY <1>3 DEF good

\* Walks that end anywhere are finitely many.
LEMMA SomeWalksFinite ==
    ASSUME graph \in Graphs, path \in Paths, NEW n \in Nat, NEW T \in SUBSET Walks(n)
    PROVE  IsFiniteSet(T) /\ Cardinality(T) \in Nat
<1>1. IsFiniteSet(Walks(n))
    BY WalksFinite
<1>2. IsFiniteSet(T)
    BY <1>1, FS_Subset
<1> QED BY <1>2, FS_CardinalityType

\* Disjoint sets of walks.
LEMMA WalksAdd ==
    ASSUME graph \in Graphs, path \in Paths, NEW n \in Nat,
           NEW T \in SUBSET Walks(n), NEW U \in SUBSET Walks(n), T \cap U = {}
    PROVE  Cardinality(T \cup U) = Cardinality(T) + Cardinality(U)
<1>1. IsFiniteSet(T) /\ IsFiniteSet(U) /\ Cardinality(T) \in Nat /\ Cardinality(U) \in Nat
    BY SomeWalksFinite
<1>2. Cardinality(T \cup U) = Cardinality(T) + Cardinality(U) - Cardinality(T \cap U)
    BY <1>1, FS_Union
<1>3. Cardinality(T \cap U) = 0
    BY FS_EmptySet
<1> QED BY <1>1, <1>2, <1>3

\* As many walks arrive by an edge as end where it leaves.
LEMMA WalksByEdge ==
    ASSUME graph \in Graphs, path \in Paths, NEW n \in Nat \ {0}, NEW j, Follows(j, n)
    PROVE  Cardinality({w \in Walks(n) : w[n] = j}) =
              Cardinality(WalksInto(n - 1, {NearOf(j, n)}))
<1> DEFINE T == WalksInto(n - 1, {NearOf(j, n)})
           U == {w \in Walks(n) : w[n] = j}
           grow == [v \in T |-> Longer(n, v, j)]
<1>1. IsFiniteSet(T)
  <2>1. T \in SUBSET Walks(n - 1) /\ n - 1 \in Nat
      BY DEF WalksInto
  <2> HIDE DEF T
  <2> QED BY <2>1, SomeWalksFinite
<1>2. ASSUME NEW v \in T
      PROVE  Longer(n, v, j) \in U /\ Shorter(n, Longer(n, v, j)) = v
  <2>1. v \in Walks(n - 1) /\ NearOf(j, n) = EndOf(n - 1, v)
      BY DEF WalksInto
  <2> QED BY <2>1, WalkMore
<1>3. ASSUME NEW w \in U
      PROVE  Shorter(n, w) \in T /\ Longer(n, Shorter(n, w), j) = w
    BY WalkLast DEF WalksInto
<1> HIDE DEF T, U
<1>4. grow \in [T -> U]
    BY <1>2
<1>5. \A v, u \in T : grow[v] = grow[u] => v = u
    BY <1>2
<1>6. \A w \in U : \E v \in T : grow[v] = w
    BY <1>3
<1>7. grow \in Bijection(T, U)
  <2>1. DOMAIN grow = T
      OBVIOUS
  <2> HIDE DEF grow
  <2> QED BY <1>4, <1>5, <1>6, <2>1 DEF Bijection, Injection, Surjection, IsInjective
<1>8. Cardinality(U) = Cardinality(T)
    BY <1>1, <1>7, FS_Bijection DEF ExistsBijection
<1> QED BY <1>8 DEF T, U

\* An edge that hits a record adds the walks it makes longer; any other edge none.
LEMMA WalksByOneMore ==
    ASSUME graph \in Graphs, path \in Paths, NEW n \in Nat \ {0}, NEW id,
           NEW m \in 1..Len(graph.edges)
    PROVE  Cardinality(WalksBefore(n, id, m + 1)) =
              IF m \in Hits(n) /\ FarOf(m, n) = id
              THEN Cardinality(WalksBefore(n, id, m)) + Cardinality(WalksInto(n - 1, {NearOf(m, n)}))
              ELSE Cardinality(WalksBefore(n, id, m))
<1>0. Len(graph.edges) \in Nat /\ DOMAIN graph.edges = 1..Len(graph.edges)
    BY InputTyped
<1>1. ASSUME NEW w \in Walks(n)
      PROVE  /\ w[n] \in Nat /\ w[n] \in Hits(n) /\ EndOf(n, w) = FarOf(w[n], n)
             /\ w[n] < m + 1 <=> w[n] < m \/ w[n] = m
  <2>1. w[n] \in Hits(n) /\ EndOf(n, w) = FarOf(w[n], n) /\ w[n] \in 1..Len(graph.edges)
      BY <1>0, WalkLast DEF Hits, Ends
  <2>2. w[n] \in Nat
      BY <1>0, <2>1
  <2> QED BY <2>1, <2>2
<1> DEFINE T == WalksBefore(n, id, m)
           U == {w \in Walks(n) : w[n] = m}
<1>2. CASE m \in Hits(n) /\ FarOf(m, n) = id
  <2>1. WalksBefore(n, id, m + 1) = T \cup U
      BY <1>1, <1>2 DEF WalksBefore
  <2>2. T \cap U = {}
    <3>1. ~ (m < m)
        OBVIOUS
    <3> QED BY <3>1 DEF WalksBefore
  <2>3. T \in SUBSET Walks(n) /\ U \in SUBSET Walks(n)
      BY DEF WalksBefore
  <2>4. Cardinality(U) = Cardinality(WalksInto(n - 1, {NearOf(m, n)}))
      BY <1>2, WalksByEdge DEF Hits
  <2> HIDE DEF T, U
  <2>5. Cardinality(T \cup U) = Cardinality(T) + Cardinality(U)
      BY <2>2, <2>3, WalksAdd
  <2> QED BY <2>1, <2>4, <2>5, <1>2 DEF T
<1>3. CASE ~(m \in Hits(n) /\ FarOf(m, n) = id)
  <2>1. WalksBefore(n, id, m + 1) = WalksBefore(n, id, m)
      BY <1>1, <1>3 DEF WalksBefore
  <2> QED BY <2>1, <1>3
<1> QED BY <1>2, <1>3

\* Each record a step has reached has the number of walks that end there, or the
\* largest number there is.
CountInv ==
    query = "count" =>
        /\ e <= Len(graph.edges) + 1
        /\ ~done => /\ DOMAIN walks = Ends(s - 1)
                    /\ \A id \in Ends(s - 1) :
                          walks[id] = Saturated(Cardinality(WalksInto(s - 1, {id})))
                    /\ DOMAIN arrived = {FarOf(j, s) : j \in HitsBefore(s, e)}
                    /\ \A id \in DOMAIN arrived :
                          arrived[id] = Saturated(Cardinality(WalksBefore(s, id, e)))
        /\ done => LET n == Len(path.steps) IN
                    /\ DOMAIN walks = Ends(n)
                    /\ \A id \in Ends(n) : walks[id] = Saturated(Cardinality(WalksInto(n, {id})))

\* There is one walk of no steps.
LEMMA CountInit == Init => CountInv
<1> SUFFICES ASSUME Init, query = "count" PROVE CountInv
    BY DEF CountInv
<1>1. /\ graph \in Graphs /\ path \in Paths /\ s = 1 /\ e = 1 /\ arrived = <<>>
      /\ done = (Start \notin graph.records) /\ Len(graph.edges) \in Nat
      /\ Len(path.steps) \in Nat \ {0}
    BY InputTyped DEF Init
<1>2. CASE Start \in graph.records
  <2>1. ~done /\ walks = Put(<<>>, Start, 1)
      BY <1>1, <1>2, Zenon DEF Init
  <2>2. DOMAIN walks = {Start} /\ walks[Start] = 1 /\ DOMAIN arrived = {}
      BY <1>1, <2>1 DEF Put
  <2>3. Ends(0) = {Start} /\ s - 1 = 0
      BY <1>1, <1>2, NoSteps
  <2>4. Cardinality(WalksInto(0, {Start})) = 1
    <3>1. PICK w : w \in Walks(0)
        BY <2>3 DEF Ends
    <3>2. Walks(0) = {w} /\ EndOf(0, w) = Start
        BY <3>1, <1>2, NoSteps DEF EndOf
    <3>3. WalksInto(0, {Start}) = {w}
        BY <3>2 DEF WalksInto
    <3> QED BY <3>3, FS_Singleton
  <2>5. \A id \in Ends(0) : walks[id] = Saturated(Cardinality(WalksInto(0, {id})))
      BY <2>2, <2>3, <2>4, SaturatedLow
  <2>6. HitsBefore(s, e) = {}
      BY <1>1, NothingHit
  <2>7. /\ DOMAIN walks = Ends(s - 1)
        /\ \A id \in Ends(s - 1) : walks[id] = Saturated(Cardinality(WalksInto(s - 1, {id})))
      BY <2>2, <2>3, <2>5
  <2>8. /\ DOMAIN arrived = {FarOf(j, s) : j \in HitsBefore(s, e)}
        /\ e <= Len(graph.edges) + 1
      BY <1>1, <2>2, <2>6
  <2> QED BY <2>1, <2>2, <2>7, <2>8 DEF CountInv
<1>3. CASE Start \notin graph.records
  <2>1. done /\ walks = <<>>
      BY <1>1, <1>3, Zenon DEF Init
  <2>2. Ends(Len(path.steps)) = {}
      BY <1>3, NoSteps DEF Ends
  <2> QED BY <1>1, <2>1, <2>2 DEF CountInv
<1> QED BY <1>2, <1>3

\* Each edge looked at counts the walks it makes longer.
LEMMA CountNext == TypeInv /\ CountInv /\ [Next]_vars => CountInv'
<1> SUFFICES ASSUME TypeInv, CountInv, [Next]_vars, query' = "count" PROVE CountInv'
    BY DEF CountInv
<1>1. query = "count" /\ graph' = graph /\ path' = path
    BY DEF Next, vars, input, FollowMatch, SkipMatch, StepMatch, FollowCount, SkipCount, StepCount,
           FollowClosure, SkipClosure, VertexClosure, RoundClosure, StepClosure
<1>2. /\ graph \in Graphs /\ path \in Paths /\ Len(graph.edges) \in Nat
      /\ DOMAIN graph.edges = 1..Len(graph.edges)
      /\ Len(path.steps) \in Nat \ {0} /\ s \in Nat \ {0} /\ e \in Nat \ {0} /\ s - 1 \in Nat
    BY InputTyped DEF TypeInv, TypeOK
<1>3. /\ \A n : Ends(n)' = Ends(n) /\ Hits(n)' = Hits(n) /\ Walks(n)' = Walks(n)
      /\ \A n, j : FarOf(j, n)' = FarOf(j, n)
      /\ Start' = Start
    BY <1>1, WalksStay DEF Start
<1>4. /\ \A n, m : HitsBefore(n, m)' = HitsBefore(n, m)
      /\ \A n, set : WalksInto(n, set)' = WalksInto(n, set)
      /\ \A n, id, m : WalksBefore(n, id, m)' = WalksBefore(n, id, m)
    BY <1>1, <1>3 DEF HitsBefore, WalksInto, WalksBefore, EndOf
<1>5. e <= Len(graph.edges) + 1
    BY <1>1 DEF CountInv
<1>6. ASSUME ~done
      PROVE  /\ DOMAIN walks = Ends(s - 1)
             /\ \A id \in Ends(s - 1) : walks[id] = Saturated(Cardinality(WalksInto(s - 1, {id})))
             /\ DOMAIN arrived = {FarOf(j, s) : j \in HitsBefore(s, e)}
             /\ \A id \in DOMAIN arrived : arrived[id] = Saturated(Cardinality(WalksBefore(s, id, e)))
    BY <1>1, <1>6 DEF CountInv
<1>7. ASSUME e' <= Len(graph.edges) + 1,
             ~done' => /\ DOMAIN walks' = Ends(s' - 1)
                       /\ \A id \in Ends(s' - 1) :
                             walks'[id] = Saturated(Cardinality(WalksInto(s' - 1, {id})))
                       /\ DOMAIN arrived' = {FarOf(j, s') : j \in HitsBefore(s', e')}
                       /\ \A id \in DOMAIN arrived' :
                             arrived'[id] = Saturated(Cardinality(WalksBefore(s', id, e'))),
             done' => LET n == Len(path.steps) IN
                       /\ DOMAIN walks' = Ends(n)
                       /\ \A id \in Ends(n) :
                             walks'[id] = Saturated(Cardinality(WalksInto(n, {id})))
      PROVE  CountInv'
    BY <1>1, <1>3, <1>4, <1>7 DEF CountInv, Saturated
\* The edge looked at.
<1>8. ASSUME ~done, e <= Len(graph.edges)
      PROVE  /\ e \in 1..Len(graph.edges) /\ e + 1 <= Len(graph.edges) + 1
             /\ e \in Hits(s) <=> Crosses(Edge, Step) /\ Near(Edge, Step) \in DOMAIN walks
             /\ Reached = FarOf(e, s) /\ Near(Edge, Step) = NearOf(e, s)
  <2>1. e \in 1..Len(graph.edges) /\ e + 1 <= Len(graph.edges) + 1
      BY <1>2, <1>8
  <2> QED BY <2>1, <1>2, <1>6, <1>8 DEF Hits, Follows, NearOf, FarOf, Edge, Step, Reached
<1>9. CASE FollowCount
  <2>1. /\ ~done /\ e <= Len(graph.edges) /\ done' = done /\ s' = s /\ e' = e + 1 /\ walks' = walks
        /\ Crosses(Edge, Step) /\ Near(Edge, Step) \in DOMAIN walks
        /\ arrived' = Put(arrived, Reached,
              SaturatingAdd(IF Reached \in DOMAIN arrived THEN arrived[Reached] ELSE 0,
                            walks[Near(Edge, Step)]))
      BY <1>9, Zenon DEF FollowCount, Running
  <2>2. /\ e \in 1..Len(graph.edges) /\ e + 1 <= Len(graph.edges) + 1 /\ e \in Hits(s)
        /\ Reached = FarOf(e, s) /\ Near(Edge, Step) = NearOf(e, s)
      BY <2>1, <1>8
  <2>3. HitsBefore(s, e + 1) = HitsBefore(s, e) \cup {e}
      BY <2>2, <1>2, OneMoreHit
  <2>4. DOMAIN arrived' = DOMAIN arrived \cup {Reached}
      BY <2>1 DEF Put
  <2>5. DOMAIN arrived' = {FarOf(j, s) : j \in HitsBefore(s, e + 1)}
      BY <2>1, <2>2, <2>3, <2>4, <1>6
  <2>6. ASSUME NEW id \in DOMAIN arrived'
        PROVE  arrived'[id] = Saturated(Cardinality(WalksBefore(s, id, e + 1)))
    <3>1. CASE id # Reached
      <4>1. arrived'[id] = arrived[id] /\ id \in DOMAIN arrived
          BY <3>1, <2>1, <2>4 DEF Put
      <4>2. Cardinality(WalksBefore(s, id, e + 1)) = Cardinality(WalksBefore(s, id, e))
          BY <3>1, <2>2, <1>2, WalksByOneMore
      <4> QED BY <4>1, <4>2, <2>1, <1>6
    <3>2. CASE id = Reached
      <4> DEFINE before == Cardinality(WalksBefore(s, id, e))
                 more == Cardinality(WalksInto(s - 1, {NearOf(e, s)}))
      <4>1. before \in Nat /\ more \in Nat
        <5>1. WalksBefore(s, id, e) \in SUBSET Walks(s)
            BY DEF WalksBefore
        <5>2. WalksInto(s - 1, {NearOf(e, s)}) \in SUBSET Walks(s - 1)
            BY DEF WalksInto
        <5> QED BY <5>1, <5>2, <1>2, SomeWalksFinite
      <4>2. Cardinality(WalksBefore(s, id, e + 1)) = before + more
          BY <3>2, <2>2, <1>2, WalksByOneMore
      <4>3. walks[Near(Edge, Step)] = Saturated(more)
          BY <2>1, <2>2, <1>6
      <4>4. (IF Reached \in DOMAIN arrived THEN arrived[Reached] ELSE 0) = Saturated(before)
        <5>1. CASE id \in DOMAIN arrived
            BY <5>1, <3>2, <2>1, <1>6
        <5>2. CASE id \notin DOMAIN arrived
          <6>1. ASSUME NEW w \in WalksBefore(s, id, e) PROVE FALSE
            <7>1. w \in Walks(s) /\ EndOf(s, w) = id /\ w[s] < e
                BY DEF WalksBefore
            <7>2. w[s] \in HitsBefore(s, e) /\ FarOf(w[s], s) = id
                BY <7>1, <1>2, WalkLast DEF Hits, HitsBefore, Ends
            <7> QED BY <7>2, <5>2, <2>1, <1>6
          <6>2. before = 0
              BY <6>1, FS_EmptySet
          <6> QED BY <6>2, <5>2, <3>2, SaturatedLow
        <5> QED BY <5>1, <5>2
      <4> HIDE DEF before, more
      <4>5. arrived'[id] = SaturatingAdd(Saturated(before), Saturated(more))
          BY <3>2, <4>3, <4>4, <2>1 DEF Put
      <4> QED BY <4>1, <4>2, <4>5, SaturatedAdd
    <3> QED BY <3>1, <3>2
  <2> QED BY <2>1, <2>2, <2>5, <2>6, <1>6, <1>7
<1>10. CASE SkipCount
  <2>1. /\ ~done /\ e <= Len(graph.edges) /\ done' = done /\ s' = s /\ e' = e + 1
        /\ walks' = walks /\ arrived' = arrived
        /\ ~(Crosses(Edge, Step) /\ Near(Edge, Step) \in DOMAIN walks)
      BY <1>10, Zenon DEF SkipCount, Running, counts
  <2>2. e \in 1..Len(graph.edges) /\ e + 1 <= Len(graph.edges) + 1 /\ e \notin Hits(s)
      BY <2>1, <1>8
  <2>3. HitsBefore(s, e + 1) = HitsBefore(s, e)
      BY <2>2, <1>2, OneMoreHit
  <2>4. \A id : Cardinality(WalksBefore(s, id, e + 1)) = Cardinality(WalksBefore(s, id, e))
      BY <2>2, <1>2, WalksByOneMore
  <2> QED BY <2>1, <2>2, <2>3, <2>4, <1>6, <1>7
<1>11. CASE StepCount
  <2>1. /\ ~done /\ e > Len(graph.edges) /\ walks' = arrived /\ arrived' = <<>>
        /\ s' = s + 1 /\ e' = 1 /\ done' = (arrived = <<>> \/ s = Len(path.steps))
      BY <1>11, Zenon DEF StepCount, Running
  <2>2. e = Len(graph.edges) + 1 /\ s' - 1 = s
      BY <2>1, <1>2, <1>5
  <2>3. HitsBefore(s, e) = Hits(s)
      BY <2>2, <1>2, NothingHit
  <2>4. DOMAIN walks' = Ends(s)
      BY <2>1, <2>3, <1>2, <1>6, EndsAre
  <2>5. ASSUME NEW id \in Ends(s) PROVE walks'[id] = Saturated(Cardinality(WalksInto(s, {id})))
    <3>1. ASSUME NEW w \in Walks(s) PROVE w[s] < e
        BY <2>2, <1>2, WalkLast
    <3>2. WalksBefore(s, id, e) = WalksInto(s, {id})
        BY <3>1 DEF WalksBefore, WalksInto
    <3> QED BY <3>2, <2>1, <2>4, <1>6
  <2>6. HitsBefore(s', e') = {} /\ DOMAIN arrived' = {}
      BY <2>1, <1>2, NothingHit
  <2>7. ASSUME done'
        PROVE  LET n == Len(path.steps) IN
               /\ DOMAIN walks' = Ends(n)
               /\ \A id \in Ends(n) : walks'[id] = Saturated(Cardinality(WalksInto(n, {id})))
    <3>1. CASE s = Len(path.steps)
        BY <3>1, <2>4, <2>5
    <3>2. CASE s # Len(path.steps)
      <4>1. arrived = <<>> /\ s <= Len(path.steps)
          BY <3>2, <2>7, <2>1 DEF TypeInv, TypeOK
      <4>2. Ends(s) = {} /\ DOMAIN walks' = {}
          BY <4>1, <2>1, <2>4
      <4>3. Ends(Len(path.steps)) = {}
          BY <4>1, <4>2, <1>2, NoMoreEnds
      <4> QED BY <4>2, <4>3
    <3> QED BY <3>1, <3>2
  <2>8. e' <= Len(graph.edges) + 1
      BY <2>1, <1>2
  <2> QED BY <2>2, <2>4, <2>5, <2>6, <2>7, <2>8, <1>7
<1>12. CASE \/ FollowMatch \/ SkipMatch \/ StepMatch
            \/ FollowClosure \/ SkipClosure \/ VertexClosure \/ RoundClosure \/ StepClosure
    BY <1>12, <1>1
       DEF FollowMatch, SkipMatch, StepMatch, FollowClosure, SkipClosure, VertexClosure,
           RoundClosure, StepClosure, AtVertex, Running
<1>13. CASE UNCHANGED vars
  <2>1. UNCHANGED <<done, s, e, walks, arrived>>
      BY <1>13, Zenon DEF vars, loops, counts
  <2> QED BY <2>1, <1>1, <1>5, <1>6, <1>7 DEF CountInv
<1> QED BY <1>9, <1>10, <1>11, <1>12, <1>13 DEF Next

\* The sum over a finite set of records is the number of walks that end in it, or
\* the largest number there is, in whatever order the records are taken.
LEMMA CountIsSum ==
    ASSUME graph \in Graphs, path \in Paths, NEW n \in Nat, DOMAIN walks = Ends(n),
           \A id \in Ends(n) : walks[id] = Saturated(Cardinality(WalksInto(n, {id})))
    PROVE  Count = Saturated(Cardinality(Walks(n)))
<1> DEFINE D == Ends(n)
           pick(T) == CHOOSE id \in T : TRUE
           Sums(iter) == iter = [T \in SUBSET D |->
                            IF T = {} THEN 0
                            ELSE SaturatingAdd(walks[pick(T)], iter[T \ {pick(T)}])]
           sum(T) == Saturated(Cardinality(WalksInto(n, T)))
           iter0 == [T \in SUBSET D |-> sum(T)]
           iter1 == CHOOSE iter : Sums(iter)
<1>1. Count = iter1[D]
    BY DEF Count, FoldFunction, FoldFunctionOnSet, MapThenFoldSet
<1>2. sum({}) = 0
  <2>1. WalksInto(n, {}) = {}
      BY DEF WalksInto
  <2> QED BY <2>1, FS_EmptySet, SaturatedLow
<1>3. ASSUME NEW T \in SUBSET D, T # {}
      PROVE  pick(T) \in T /\ sum(T) = SaturatingAdd(walks[pick(T)], sum(T \ {pick(T)}))
  <2> DEFINE x == pick(T)
             U == WalksInto(n, {x})
             V == WalksInto(n, T \ {x})
  <2>1. x \in T
      BY <1>3
  <2> HIDE DEF x
  <2>2. WalksInto(n, T) = U \cup V /\ U \cap V = {} /\ U \in SUBSET Walks(n) /\ V \in SUBSET Walks(n)
      BY <2>1 DEF WalksInto
  <2>3. walks[x] = Saturated(Cardinality(U))
      BY <2>1
  <2> HIDE DEF U, V
  <2>4. Cardinality(U) \in Nat /\ Cardinality(V) \in Nat
      BY <2>2, SomeWalksFinite
  <2>5. Cardinality(U \cup V) = Cardinality(U) + Cardinality(V)
      BY <2>2, WalksAdd
  <2>6. sum(T) = SaturatingAdd(walks[x], Saturated(Cardinality(V)))
      BY <2>2, <2>3, <2>4, <2>5, SaturatedAdd
  <2> QED BY <2>1, <2>6 DEF V, x
<1> HIDE DEF sum, pick
<1>4. \E iter : Sums(iter)
  <2>1. ASSUME NEW T \in SUBSET D
        PROVE  iter0[T] = IF T = {} THEN 0 ELSE SaturatingAdd(walks[pick(T)], iter0[T \ {pick(T)}])
      BY <1>2, <1>3
  <2>2. Sums(iter0)
      BY <2>1
  <2> QED BY <2>2
<1>5. Sums(iter1)
    BY <1>4
<1>6. ASSUME NEW T \in SUBSET D
      PROVE  iter1[T] = IF T = {} THEN 0 ELSE SaturatingAdd(walks[pick(T)], iter1[T \ {pick(T)}])
  <2> HIDE DEF iter1
  <2> QED BY <1>5
<1> HIDE DEF iter1
<1>7. IsFiniteSet(D)
  <2> DEFINE end == [w \in Walks(n) |-> EndOf(n, w)]
  <2>1. end \in Surjection(Walks(n), D)
      BY DEF Surjection, Ends
  <2>2. IsFiniteSet(Walks(n))
      BY WalksFinite
  <2> HIDE DEF end
  <2> QED BY <2>1, <2>2, FS_Surjection
<1> DEFINE good == {k \in Nat : \A T \in SUBSET D : Cardinality(T) = k => iter1[T] = sum(T)}
<1>8. \A T \in SUBSET D : IsFiniteSet(T) /\ Cardinality(T) \in Nat
    BY <1>7, FS_Subset, FS_CardinalityType
<1>9. 0 \in good
  <2>1. \A T \in SUBSET D : Cardinality(T) = 0 => T = {}
      BY <1>8, FS_EmptySet
  <2> QED BY <2>1, <1>2, <1>6
<1>10. ASSUME NEW k \in Nat, k \in good PROVE k + 1 \in good
  <2>1. ASSUME NEW T \in SUBSET D, Cardinality(T) = k + 1 PROVE iter1[T] = sum(T)
    <3>1. T # {}
        BY <2>1, FS_EmptySet
    <3>2. pick(T) \in T /\ T \ {pick(T)} \in SUBSET D
        BY <3>1, <1>3
    <3>3. Cardinality(T \ {pick(T)}) = k
      <4>1. IsFiniteSet(T)
          BY <1>8
      <4>2. Cardinality(T \ {pick(T)}) = Cardinality(T) - 1
          BY <3>2, <4>1, FS_RemoveElement
      <4> QED BY <4>2, <2>1
    <3>4. iter1[T \ {pick(T)}] = sum(T \ {pick(T)})
        BY <3>2, <3>3, <1>10
    <3> QED BY <3>1, <3>2, <3>4, <1>3, <1>6
  <2> QED BY <2>1
<1> HIDE DEF good
<1>11. Cardinality(D) \in good
    BY <1>8, <1>9, <1>10, N!Induction
<1>12. iter1[D] = sum(D)
    BY <1>11 DEF good
<1>13. WalksInto(n, D) = Walks(n)
    BY DEF WalksInto, Ends
<1> QED BY <1>1, <1>12, <1>13 DEF sum

\* COUNT is the number of walks that take every step, or u64::MAX.
THEOREM CountIsExact == Spec => []CountExact
<1>1. TypeInv /\ CountInv => CountExact
  <2> SUFFICES ASSUME TypeInv, CountInv, Returned("count")
               PROVE  Count = Min({MaxCount, Cardinality(FullWalks)})
      BY DEF CountExact
  <2>1. graph \in Graphs /\ path \in Paths /\ Len(path.steps) \in Nat
      BY InputTyped DEF TypeInv, TypeOK
  <2>2. Count = Saturated(Cardinality(FullWalks))
    <3>1. /\ DOMAIN walks = Ends(Len(path.steps))
          /\ \A id \in Ends(Len(path.steps)) :
                walks[id] = Saturated(Cardinality(WalksInto(Len(path.steps), {id})))
        BY DEF CountInv, Returned
    <3> QED BY <2>1, <3>1, CountIsSum DEF FullWalks
  <2>3. Cardinality(FullWalks) \in Nat /\ MaxCount \in Nat
      BY <2>1, SomeWalksFinite, MaxCountAssumption DEF FullWalks
  <2>4. Min({MaxCount, Cardinality(FullWalks)}) = Saturated(Cardinality(FullWalks))
    <3> DEFINE c == Cardinality(FullWalks)
    <3> HIDE DEF c
    <3>1. {MaxCount, c} \in SUBSET Nat /\ Saturated(c) \in {MaxCount, c}
          /\ \A u \in {MaxCount, c} : Saturated(c) <= u
        BY <2>3 DEF Saturated, c
    <3>2. Min({MaxCount, c}) = Saturated(c)
        BY <3>1, MinIs
    <3> QED BY <3>2 DEF c
  <2> QED BY <2>2, <2>4
<1>2. Spec => [](TypeInv /\ CountInv)
    BY TypeInit, TypeNext, CountInit, CountNext, PTL DEF Spec
<1> QED BY <1>1, <1>2, PTL
================================================================================
