------------------------------ MODULE Traversal ------------------------------
(***************************************************************************)
(* The graph queries of the engine, MATCH, MATCH ... COUNT and CLOSURE:    *)
(* run_match, run_match_count and run_closure as the loops they are, one   *)
(* action per edge looked at and per turn of an enclosing loop.            *)
(*                                                                         *)
(* Everything is deterministic once the graph and the path are chosen.     *)
(* The filter of a step is the set of edge properties it accepts; an edge  *)
(* name is compared without its leading colon, so it is one value.         *)
(***************************************************************************)
EXTENDS Integers, Sequences, FiniteSets, Functions, SequencesExt

CONSTANTS Ids,        \* record ids
          Names,      \* edge names
          Props,      \* edge properties
          Graphs,     \* the graphs queried: [records, edges], edges in append order
          Paths,      \* the paths queried: [start, steps]
          MaxCount    \* u64::MAX

Edges == [from : Ids, name : Names, to : Ids, weight : Nat, props : Props]
Steps == [direction : {"out", "in"}, name : Names, accepts : SUBSET Props]

ASSUME GraphsTyped == Graphs \subseteq [records : SUBSET Ids, edges : Seq(Edges)]
ASSUME PathsTyped == Paths \subseteq [start : Ids, steps : Seq(Steps)]
ASSUME MaxCountAssumption == MaxCount \in Nat \ {0}
ASSUME PathsNotEmpty == \A p \in Paths : p.steps # <<>>   \* the parser's "at least one step"

VARIABLES
    graph, path,     \* the query's input
    query, done,     \* which of the three queries runs; it has returned
    s, f, e,         \* the step, the frontier vertex (CLOSURE) and the edge looked at next
    frontier, next,  \* where the step starts from, and what it has reached
    visited,         \* CLOSURE: everything reached, in order
    score,           \* score_of of MATCH, depth_of of CLOSURE
    depth,           \* CLOSURE: next_depth
    walks, arrived   \* COUNT: frontier and next, with the number of walks to each record

input == <<graph, path, query>>
loops == <<s, f, e>>
counts == <<walks, arrived>>
vars == <<input, done, loops, frontier, next, visited, score, depth, counts>>

Step == path.steps[s]
Edge == graph.edges[e]

Near(edge, step) == IF step.direction = "out" THEN edge.from ELSE edge.to
Far(edge, step) == IF step.direction = "out" THEN edge.to ELSE edge.from

\* A mutant of Crosses: edges to records never inserted are followed.
CrossesDangling(edge, step) == edge.name = step.name /\ edge.props \in step.accepts

\* An edge a step may follow: name and properties match, the other end exists.
Crosses(edge, step) ==
    /\ edge.name = step.name
    /\ edge.props \in step.accepts
    /\ Far(edge, step) \in graph.records

Start == path.start

\* BTreeMap::insert, and an insert where no entry is in its place.
Put(map, id, value) == [i \in DOMAIN map \cup {id} |-> IF i = id THEN value ELSE map[i]]
PutNew(map, id, value) == IF id \in DOMAIN map THEN map ELSE Put(map, id, value)

Queries == {"match", "count", "closure"}
Running(q) == query = q /\ ~done

Init ==
    /\ graph \in Graphs /\ path \in Paths
    /\ query \in Queries
    /\ done = (Start \notin graph.records)
    /\ s = 1 /\ f = 1 /\ e = 1
    /\ next = <<>> /\ arrived = <<>> /\ depth = 1
    /\ IF Start \in graph.records
       THEN /\ frontier = <<Start>> /\ visited = <<Start>>
            /\ score = Put(<<>>, Start, 0) /\ walks = Put(<<>>, Start, 1)
       ELSE /\ frontier = <<>> /\ visited = <<>>
            /\ score = <<>> /\ walks = <<>>

Reached == Far(Edge, Step)

(***************************************************************************)
(* MATCH.                                                                  *)
(***************************************************************************)

\* Mutants of FollowMatch: a record is put in the next frontier once per edge, or
\* the last edge to reach a record gives the score.
FollowMatchTwice ==
    /\ Running("match") /\ e <= Len(graph.edges)
    /\ Crosses(Edge, Step) /\ Near(Edge, Step) \in Range(frontier)
    /\ next' = Append(next, Reached)
    /\ score' = PutNew(score, Reached, Edge.weight)
    /\ e' = e + 1
    /\ UNCHANGED <<input, done, s, f, frontier, visited, depth, counts>>

FollowMatchLast ==
    /\ Running("match") /\ e <= Len(graph.edges)
    /\ Crosses(Edge, Step) /\ Near(Edge, Step) \in Range(frontier)
    /\ next' = IF Reached \in Range(next) THEN next ELSE Append(next, Reached)
    /\ score' = Put(score, Reached, Edge.weight)
    /\ e' = e + 1
    /\ UNCHANGED <<input, done, s, f, frontier, visited, depth, counts>>

FollowMatch ==
    /\ Running("match") /\ e <= Len(graph.edges)
    /\ Crosses(Edge, Step) /\ Near(Edge, Step) \in Range(frontier)
    /\ next' = IF Reached \in Range(next) THEN next ELSE Append(next, Reached)
    /\ score' = PutNew(score, Reached, Edge.weight)
    /\ e' = e + 1
    /\ UNCHANGED <<input, done, s, f, frontier, visited, depth, counts>>

SkipMatch ==
    /\ Running("match") /\ e <= Len(graph.edges)
    /\ ~(Crosses(Edge, Step) /\ Near(Edge, Step) \in Range(frontier))
    /\ e' = e + 1
    /\ UNCHANGED <<input, done, s, f, frontier, next, visited, score, depth, counts>>

StepMatch ==
    /\ Running("match") /\ e > Len(graph.edges)
    /\ frontier' = next
    /\ next' = <<>>
    /\ s' = s + 1 /\ e' = 1
    /\ done' = (next = <<>> \/ s = Len(path.steps))
    /\ UNCHANGED <<input, f, visited, score, depth, counts>>

(***************************************************************************)
(* MATCH ... COUNT.                                                        *)
(***************************************************************************)

SaturatingAdd(m, n) == IF m + n > MaxCount THEN MaxCount ELSE m + n

\* A mutant of FollowCount: parallel edges are counted once.
FollowCountOnce ==
    /\ Running("count") /\ e <= Len(graph.edges)
    /\ Crosses(Edge, Step) /\ Near(Edge, Step) \in DOMAIN walks
    /\ arrived' = PutNew(arrived, Reached, walks[Near(Edge, Step)])
    /\ e' = e + 1
    /\ UNCHANGED <<input, done, s, f, frontier, next, visited, score, depth, walks>>

FollowCount ==
    /\ Running("count") /\ e <= Len(graph.edges)
    /\ Crosses(Edge, Step) /\ Near(Edge, Step) \in DOMAIN walks
    /\ LET before == IF Reached \in DOMAIN arrived THEN arrived[Reached] ELSE 0
       IN  arrived' = Put(arrived, Reached, SaturatingAdd(before, walks[Near(Edge, Step)]))
    /\ e' = e + 1
    /\ UNCHANGED <<input, done, s, f, frontier, next, visited, score, depth, walks>>

SkipCount ==
    /\ Running("count") /\ e <= Len(graph.edges)
    /\ ~(Crosses(Edge, Step) /\ Near(Edge, Step) \in DOMAIN walks)
    /\ e' = e + 1
    /\ UNCHANGED <<input, done, s, f, frontier, next, visited, score, depth, counts>>

StepCount ==
    /\ Running("count") /\ e > Len(graph.edges)
    /\ walks' = arrived
    /\ arrived' = <<>>
    /\ s' = s + 1 /\ e' = 1
    /\ done' = (arrived = <<>> \/ s = Len(path.steps))
    /\ UNCHANGED <<input, f, frontier, next, visited, score, depth>>

\* The number in the row: the saturating sum over the last frontier.
Count == FoldFunction(SaturatingAdd, 0, walks)

(***************************************************************************)
(* CLOSURE.                                                                *)
(***************************************************************************)

\* The edges at the frontier's vertex f, in append order.
AtVertex == Running("closure") /\ f <= Len(frontier) /\ e <= Len(graph.edges)

\* A mutant of FollowClosure: a record visited before is visited again.
FollowClosureAgain ==
    /\ AtVertex
    /\ Near(Edge, Step) = frontier[f] /\ Crosses(Edge, Step)
    /\ visited' = Append(visited, Reached)
    /\ next' = Append(next, Reached)
    /\ score' = Put(score, Reached, depth)
    /\ e' = e + 1
    /\ UNCHANGED <<input, done, s, f, frontier, depth, counts>>

FollowClosure ==
    /\ AtVertex
    /\ Near(Edge, Step) = frontier[f] /\ Crosses(Edge, Step)
    /\ Reached \notin Range(visited)
    /\ visited' = Append(visited, Reached)
    /\ next' = Append(next, Reached)
    /\ score' = Put(score, Reached, depth)
    /\ e' = e + 1
    /\ UNCHANGED <<input, done, s, f, frontier, depth, counts>>

SkipClosure ==
    /\ AtVertex
    /\ ~(/\ Near(Edge, Step) = frontier[f] /\ Crosses(Edge, Step)
         /\ Reached \notin Range(visited))
    /\ e' = e + 1
    /\ UNCHANGED <<input, done, s, f, frontier, next, visited, score, depth, counts>>

VertexClosure ==
    /\ Running("closure") /\ f <= Len(frontier) /\ e > Len(graph.edges)
    /\ f' = f + 1 /\ e' = 1
    /\ UNCHANGED <<input, done, s, frontier, next, visited, score, depth, counts>>

\* Mutants of RoundClosure: the depth is not counted, a round starts where the
\* last one did, or there is only one.
RoundClosureFlat ==
    /\ Running("closure") /\ f > Len(frontier) /\ next # <<>>
    /\ frontier' = next /\ next' = <<>>
    /\ f' = 1 /\ e' = 1
    /\ UNCHANGED <<input, done, s, visited, score, depth, counts>>

RoundClosureSame ==
    /\ Running("closure") /\ f > Len(frontier) /\ next # <<>>
    /\ f' = 1 /\ e' = 1
    /\ UNCHANGED <<input, done, s, frontier, next, visited, score, depth, counts>>

RoundClosureOnce ==
    /\ Running("closure") /\ f > Len(frontier) /\ next # <<>>
    /\ frontier' = next /\ next' = <<>>
    /\ depth' = depth + 1
    /\ f' = 1 /\ e' = 1 /\ s' = s + 1
    /\ done' = (s = Len(path.steps))
    /\ UNCHANGED <<input, visited, score, counts>>

\* A round that reached something new is followed by another.
RoundClosure ==
    /\ Running("closure") /\ f > Len(frontier) /\ next # <<>>
    /\ frontier' = next /\ next' = <<>>
    /\ depth' = depth + 1
    /\ f' = 1 /\ e' = 1
    /\ UNCHANGED <<input, done, s, visited, score, counts>>

\* A round that reached nothing ends the step; the next step starts from
\* everything visited but the start.
StepClosure ==
    /\ Running("closure") /\ f > Len(frontier) /\ next = <<>>
    /\ frontier' = Tail(visited)
    /\ s' = s + 1 /\ f' = 1 /\ e' = 1
    /\ done' = (s = Len(path.steps))
    /\ UNCHANGED <<input, next, visited, score, depth, counts>>

Next ==
    \/ FollowMatch \/ SkipMatch \/ StepMatch
    \/ FollowCount \/ SkipCount \/ StepCount
    \/ FollowClosure \/ SkipClosure \/ VertexClosure \/ RoundClosure \/ StepClosure

\* The queries are loops of one thread: they go on until they return.
Spec == Init /\ [][Next]_vars /\ WF_vars(Next)

(***************************************************************************)
(* Properties.                                                             *)
(***************************************************************************)

Returned(q) == query = q /\ done

\* Types of the loop variables and of what they range over; the next step is one
\* of the path's while the query runs.
TypeOK ==
    /\ graph \in Graphs /\ path \in Paths
    /\ query \in Queries /\ done \in BOOLEAN
    /\ s \in Nat \ {0} /\ f \in Nat \ {0} /\ e \in Nat \ {0}
    /\ ~done => s <= Len(path.steps) /\ Start \in graph.records
    /\ frontier \in Seq(graph.records) /\ next \in Seq(graph.records)
    /\ visited \in Seq(graph.records)
    /\ depth \in Nat \ {0}

\* The walks of n steps: one edge of the graph per step, each starting where the
\* last one ended.
Walks(n) ==
    {w \in [1..n -> DOMAIN graph.edges] :
        /\ Start \in graph.records
        /\ \A i \in 1..n :
              /\ Crosses(graph.edges[w[i]], path.steps[i])
              /\ Near(graph.edges[w[i]], path.steps[i]) =
                    IF i = 1 THEN Start ELSE Far(graph.edges[w[i - 1]], path.steps[i - 1])}

FullWalks == Walks(Len(path.steps))
EndOf(n, w) == IF n = 0 THEN Start ELSE Far(graph.edges[w[n]], path.steps[n])

\* The edges by which walks of n steps arrive at a record.
Arrivals(n, id) == {w[n] : w \in {u \in Walks(n) : EndOf(n, u) = id}}

\* MATCH returns the ends of the walks that take every step, each once, in the
\* append order of the first edges that arrive there.
MatchExact ==
    Returned("match") =>
        LET n == Len(path.steps)
            First(id) == Min(Arrivals(n, id))
        IN  /\ Range(frontier) = {EndOf(n, w) : w \in Walks(n)}
            /\ \A i, j \in DOMAIN frontier :
                  i < j => First(frontier[i]) < First(frontier[j])

\* A row's score is the weight of the first edge that reached the record: of the
\* earliest step, and there in append order (the start, which no edge has to
\* reach, keeps 0).
MatchScore ==
    Returned("match") =>
        \A id \in Range(frontier) \ {Start} :
            LET n == Min({m \in 1..Len(path.steps) : Arrivals(m, id) # {}})
            IN  score[id] = graph.edges[Min(Arrivals(n, id))].weight

\* COUNT returns the number of walks, parallel edges apart, or u64::MAX if there
\* are more, although it never looks at a walk and saturates at every record.
CountExact ==
    Returned("count") => Count = Min({MaxCount, Cardinality(FullWalks)})

ClosedUnder(set, step) ==
    \A i \in DOMAIN graph.edges :
        Near(graph.edges[i], step) \in set /\ Crosses(graph.edges[i], step)
            => Far(graph.edges[i], step) \in set

\* What a closure of one step must return: the least set with the start in it
\* that no edge of the step leaves.
ClosureExact ==
    Returned("closure") /\ Len(path.steps) = 1 /\ Start \in graph.records =>
        /\ Start \in Range(visited)
        /\ ClosedUnder(Range(visited), path.steps[1])
        /\ \A set \in SUBSET Ids :
              Start \in set /\ ClosedUnder(set, path.steps[1]) => Range(visited) \subseteq set

\* Nothing is returned that no walk along the path's steps reaches, each taken
\* any number of times, and nothing is returned twice.
ClosureSound ==
    query = "closure" =>
        /\ IsInjective(visited)
        /\ \A set \in SUBSET Ids :
              /\ Start \in set
              /\ \A i \in DOMAIN path.steps : ClosedUnder(set, path.steps[i])
              => Range(visited) \subseteq set

\* The records within n hops of the start along one step.
Ball(step) ==
    LET ball[n \in Nat] ==
            IF n = 0 THEN {Start}
            ELSE ball[n - 1] \cup
                 {Far(graph.edges[i], step) : i \in {j \in DOMAIN graph.edges :
                     /\ Crosses(graph.edges[j], step)
                     /\ Near(graph.edges[j], step) \in ball[n - 1]}}
    IN  ball

\* The score of a row is its distance from the start (for one step), and rows
\* come in the order of their scores (for any path).
ClosureDepth ==
    Returned("closure") =>
        /\ \A i, j \in DOMAIN visited : i < j => score[visited[i]] <= score[visited[j]]
        /\ Len(path.steps) = 1 =>
              \A id \in Range(visited) :
                  score[id] = Min({n \in 0..Len(visited) : id \in Ball(path.steps[1])[n]})

\* Every query returns, whatever cycles the graph has.
Terminates == <>done
==============================================================================
