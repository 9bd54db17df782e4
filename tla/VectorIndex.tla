----------------------------- MODULE VectorIndex -----------------------------
(***************************************************************************)
(* The two vector indexes of src/nqlite/src/index.rs, given the same       *)
(* upserts and removes: BruteForceVectorIndex, which scans a map, and      *)
(* HnswVectorIndex, which wraps a graph that can only grow.  The graph is  *)
(* fast_hnsw's: a search of it returns k of its entries or fewer, which    *)
(* ones is up to the library.                                              *)
(*                                                                         *)
(* A component of a vector is an integer, and MaxFloat the largest f32:    *)
(* a sum that exceeds it is Infinity.  Components too small to be squared  *)
(* are left out.                                                           *)
(***************************************************************************)
EXTENDS Integers, Sequences, FiniteSets, SequencesExt, FiniteSetsExt, Collections

CONSTANTS
    Ids,          \* record ids, as numbers in their order
    Vectors,      \* embeddings and queries
    MaxFloat,
    Infinity, NaN,
    MaxUpserts, MaxRemoves    \* bounds on the calls

ASSUME IdsAssumption   == Ids \subseteq Nat
ASSUME VectorsAssumption == Vectors \subseteq Seq(Int)
ASSUME FloatAssumption == MaxFloat \in Nat /\ Infinity \notin Int /\ NaN \notin Int /\ Infinity # NaN

VARIABLES
    vectors,                 \* BruteForceVectorIndex
    graph,                   \* the entries of the graph, in order of insertion
    live, removed,           \* HnswVectorIndex
    removes                  \* how many removes there were

vars == <<vectors, graph, live, removed, removes>>

(***************************************************************************)
(* cosine_similarity.                                                      *)
(***************************************************************************)

Finite(sum) == IF sum > MaxFloat THEN Infinity ELSE sum

\* A sum of products over the components both vectors have.
Products(v, w) == FoldLeft(+, 0, [i \in 1 .. Min({Len(v), Len(w)}) |-> v[i] * w[i]])
Shorter(v, w)  == SubSeq(v, 1, Min({Len(v), Len(w)}))

\* Squared, with the sign of the dot product, in hundredths: this keeps the
\* order.  A norm that overflows makes the result zero, or NaN if the dot
\* product overflows too.
Cosine(v, w) ==
    LET a   == Shorter(v, w)
        b   == Shorter(w, v)
        dot == Products(a, b)
        na  == Finite(Products(a, a))
        nb  == Finite(Products(b, b))
    IN CASE na = 0 \/ nb = 0 -> 0
         [] 0 \notin {na, nb} /\ Infinity \notin {na, nb} ->
               (IF dot < 0 THEN -1 ELSE 1) * ((100 * dot * dot) \div (na * nb))
         [] OTHER -> IF Infinity \in {Finite(dot), Finite(-dot)} THEN NaN ELSE 0

(***************************************************************************)
(* Ranking rows [id, score]: by score, descending, then by id.  A NaN ties *)
(* with every score, so with one among them the comparison is no order any *)
(* more, and the sort ends in some arrangement without a pair of           *)
(* neighbours the wrong way round.                                         *)
(***************************************************************************)

Ties(x, y) == x.score = y.score \/ NaN \in {x.score, y.score}

Precedes(x, y) == IF Ties(x, y) THEN x.id < y.id ELSE x.score > y.score

Sorts(rows) == Arrangements(rows, Precedes)

Truncate(rows, n) == SubSeq(rows, 1, Min({n, Len(rows)}))

(***************************************************************************)
(* The exact index.                                                        *)
(***************************************************************************)

ScoredRows(q) ==
    LET ids == Ascending(DOMAIN vectors) IN
    [r \in DOMAIN ids |-> [id |-> ids[r], score |-> Cosine(vectors[ids[r]], q)]]

\* A mutant of BruteForceAnswers: the rows are cut off before they are sorted.
BruteForceCut(q, n) == Sorts(Truncate(ScoredRows(q), n))

BruteForceAnswers(q, n) == {Truncate(rows, n) : rows \in Sorts(ScoredRows(q))}

(***************************************************************************)
(* The approximate index.                                                  *)
(***************************************************************************)

LiveIds == DOMAIN live \ removed

\* fast_hnsw: n entries of the graph, or fewer.
GraphSearch(n) == {found \in SUBSET DOMAIN graph : Cardinality(found) <= n}

\* A mutant of Hits: nothing is filtered.
HitsAll(found) == found

Hits(found) == {i \in found : graph[i].id \notin removed}

HnswRows(found, q) ==
    LET hits == SetToSeq(Hits(found)) IN
    [r \in DOMAIN hits |-> [id |-> graph[hits[r]].id, score |-> Cosine(graph[hits[r]].vec, q)]]

\* When the graph has found these.
HnswAnswers(found, q, n) ==
    IF n = 0 \/ LiveIds = {} THEN {<<>>}
    ELSE {Truncate(rows, n) : rows \in Sorts(HnswRows(found, q))}

(***************************************************************************)
(* Both.                                                                   *)
(***************************************************************************)

Init == vectors = <<>> /\ graph = <<>> /\ live = <<>> /\ removed = {} /\ removes = 0

Upsert(id, v) ==
    /\ Len(graph) < MaxUpserts
    /\ vectors' = Put(vectors, id, v)
    /\ graph' = Append(graph, [id |-> id, vec |-> v])
    /\ removed' = (IF id \in DOMAIN live THEN removed \cup {id} ELSE removed) \ {id}
    /\ live' = Put(live, id, Len(graph) + 1)
    /\ UNCHANGED removes

\* Also of an id that the indexes do not hold.
RemoveId(id) ==
    /\ removes < MaxRemoves
    /\ vectors' = Restrict(vectors, DOMAIN vectors \ {id})
    /\ removed' = removed \cup {id}
    /\ removes' = removes + 1
    /\ UNCHANGED <<graph, live>>

Next == \E id \in Ids : RemoveId(id) \/ \E v \in Vectors : Upsert(id, v)

Spec == Init /\ [][Next]_vars

(***************************************************************************)
(* Properties, of every search that could be asked for.                    *)
(***************************************************************************)

Ks == 0 .. MaxUpserts + 1

IdsOf(rows) == {rows[r].id : r \in DOMAIN rows}

\* The exact index answers with as many rows as it can, and with no record that
\* has been removed or replaced.  As long as no similarity is NaN there is one
\* answer, whatever the order of the calls was: the r-th row is the record that
\* r - 1 others come before.
ExactSearch ==
    \A q \in Vectors, n \in Ks : LET answers == BruteForceAnswers(q, n) IN
        /\ \A rows \in answers :
              /\ Len(rows) = Min({n, Cardinality(DOMAIN vectors)})
              /\ Cardinality(IdsOf(rows)) = Len(rows)
              /\ \A r \in DOMAIN rows : rows[r].score = Cosine(vectors[rows[r].id], q)
        /\ (\A id \in DOMAIN vectors : Cosine(vectors[id], q) # NaN) =>
              /\ Cardinality(answers) = 1
              /\ \A rows \in answers : \A r \in DOMAIN rows :
                    Cardinality({id \in DOMAIN vectors :
                                    Precedes([id |-> id, score |-> Cosine(vectors[id], q)], rows[r])}) = r - 1

\* The two indexes agree on which ids are live and on their vectors.  Whatever the
\* graph comes up with, the approximate index answers with live ids only, at most
\* k of them, and loses none that came up; an id that was upserted once is there
\* once, with its score.
HnswSound ==
    /\ LiveIds = DOMAIN vectors
    /\ \A id \in LiveIds : graph[live[id]] = [id |-> id, vec |-> vectors[id]]
    /\ \A q \in Vectors, n \in Ks : \A found \in GraphSearch(n) : \A rows \in HnswAnswers(found, q, n) :
          /\ Len(rows) <= n
          /\ IdsOf(rows) = {id \in LiveIds : \E i \in found : graph[i].id = id}
          /\ \A r \in DOMAIN rows : Cardinality({i \in DOMAIN graph : graph[i].id = rows[r].id}) = 1 =>
                /\ rows[r].score = Cosine(vectors[rows[r].id], q)
                /\ \A s \in DOMAIN rows : rows[s].id = rows[r].id => s = r
=============================================================================
