----------------------------- MODULE MCTraversal -----------------------------
(* A small instance of Traversal: graphs of up to MaxEdges edges over three ids, *)
(* one of which may be missing, and paths of up to two steps.                    *)
EXTENDS Traversal

CONSTANTS a, b, c, k, m, p, q, MaxEdges

E(x, name, y, weight, props) ==
    [from |-> x, name |-> name, to |-> y, weight |-> weight, props |-> props]

MCEdges == {E(a, k, b, 1, p), E(a, k, b, 2, q), E(b, k, a, 3, p), E(b, k, c, 4, p),
            E(a, m, c, 5, p), E(c, k, b, 6, p), E(a, k, a, 7, p)}

MCGraphs ==
    {[records |-> records, edges |-> edges] :
        records \in {{a, b, c}, {a, b}, {b, c}}, edges \in BoundedSeq(MCEdges, MaxEdges)}

MCSteps == {[direction |-> d, name |-> n, accepts |-> {p, q}] : d \in {"out", "in"}, n \in {k, m}}
           \cup {[direction |-> "out", name |-> k, accepts |-> {p}]}

MCPaths == {[start |-> a, steps |-> steps] : steps \in BoundedSeq(MCSteps, 2) \ {<<>>}}
==============================================================================
