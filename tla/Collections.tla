----------------------------- MODULE Collections -----------------------------
(***************************************************************************)
(* What the standard library of Rust does for the indexes and for SELECT:  *)
(* BTreeMap, Iterator::sum and slice::sort_by.                              *)
(***************************************************************************)
EXTENDS Integers, Sequences, FiniteSets, Functions

\* BTreeMap::insert.
Put(map, key, value) ==
    [k \in DOMAIN map \cup {key} |-> IF k = key THEN value ELSE map[k]]

\* The keys a BTreeMap iterates over: the r-th has r - 1 below it.
Ascending(ids) ==
    [r \in 1 .. Cardinality(ids) |-> CHOOSE id \in ids : Cardinality({i \in ids : i < id}) = r - 1]

\* Iterator::sum.
Total(map) == FoldFunction(+, 0, map)

\* The arrangements of rows without a pair of neighbours the wrong way round: only
\* one, if the comparison is a total order of the rows.
Arrangements(rows, Precedes(_, _)) ==
    {sorted \in {[r \in DOMAIN rows |-> rows[order[r]]] : order \in Bijection(DOMAIN rows, DOMAIN rows)} :
        \A r \in 2 .. Len(rows) : ~Precedes(sorted[r], sorted[r - 1])}
==============================================================================
