----------------------------- MODULE ValueOrder ------------------------------
(***************************************************************************)
(* The total order of values (Value::cmp_total) and their equality (the    *)
(* derived PartialEq). Both recurse into arrays and documents: they are    *)
(* functions of how deep a value is nested.                                *)
(***************************************************************************)
EXTENDS NqValue, FiniteSetsExt

CONSTANT MaxDepth    \* how many arrays and documents are inside one another

ASSUME MaxDepthAssumption == MaxDepth \in Nat

\* The values over some scalars, down to each depth.
Containers(values) == ({"arr"} \X Seq(values)) \cup ({"doc"} \X Seq(Int \X values))
ValuesOver(scalars) ==
    LET values[d \in Nat] ==
            IF d = 0 THEN scalars ELSE scalars \cup Containers(values[d - 1])
    IN  values

Within(d) == ValuesOver(Scalars)[d]

\* The first elements that differ decide, then the lengths.
Lexicographic(cmp, x, y) ==
    LET apart == {i \in DOMAIN cmp : cmp[i] # 0}
    IN  IF apart = {} THEN CmpInt(Len(x), Len(y)) ELSE cmp[Min(apart)]

CmpArr(inside, x, y) ==
    Lexicographic([i \in DOMAIN x \cap DOMAIN y |-> inside[x[i]][y[i]]], x, y)

CmpDoc(inside, x, y) ==
    Lexicographic([i \in DOMAIN x \cap DOMAIN y |->
                      IF x[i][1] # y[i][1] THEN CmpInt(x[i][1], y[i][1])
                      ELSE inside[x[i][2]][y[i][2]]], x, y)

CmpVector(x, y) ==
    Lexicographic([i \in DOMAIN x \cap DOMAIN y |-> TotalCmp(x[i], y[i])], x, y)

\* With the comparison of what is inside.
CmpWith(inside, x, y) ==
    IF TypeRank(x) # TypeRank(y) THEN CmpInt(TypeRank(x), TypeRank(y))
    ELSE CASE x[1] = "arr" -> CmpArr(inside, x[2], y[2])
           [] x[1] = "doc" -> CmpDoc(inside, x[2], y[2])
           [] x[1] = "vector" -> CmpVector(x[2], y[2])
           [] OTHER -> CmpScalar(x, y)

CmpNested[d \in Nat] ==
    [x \in Within(d) |-> [y \in Within(d) |->
        CmpWith(IF d = 0 THEN <<>> ELSE CmpNested[d - 1], x, y)]]

CmpTotal(x, y) == CmpNested[MaxDepth][x][y]

\* The derived equality: of the same type, and for floats the one of IEEE.
SameWith(inside, x, y) ==
    /\ x[1] = y[1]
    /\ CASE x[1] = "float" -> x[2][1] = y[2][1] /\ ~IsNaN(x[2][1])
         [] x[1] = "vector" ->
              /\ Len(x[2]) = Len(y[2])
              /\ \A i \in DOMAIN x[2] : x[2][i][1] = y[2][i][1] /\ ~IsNaN(x[2][i][1])
         [] x[1] = "arr" ->
              /\ Len(x[2]) = Len(y[2]) /\ \A i \in DOMAIN x[2] : inside[x[2][i]][y[2][i]]
         [] x[1] = "doc" ->
              /\ Len(x[2]) = Len(y[2])
              /\ \A i \in DOMAIN x[2] : x[2][i][1] = y[2][i][1] /\ inside[x[2][i][2]][y[2][i][2]]
         [] OTHER -> x[2] = y[2]

SameNested[d \in Nat] ==
    [x \in Within(d) |-> [y \in Within(d) |->
        SameWith(IF d = 0 THEN <<>> ELSE SameNested[d - 1], x, y)]]

Same(x, y) == SameNested[MaxDepth][x][y]
==============================================================================
