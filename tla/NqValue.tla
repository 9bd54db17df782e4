------------------------------- MODULE NqValue -------------------------------
(***************************************************************************)
(* The values of record bodies and edge properties, and the comparisons of *)
(* numbers.                                                                *)
(*                                                                         *)
(* A value is a pair of its type and its contents. Integers are i64, cut   *)
(* down to -MaxInt - 1 .. MaxInt. Floats are counted in halves, with the   *)
(* sign of a zero beside them; infinities lie beyond every number, and the *)
(* two NaN beyond the infinities, which is where f64::total_cmp has them.  *)
(***************************************************************************)
EXTENDS Integers, Sequences

CONSTANT MaxInt    \* i64::MAX

ASSUME MaxIntAssumption == MaxInt \in Nat

Infinity == 8 * (MaxInt + 1)
NaN == Infinity + 1
IsNaN(h) == h \in {NaN, -NaN}

Null == <<"null", 0>>
Bool(n) == <<"bool", n>>
Int64(n) == <<"int", n>>
Float(h) == <<"float", <<h, 0>>>>
NegativeZero == <<"float", <<0, -1>>>>
Str(n) == <<"str", n>>
Arr(values) == <<"arr", values>>
Doc(pairs) == <<"doc", pairs>>        \* pairs in the order of their keys
Vector(floats) == <<"vector", floats>>

Bits == ((-NaN .. NaN) \X {0}) \cup {<<0, -1>>}    \* what a float is
Scalars ==
    ({"null"} \X {0}) \cup ({"bool"} \X {0, 1}) \cup ({"int"} \X (-MaxInt - 1 .. MaxInt))
    \cup ({"float"} \X Bits) \cup ({"str", "ref"} \X Int) \cup ({"vector"} \X Seq(Bits))

TypeRank(v) ==
    CASE v[1] = "null" -> 0 [] v[1] = "bool" -> 1 [] v[1] \in {"int", "float"} -> 2
      [] v[1] = "str" -> 3 [] v[1] = "arr" -> 4 [] v[1] = "doc" -> 5
      [] v[1] = "vector" -> 6 [] v[1] = "ref" -> 7

\* Comparisons give -1, 0 or 1.
CmpInt(m, n) == IF m < n THEN -1 ELSE IF m > n THEN 1 ELSE 0

\* f64::total_cmp: by bits, so that -0.0 is below 0.0.
TotalCmp(x, y) == IF x[1] = y[1] THEN CmpInt(x[2], y[2]) ELSE CmpInt(x[1], y[1])

CmpFloat(x, y) == IF x[1] = y[1] THEN 0 ELSE CmpInt(x[1], y[1])

\* A mutant of CmpIntFloat: a float of 2^63 or more is cast, which saturates.
CmpIntFloatCast(n, x) ==
    IF IsNaN(x[1]) THEN -1
    ELSE LET floor == x[1] \div 2
             cast == IF floor > MaxInt THEN MaxInt
                     ELSE IF floor < -MaxInt - 1 THEN -MaxInt - 1 ELSE floor
         IN  IF n = cast /\ x[1] % 2 = 1 THEN -1 ELSE CmpInt(n, cast)

\* An integer against a float, without rounding the integer.
CmpIntFloat(n, x) ==
    IF IsNaN(x[1]) THEN -1
    ELSE IF x[1] >= 2 * (MaxInt + 1) THEN -1
    ELSE IF x[1] < 2 * (-MaxInt - 1) THEN 1
    ELSE IF x[1] % 2 = 0 THEN CmpInt(n, x[1] \div 2)
    ELSE IF n = x[1] \div 2 THEN -1 ELSE CmpInt(n, x[1] \div 2)

\* Values of one type, or two numbers.
CmpScalar(x, y) ==
    CASE x[1] = "int" /\ y[1] = "float" -> CmpIntFloat(x[2], y[2])
      [] x[1] = "float" /\ y[1] = "int" -> -CmpIntFloat(y[2], x[2])
      [] x[1] = "float" /\ y[1] = "float" -> CmpFloat(x[2], y[2])
      [] OTHER -> CmpInt(x[2], y[2])
==============================================================================
