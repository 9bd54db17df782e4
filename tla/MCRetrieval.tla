----------------------------- MODULE MCRetrieval -----------------------------
(* Small instances of Retrieval: families of queries over up to three records, about *)
(* values and their order, filters, the modes and their caps, texts, and votes.      *)
EXTENDS Retrieval

MCValues ==
    {Null, Bool(0), Int64(0), Int64(2), Int64(MaxInt), Int64(-MaxInt - 1), NegativeZero,
     Float(0), Float(4), Float(5), Float(2 * MaxInt), Float(2 * MaxInt + 2),
     Float(Infinity), Float(-Infinity), Float(NaN), Str(1), Arr(<<Int64(0)>>),
     Arr(<<Float(0), Null>>), Doc(<< <<1, Arr(<<Null>>)>> >>), Vector(<< <<0, 0>> >>)}

\* Thousandths of ln((n + 1) / (df + 1/2)), for up to four documents.
MCIdf(n, df) ==
    IF n \in 1..4 /\ df \in 1..n
    THEN << <<288>>, <<693, 182>>, <<981, 470, 134>>, <<1203, 693, 356, 105>> >>[n][df] ELSE 0

Rec(body, similarity, text, created) ==
    [table |-> "t", body |-> body, similarity |-> similarity, text |-> text,
     created |-> created]

Store(records, edges) == [records |-> records, edges |-> edges, clock |-> 3]

Select == [table |-> "t", terms |-> <<>>, knn |-> <<>>, bm25 |-> <<>>, query |-> <<"b">>, order |-> "none",
           key |-> "key", desc |-> FALSE, weights |-> <<>>, offset |-> 0, limit |-> <<>>,
           fields |-> <<>>, count |-> FALSE]

\* Bodies that hold one value or none.
Bodies(values) == {<<>>} \cup {[key |-> v] : v \in values}

(* Every triple of values, sorted in both directions. *)
Sorted(values) ==
    [stores |-> {Store(<<Rec(x, <<>>, <<>>, 1), Rec(y, <<>>, <<>>, 1), Rec(z, <<>>, <<>>, 1)>>, <<>>) :
                    x, y, z \in Bodies(values)},
     sels |-> {[Select EXCEPT !.order = "field"],
               [Select EXCEPT !.order = "field", !.desc = TRUE, !.offset = 1, !.limit = <<1>>]}]

(* Every term and pair of terms over a few values; one record is in another table. *)
MCTerms ==
    {<<op, "key", v>> : op \in {"eq", "ne", "lt", "le", "gt", "ge"}, v \in {Int64(2), Float(5)}}
    \cup {<<op, "id", Str(1)>> : op \in {"eq", "ne", "lt"}}
    \cup {<<"in", "key", <<Int64(2), Null>>>>, <<"between", "key", <<Null, Float(4)>>>>,
          <<"in", "id", <<Str(1), Str(2)>>>>, <<"embedded", "", Null>>}

Filtered ==
    [stores |-> {Store(<<Rec([key |-> x, id |-> Str(2)], <<>>, <<>>, 1), Rec([key |-> y], <<0>>, <<>>, 2),
                         Rec(<<>>, <<>>, <<>>, 3),
                         [Rec([key |-> x], <<>>, <<>>, 3) EXCEPT !.table = "u"]>>, <<>>) :
                    x \in {Null, Int64(2)}, y \in {Float(4), Float(6)}},
     sels |-> {[Select EXCEPT !.terms = terms, !.count = count, !.fields = fields] :
                  terms \in {<<t, u>> : t, u \in MCTerms} \cup {<<>>},
                  count \in BOOLEAN, fields \in {<<>>, <<{"key"}>>}}]

(* Every mode with every kind of order, with and without caps. *)
Vote(to, weight, value, created) ==
    [voted |-> TRUE, from |-> 3, to |-> to, weight |-> weight, value |-> value, created |-> created]

Modes ==
    [stores |-> {Store(<<Rec([key |-> Int64(2)], s[1], l[1], 1), Rec(<<>>, s[2], l[2], 3),
                         Rec([key |-> Null, importance |-> Int64(1)], s[3], l[3], 2)>>,
                       <<Vote(2, <<>>, <<Int64(1)>>, 2)>>) :
                    s \in [1..3 -> {<<>>, <<-Unit>>, <<Unit>>}], l \in {<<<<>>, <<>>, t>> : t \in {<<>>, << <<"b">> >>}} \cup {<<<<>>, << <<"b">> >>, <<>>>>}},
     sels |-> {[Select EXCEPT !.knn = mode[1], !.bm25 = mode[2], !.order = order,
                              !.offset = offset, !.limit = limit] :
                  mode \in {<<<<>>, <<>>>>, <<<<2>>, <<>>>>, <<<<>>, << <<2>> >>>>,
                            <<<<1>>, << <<>> >>>>, <<<<3>>, << <<2>> >>>>},
                  order \in {"none", "similarity", "score", "salience", "recency", "field"},
                  offset \in {0, 1}, limit \in {<<>>, <<1>>}}]

(* Texts with a token twice, in upper case, behind a separator, none at all, or one *)
(* that is part of a longer; queries of no term, one, one twice, and two.           *)
MCTexts ==
    {<<>>, << <<>> >>, << <<"a">> >>, << <<"-", "B", " ", "a", " ">> >>, << <<"a", "b">> >>,
     << <<"b", " ", "b">> >>, << <<"a", "-", "b", " ", "A">> >>}

Lexed ==
    [stores |-> {Store([i \in 1..3 |-> Rec(<<>>, <<>>, l[i], 1)], <<>>) : l \in [1..3 -> MCTexts]},
     sels |-> {[Select EXCEPT !.bm25 = <<cap>>, !.query = query] :
                  cap \in {<<>>, <<2>>},
                  query \in {<<"-">>, <<"b">>, <<"b", " ", "B">>, <<"a", " ", "b">>}}]

(* An unknown sort field, with rows and without. *)
Typos ==
    [stores |-> {Store(<<Rec(x, <<>>, <<>>, 1), Rec(<<>>, <<>>, <<>>, 1)>>, <<>>) : x \in Bodies({Null})},
     sels |-> {[Select EXCEPT !.order = "field", !.terms = terms, !.offset = offset] :
                  terms \in {<<>>, << <<"embedded", "", Null>> >>}, offset \in {0, 3}}]

(* Up to three votes, with values, weights, both or neither, at two ages. *)
Ballots ==
    {Vote(to, <<>>, value, created) :
        to \in {1, 2}, value \in {<<Int64(1)>>, <<Float(-2)>>}, created \in {1, 2}}
    \cup {Vote(1, <<1>>, <<Int64(-1)>>, 1), Vote(2, <<>>, <<>>, 2),
          [Vote(2, <<>>, <<>>, 1) EXCEPT !.voted = FALSE]}

Voted ==
    [stores |-> {Store([i \in 1..3 |-> Rec(<<>>, <<>>, <<>>, i)], edges) :
                    edges \in BoundedSeq(Ballots, 3)},
     sels |-> {[Select EXCEPT !.order = order] : order \in {"score", "votes", "feedback"}}
              \cup {[Select EXCEPT !.order = "salience", !.weights = <<1, 2, 1, 4>>]}]

MCFamilies == {Sorted(MCValues), Filtered, Modes, Lexed, Typos, Voted}

\* What two of the theorems take as given is true of these.
ASSUME UnitsAreFine == IdfFine /\ UnitFine
==============================================================================
