----------------------------- MODULE MCLanguage -----------------------------
(***************************************************************************)
(* The texts that Language is checked on: every short string of some       *)
(* characters, every statement form in every spacing, programs of several  *)
(* statements, SELECTs with any clauses in any order, and broken texts.    *)
(***************************************************************************)
EXTENDS Language

MCLetters ==
    {"a", "e", "E", "_", "f32", "t", "id", "k", "K",
     "create", "table", "vector", "insert", "into", "embed", "relate", "set", "weight", "WEIGHT", "match",
     "closure", "memory", "select", "SELECT", "forget", "prune", "history", "since", "from", "where", "WHERE",
     "order", "by", "desc", "as", "of", "limit", "offset", "count", "COUNT", "and", "AND", "is", "not", "in",
     "between", "true", "TRUE", "false", "null", "similarity", "salience", "score", "recency", "votes",
     "feedback", "embedding", "bm25"}
MCEWords == {"e", "E", "embed", "embedding"}

Source(text)       == [text |-> text, toks |-> None, plan |-> None, halves |-> None, single |-> FALSE]
Written(bare, gap) == [Source(Spelling(bare, gap)) EXCEPT !.toks = Some(bare)]

a == <<"a">>
t == <<"t">>

Ids == {[table |-> t, id |-> [num |-> 7]], [table |-> <<"select">>, id |-> [name |-> <<"a", "7">>]],
        [table |-> t, id |-> [name |-> <<"-", "7">>]]}
At7 == [table |-> t, id |-> [num |-> 7]]

i7   == [int |-> 7]
f77  == [float |-> <<"7", ".", "0", "7">>]
fexp == [float |-> <<"-", "7", "e", "-", "7">>]
huge == [float |-> <<Huge>>]

Values ==
    {i7, [int |-> -7], fexp, huge, Str(a), Str(<<"null">>), Str(<<"\\">>), Str(<<"\\", "n", "\"", "'", "\n">>),
     Str(<<"-", "-", Wide>>), [bool |-> TRUE], [null |-> TRUE], [vector |-> <<i7, f77>>], [arr |-> <<>>],
     [arr |-> <<i7, Str(a)>>], [arr |-> <<[arr |-> <<>>], [vector |-> <<huge>>]>>],
     [doc |-> (a :> i7) @@ (<<"e", " ">> :> [doc |-> <<>>])]}

Cmp(field, op, value) == [filter |-> "cmp", field |-> field, op |-> op, value |-> value]
Lexical(k) == [filter |-> "bm25", field |-> a, query |-> <<"a", "'">>, k |-> k]
Knn(k)     == [query |-> <<i7, fexp>>, k |-> k]
Has        == [filter |-> "has embedding"]

Terms ==
    {Cmp(a, op, v) : op \in Comparisons, v \in {i7, [int |-> -7], Str(a)}}
    \cup {Cmp(<<"id">>, "=", Str(<<"t", ":", "7">>)), Cmp(<<"and">>, "!=", Str(<<"and">>)), Has,
          [filter |-> "in", field |-> <<"id">>, values |-> <<Str(a), Str(t)>>],
          [filter |-> "in", field |-> a, values |-> <<i7, [int |-> -7]>>],
          [filter |-> "in", field |-> a, values |-> <<>>],
          [filter |-> "between", field |-> a, lo |-> [int |-> -7], hi |-> Str(<<"and">>)]}

And(terms) == [filter |-> "and", terms |-> terms]
SomeTerms  == {Cmp(a, "<", [int |-> -7]), Has, [filter |-> "between", field |-> a, lo |-> i7, hi |-> f77]}
Filters    == Terms \cup {And(<<x, y>>) : x, y \in SomeTerms} \cup {And(<<Has, x, y>>) : x, y \in SomeTerms}

Orders ==
    {[by |-> o] : o \in OrderOps \cup {"salience"}}
    \cup {[by |-> "weighted salience", weights |-> <<i7, f77, fexp, huge>>]}
    \cup {[by |-> "field", key |-> key, desc |-> d] : key \in {a, <<"desc">>}, d \in BOOLEAN}

All == [fields |-> None, count |-> FALSE]
SelectOf(clauses) == [stmt |-> "select", table |-> t, list |-> All, clauses |-> clauses]
WithFilter(f)     == SelectOf([NoClauses EXCEPT !.filter = Some(f)])

Lists == {All, [fields |-> None, count |-> TRUE], [fields |-> Some(<<<<"count">>>>), count |-> FALSE],
          [fields |-> Some(<<a, <<"from">>>>), count |-> FALSE]}

Selects ==
    {WithFilter(f) : f \in Filters}
    \cup {SelectOf([NoClauses EXCEPT !.knn = knn, !.filter = f, !.order = order]) :
             knn \in {None, Some(Knn(7))}, f \in {None, Some(Lexical(None)), Some(Lexical(Some(0)))},
             order \in {None, Some([by |-> "score"])}}
    \cup {SelectOf([NoClauses EXCEPT !.order = Some(o), !.limit = Some(7)]) : o \in Orders}
    \cup {[SelectOf([NoClauses EXCEPT !.limit = l, !.offset = o, !.asOf = at]) EXCEPT !.list = list] :
             list \in Lists, l \in {None, Some(77)}, o \in {None, Some(0)}, at \in {None, Some(-7)}}

Step(d, cond) == [direction |-> d, name |-> <<"as">>, edgeProps |-> cond]
Paths ==
    {[start |-> At7, steps |-> steps, asOf |-> at] : at \in {None, Some(7)},
        steps \in {<<Step("->", None)>>, <<Step("<-", None), Step("->", Some(Has))>>,
                   <<Step("<-", Some(Cmp(<<"vector">>, "<", i7)))>>}}

Others ==
    {[stmt |-> "create", table |-> w, dim |-> d] : w \in {t, <<"vector">>}, d \in {None, Some(7)}}
    \cup {[stmt |-> "insert", id |-> id, body |-> <<>>, embedding |-> None] : id \in Ids}
    \cup {[stmt |-> "insert", id |-> At7, body |-> a :> v, embedding |-> e] :
             v \in Values, e \in {None, Some(<<>>), Some(<<i7, fexp>>)}}
    \cup {[stmt |-> "relate", from |-> At7, name |-> <<"match">>, to |-> id, weight |-> w, props |-> props] :
             id \in Ids, w \in {None, Some(i7), Some(fexp)}, props \in {<<>>, (a :> i7) @@ (<<"set">> :> Str(a))}}
    \cup {[stmt |-> how, path |-> path] : how \in {"match", "match count", "closure"}, path \in Paths}
    \cup {[stmt |-> "forget", id |-> id] : id \in Ids}
    \cup {[stmt |-> "memory", name |-> <<"memory">>], [stmt |-> "prune"], [stmt |-> "history", since |-> -7]}

\* The hybrid form has a second way to be written, the lexical clause first.
Hybrid(k) ==
    LET written == Program(<<SelectOf(NoClauses)>>) \o Kw("WHERE") \o Term(Lexical(k)) \o Kw("and") \o Nearest(Knn(7))
    IN [Written(written, <<" ">>) EXCEPT
           !.plan = Some(<<SelectOf([NoClauses EXCEPT !.knn = Some(Knn(7)), !.filter = Some(Lexical(k))])>>)]

Printed ==
    {[Written(Program(<<s>>), gap) EXCEPT !.plan = Some(<<s>>)] : s \in Selects \cup Others, gap \in Gaps}
    \cup {Hybrid(k) : k \in {None, Some(7)}}

\* One statement of each kind, and some that nearly run into the next one.
Few ==
    {[stmt |-> "create", table |-> t, dim |-> None], [stmt |-> "create", table |-> t, dim |-> Some(7)],
     [stmt |-> "insert", id |-> At7, body |-> a :> [arr |-> <<i7, Str(a)>>], embedding |-> Some(<<fexp>>)],
     [stmt |-> "relate", from |-> At7, name |-> a, to |-> At7, weight |-> Some(i7), props |-> a :> i7],
     [stmt |-> "match", path |-> [start |-> At7, steps |-> <<Step("->", Some(Has))>>, asOf |-> None]],
     [stmt |-> "match count", path |-> [start |-> At7, steps |-> <<Step("<-", None)>>, asOf |-> Some(7)]],
     [stmt |-> "forget", id |-> At7], [stmt |-> "prune"], [stmt |-> "history", since |-> 7],
     SelectOf(NoClauses), SelectOf([NoClauses EXCEPT !.order = Some([by |-> "salience"])]),
     SelectOf([NoClauses EXCEPT !.knn = Some(Knn(7)), !.filter = Some(Lexical(None)), !.limit = Some(7)]),
     WithFilter(Lexical(Some(7))),
     WithFilter(And(<<Cmp(<<"id">>, "=", Str(a)), [filter |-> "in", field |-> a, values |-> <<i7>>]>>)),
     WithFilter([filter |-> "between", field |-> a, lo |-> i7, hi |-> i7])}

Pairs == {[Written(Program(<<r, s>>), gap) EXCEPT !.plan = Some(<<r, s>>)] : r, s \in Few, gap \in {<<>>, <<"\n">>}}

\* One token left out, said twice, changed for another or for the one behind it.
Spare == Sg("->") \o Sg("=") \o Sg(",") \o Sg("{") \o Sg("]") \o Sg("::") \o Whole(0) \o Whole(-7)
         \o Kw("id") \o Kw("where") \o Kw("and") \o Quoted(a)
         \o <<Tok("float", <<"7", "e", "7", "7">>, 0)>>
Edits(bare) ==
    UNION {{SubSeq(bare, 1, i - 1) \o mid \o SubSeq(bare, i + 1, Len(bare)) :
               mid \in {<<>>, <<bare[i], bare[i]>>} \cup {<<Spare[j]>> : j \in DOMAIN Spare}} : i \in DOMAIN bare}
Broken == UNION {{Written(bare, <<" ">>) : bare \in Edits(Program(<<s>>))} : s \in Few}

\* Any three clauses, in any order.
Clauses ==
    {Kw("where") \o Term(Has), Kw("WHERE") \o Nearest(Knn(7)), Kw("where") \o Term(Lexical(None)),
     Kw("where") \o Term(Lexical(None)) \o Kw("and") \o Nearest(Knn(7)),
     Kw("where") \o Term(Cmp(a, "=", i7)) \o Kw("and") \o Kw("a") \o Kw("is") \o Kw("not") \o Kw("null"),
     Kw("order") \o Kw("by") \o Kw("score"), Kw("order") \o Kw("by") \o Sg(":") \o Kw("salience"),
     Kw("order") \o Kw("by") \o Kw("a") \o Kw("desc"), Kw("as") \o Kw("of") \o Whole(7),
     Kw("limit") \o Whole(7) \o Kw("offset") \o Whole(0), Kw("limit") \o Whole(0), Kw("offset") \o Whole(77)}
Mixed == {Written(Program(<<SelectOf(NoClauses)>>) \o x \o y \o z, <<" ">>) :
             x \in Clauses, y \in Clauses \cup {<<>>}, z \in Clauses}

\* Two texts one behind the other.
Texts == {Spelling(Program(<<s>>), <<" ">>) : s \in Few}
         \cup {Spelling(Program(<<SelectOf(NoClauses)>>) \o c, <<" ">>) : c \in Clauses}
         \cup {<<>>, <<";">>, <<"/", "*">>, <<"count">>, <<"prune", " ", "history", ";", ";">>}
Joins == {[Source(x \o gap \o y) EXCEPT !.halves = Some(<<x, y>>)] :
             x, y \in Texts, gap \in {<<" ">>, <<";", "\n", ";">>}}

\* Every string of at most n of some characters.
Strings(chars, n) == {Source(s) : s \in UNION {[1 .. m -> chars] : m \in 0 .. n}}
Short ==
    Strings({"<", "-", ">", "=", ":", "!", "*", "/", "7", "a", "\n", Wide, ";", "\""}, 3)
    \cup Strings({"0", "7", ".", "e", "+", "-", Huge}, 4)
    \cup Strings({"\"", "'", "\\", "n", "\n", Wide}, 4)

\* parse_statement is given one statement, one and a semicolon, and two.
Singles1 == {[Source(x \o y) EXCEPT !.single = TRUE] : x \in Texts, y \in {<<>>, <<";">>, <<" ", "prune", " ", "history">>}}

MCSources == Printed \cup Pairs \cup Broken \cup Mixed \cup Joins \cup Short \cup Singles1
=============================================================================
