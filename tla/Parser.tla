------------------------------- MODULE Parser -------------------------------
(***************************************************************************)
(* The recursive-descent parser of nql (src/nql/src/parser.rs), over the   *)
(* tokens of Lexer.  p is the parser: its tokens, the one it is at,        *)
(* whether it still succeeds, and what the last call returned.  A failed   *)
(* parser stays at the token its error names.                              *)
(***************************************************************************)
EXTENDS Lexer

None    == <<>>
Some(x) == <<x>>

ParserOf(toks) == [toks |-> toks, idx |-> 1, ok |-> TRUE, val |-> <<>>]

PeekTok(p)  == p.toks[p.idx]
PeekN(p, n) == IF p.idx + n <= Len(p.toks) THEN p.toks[p.idx + n] ELSE Sign(End)
AtEof(p)    == PeekTok(p).kind = End
Skip(p)     == IF AtEof(p) THEN p ELSE [p EXCEPT !.idx = @ + 1]
ErrHere(p)  == [p EXCEPT !.ok = FALSE]
Got(p, val) == IF p.ok THEN [p EXCEPT !.val = val] ELSE p

\* A mutant of SkipSemis: an if where the code has a while.
SkipSemi(p) == IF PeekTok(p).kind = ";" THEN Skip(p) ELSE p

RECURSIVE SkipSemis(_)
SkipSemis(p) == IF PeekTok(p).kind = ";" THEN SkipSemis(Skip(p)) ELSE p

\* Keywords are words, compared without regard to case.
Lower == ("SELECT" :> "select") @@ ("COUNT" :> "count") @@ ("WHERE" :> "where")
         @@ ("AND" :> "and") @@ ("K" :> "k") @@ ("WEIGHT" :> "weight") @@ ("TRUE" :> "true")
LowerCase(word) == [i \in DOMAIN word |-> IF word[i] \in DOMAIN Lower THEN Lower[word[i]] ELSE word[i]]

IsWord(tok, kw) == tok.kind = "ident" /\ LowerCase(tok.word) = <<kw>>
At(p, kind)     == p.ok /\ PeekTok(p).kind = kind
AtWord(p, kw)   == p.ok /\ IsWord(PeekTok(p), kw)

ExpectIdent(p)       == IF At(p, "ident") THEN Got(Skip(p), PeekTok(p).word) ELSE ErrHere(p)
ExpectKeyword(p, kw) == IF AtWord(p, kw) THEN Skip(p) ELSE ErrHere(p)
ExpectToken(p, kind) == IF At(p, kind) THEN Skip(p) ELSE ErrHere(p)
ExpectInt(p)         == IF At(p, "int") THEN Got(Skip(p), PeekTok(p).num) ELSE ErrHere(p)
ExpectUsize(p) ==
    IF At(p, "int") /\ PeekTok(p).num >= 0 THEN Got(Skip(p), PeekTok(p).num) ELSE ErrHere(p)

(***************************************************************************)
(* Values.  A value is a record with one field, named for its variant.  An *)
(* f32 is known by the number it is cast from: no whole number below is    *)
(* too long for its 24 bits, and only Finite asks for the size of others.  *)
(***************************************************************************)

Str(word)     == [str |-> word]
IsA(v, kinds) == \E kind \in kinds : kind \in DOMAIN v
Number(tok)   == IF tok.kind = "int" THEN [int |-> tok.num] ELSE [float |-> tok.word]

\* Whether a number fits an f32: its largest is just over 3.4e38.
Finite(tok) ==
    ~\E e \in DOMAIN tok.word :
        /\ tok.word[e] = "e"
        /\ \E i \in 1 .. e - 1 : tok.word[i] \in {"7", Huge}
        /\ LET exponent == SelectSeq(SubSeq(tok.word, e + 1, Len(tok.word)), LAMBDA c : c # "+") IN
           \/ exponent[1] # "-" /\ \E i \in DOMAIN exponent : exponent[i] = Huge
           \/ exponent[1] # "-" /\ Decimal(exponent) >= 39

\* A list of numbers alone is a vector.
Array(elems) ==
    IF elems # <<>> /\ \A i \in DOMAIN elems : IsA(elems[i], {"int", "float"})
    THEN [vector |-> elems] ELSE [arr |-> elems]

Word(tok) ==
    CASE IsWord(tok, "true")  -> [bool |-> TRUE]
      [] IsWord(tok, "false") -> [bool |-> FALSE]
      [] IsWord(tok, "null")  -> [null |-> TRUE]
      [] OTHER                -> Str(tok.word)

RECURSIVE ParseValue(_), ParseValues(_, _), ParseObjectBody(_, _)

\* The values of a list or an IN behind its bracket; a last comma is allowed.
ParseValues(p, out) ==
    LET More(value) ==
            IF At(value, ",") THEN ParseValues(Skip(value), Append(out, value.val))
            ELSE Got(ExpectToken(value, "]"), Append(out, value.val))
    IN IF At(p, "]") THEN Got(Skip(p), out) ELSE More(ParseValue(p))

ParseObjectBody(p, map) ==
    LET More(key, value) ==
            IF At(value, ",") THEN ParseObjectBody(Skip(value), (key :> value.val) @@ map)
            ELSE Got(ExpectToken(value, "}"), (key :> value.val) @@ map)
    IN CASE At(p, "}") -> Got(Skip(p), map)
         [] At(p, "str") \/ At(p, "ident") ->
                More(PeekTok(p).word, ParseValue(ExpectToken(Skip(p), ":")))
         [] OTHER -> ErrHere(p)

ParseValue(p) ==
    LET List(elems) == Got(elems, Array(elems.val))
        Doc(map)    == Got(map, [doc |-> map.val])
    IN CASE At(p, "str")   -> Got(Skip(p), Str(PeekTok(p).word))
         [] At(p, "ident") -> Got(Skip(p), Word(PeekTok(p)))
         [] At(p, "int") \/ At(p, "float") -> Got(Skip(p), Number(PeekTok(p)))
         [] At(p, "[")     -> List(ParseValues(Skip(p), <<>>))
         [] At(p, "{")     -> Doc(ParseObjectBody(Skip(p), <<>>))
         [] OTHER          -> ErrHere(p)

ParseObject(p) == ParseObjectBody(ExpectToken(p, "{"), <<>>)

RECURSIVE ParseFloats(_, _)
ParseFloats(p, out) ==
    LET More(at, all) == IF At(at, ",") THEN ParseFloats(Skip(at), all) ELSE Got(ExpectToken(at, "]"), all) IN
    CASE At(p, "]") -> Got(Skip(p), out)
      [] At(p, "int") \/ At(p, "float") -> More(Skip(p), Append(out, Number(PeekTok(p))))
      [] OTHER -> ErrHere(p)
ParseFloatVector(p) == ParseFloats(ExpectToken(p, "["), <<>>)

\* A negative number is a name, written without leading zeros.
RECURSIVE NoZeros(_)
NoZeros(digits) == IF Head(digits) = "0" THEN NoZeros(Tail(digits)) ELSE digits

IdOf(tok) ==
    CASE tok.kind = "ident" -> [name |-> tok.word]
      [] tok.kind = "int"   -> IF tok.num >= 0 THEN [num |-> tok.num]
                               ELSE [name |-> <<"-">> \o NoZeros(Tail(tok.word))]

ParseRecordId(p) ==
    LET Id(table) ==
            IF At(table, "int") \/ At(table, "ident")
            THEN Got(Skip(table), [table |-> table.val, id |-> IdOf(PeekTok(table))])
            ELSE ErrHere(table)
    IN Id(ExpectToken(ExpectIdent(p), ":"))

(***************************************************************************)
(* WHERE.                                                                  *)
(***************************************************************************)

Ordered     == {"<", "<=", ">", ">="}
Comparisons == Ordered \cup {"=", "!="}

\* id is compared with the string table:id.  The error names the token after
\* the value.
RequireIdString(p, field, values) ==
    IF p.ok /\ field = <<"id">> /\ \E i \in DOMAIN values : ~IsA(values[i], {"str"})
    THEN ErrHere(p) ELSE p

\* An operator that id has not.
NotForId(tok) == tok.kind \in Ordered \/ IsWord(tok, "between")

ParseFieldPredicate(p, field) ==
    LET Compared(value) ==
            Got(RequireIdString(value, field, <<value.val>>),
                [filter |-> "cmp", field |-> field, op |-> PeekTok(p).kind, value |-> value.val])
        OneOf(values) ==
            Got(RequireIdString(values, field, values.val),
                [filter |-> "in", field |-> field, values |-> values.val])
        Within(lo, hi) == Got(hi, [filter |-> "between", field |-> field, lo |-> lo, hi |-> hi.val])
        From(lo) == Within(lo.val, ParseValue(ExpectKeyword(lo, "and")))
    IN CASE ~p.ok \/ (field = <<"id">> /\ NotForId(PeekTok(p))) -> ErrHere(p)
         [] p.ok /\ PeekTok(p).kind \in Comparisons /\ ~(field = <<"id">> /\ NotForId(PeekTok(p))) ->
                Compared(ParseValue(Skip(p)))
         [] AtWord(p, "in") -> OneOf(ParseValues(ExpectToken(Skip(p), "["), <<>>))
         [] AtWord(p, "between") /\ field # <<"id">> -> From(ParseValue(Skip(p)))
         [] OTHER -> ErrHere(p)

\* Any field may stand before IS NOT NULL; it is not kept.
ParseWhereTerm(p) ==
    LET Field(field) ==
            IF AtWord(field, "is")
            THEN Got(ExpectKeyword(ExpectKeyword(Skip(field), "not"), "null"), [filter |-> "has embedding"])
            ELSE ParseFieldPredicate(field, field.val)
    IN Field(ExpectIdent(p))

RECURSIVE ParseTerms(_, _)
ParseTerms(p, terms) ==
    LET Next(at, all) ==
            IF At(at, "::") \/ AtWord(at, "vector") THEN ErrHere(at) ELSE ParseTerms(at, all)
        Term(term, all) ==
            IF AtWord(term, "and") THEN Next(Skip(term), all)
            ELSE Got(term, IF Len(all) = 1 THEN all[1] ELSE [filter |-> "and", terms |-> all])
        More(term) == Term(term, Append(terms, term.val))
    IN More(ParseWhereTerm(p))
ParseWhereConjunction(p) == ParseTerms(p, <<>>)

\* A mutant of HasOwnK: every AND is taken for an AND k = n.
HasAnd(p) == AtWord(p, "and")

\* An AND that is no AND k is left for the hybrid form.
HasOwnK(p) == AtWord(p, "and") /\ IsWord(PeekN(p, 1), "k")

ParseBm25Filter(p) ==
    LET Lexical(field, query, k) == [filter |-> "bm25", field |-> field, query |-> query.str, k |-> k]
        Limited(field, query, k) == Got(k, Lexical(field, query, Some(k.val)))
        Close(field, close) ==
            IF HasOwnK(close)
            THEN Limited(field, close.val, ExpectUsize(ExpectToken(Skip(Skip(close)), "=")))
            ELSE Got(close, Lexical(field, close.val, None))
        Query(field, query) ==
            IF query.ok /\ ~IsA(query.val, {"str"}) THEN ErrHere(query)
            ELSE Close(field, ExpectToken(query, ")"))
        Field(field) == Query(field.val, ParseValue(ExpectToken(field, ",")))
        Op(op) == IF op.ok /\ LowerCase(op.val) # <<"bm25">> THEN ErrHere(op)
                  ELSE Field(ExpectIdent(ExpectToken(op, "(")))
    IN Op(ExpectIdent(ExpectToken(p, "::")))

\* The words vector, similarity, embedding and k are not looked at.
ParseKnn(p) ==
    LET K(query, k) == IF k.ok /\ k.val = 0 THEN ErrHere(k) ELSE Got(k, [query |-> query, k |-> k.val])
        And(query)  == ExpectIdent(ExpectKeyword(ExpectToken(query, ")"), "and"))
        Query(query) == K(query.val, ExpectUsize(ExpectToken(And(query), "=")))
        Open == ExpectToken(ExpectIdent(ExpectToken(ExpectIdent(p), "::")), "(")
    IN Query(ParseFloatVector(ExpectToken(ExpectIdent(Open), ",")))

ParseWhere(p) ==
    LET Where(at, knn, filter) == Got(at, [knn |-> knn, filter |-> filter])
        Nearest(lexical, knn)  == Where(knn, Some(knn.val), Some(lexical))
        Lexical(knn, lexical)  == Where(lexical, Some(knn), Some(lexical.val))
        LexicalFirst(lexical) ==
            CASE ~AtWord(lexical, "and") -> Where(lexical, None, Some(lexical.val))
              [] AtWord(lexical, "and") /\ AtWord(Skip(lexical), "vector") ->
                    Nearest(lexical.val, ParseKnn(Skip(lexical)))
              [] OTHER -> ErrHere(Skip(lexical))
        NearestFirst(knn) ==
            IF AtWord(knn, "and") THEN Lexical(knn.val, ParseBm25Filter(Skip(knn)))
            ELSE Where(knn, Some(knn.val), None)
        Plain(filter) == Where(filter, None, Some(filter.val))
    IN CASE At(p, "::")         -> LexicalFirst(ParseBm25Filter(p))
         [] AtWord(p, "vector") -> NearestFirst(ParseKnn(p))
         [] OTHER               -> Plain(ParseWhereConjunction(p))

(***************************************************************************)
(* SELECT.                                                                 *)
(***************************************************************************)

RECURSIVE ParseFields(_, _, _)
ParseFields(p, star, fields) ==
    LET More(at, stars, named) ==
            IF At(at, ",") THEN ParseFields(Skip(at), stars, named)
            ELSE Got(at, [fields |-> IF stars THEN None ELSE Some(named), count |-> FALSE])
    IN CASE At(p, "*")     -> More(Skip(p), TRUE, fields)
         [] At(p, "ident") -> More(Skip(p), star, Append(fields, PeekTok(p).word))
         [] OTHER          -> ErrHere(p)

ParseFieldList(p) ==
    IF AtWord(p, "count") /\ PeekN(p, 1).kind = "("
    THEN Got(ExpectToken(ExpectToken(Skip(Skip(p)), "*"), ")"), [fields |-> None, count |-> TRUE])
    ELSE ParseFields(p, FALSE, <<>>)

RECURSIVE ParseWeights(_, _)
ParseWeights(p, out) ==
    LET Weight(at) ==
            IF (At(at, "int") \/ At(at, "float")) /\ Finite(PeekTok(at))
            THEN ParseWeights(Skip(at), Append(out, Number(PeekTok(at)))) ELSE ErrHere(at)
    IN IF Len(out) = 4 THEN Got(ExpectToken(p, ")"), [by |-> "weighted salience", weights |-> out])
       ELSE Weight(IF out = <<>> THEN p ELSE ExpectToken(p, ","))

ParseSalienceOrder(p) ==
    IF At(p, "(") THEN ParseWeights(Skip(p), <<>>) ELSE Got(p, [by |-> "salience"])

OrderOps == {"similarity", "score", "recency", "votes", "feedback"}

\* What follows ORDER.  :: commits to an operator; DESC is for a field alone.
ParseOrder(p) ==
    LET Fixed(op) == IF AtWord(op, "desc") THEN ErrHere(Skip(op)) ELSE op
        Key(key, colons) ==
            CASE key.ok /\ \E o \in OrderOps : LowerCase(key.val) = <<o>> ->
                    Fixed(Got(key, [by |-> LowerCase(key.val)[1]]))
              [] key.ok /\ LowerCase(key.val) = <<"salience">> -> Fixed(ParseSalienceOrder(key))
              [] OTHER ->
                    IF colons THEN ErrHere(key)
                    ELSE Got(IF AtWord(key, "desc") THEN Skip(key) ELSE key,
                             [by |-> "field", key |-> key.val, desc |-> AtWord(key, "desc")])
        By(by) == IF At(by, "::") \/ At(by, ":") THEN Key(ExpectIdent(Skip(by)), TRUE)
                  ELSE Key(ExpectIdent(by), FALSE)
    IN By(ExpectKeyword(p, "by"))

\* What follows AS.
ParseAsOf(p) == ExpectInt(ExpectKeyword(p, "of"))

NoClauses == [knn |-> None, filter |-> None, order |-> None, limit |-> None, offset |-> None, asOf |-> None]

\* A mutant of WithWhere: a clause WHERE leaves what an earlier one set.
WithWhereMerged(sel, where) ==
    [sel EXCEPT !.knn = IF where.knn = None THEN @ ELSE where.knn,
                !.filter = IF where.filter = None THEN @ ELSE where.filter]

WithWhere(sel, where) == [sel EXCEPT !.knn = where.knn, !.filter = where.filter]

\* The clauses come in any order; of two of a kind the last one counts.
RECURSIVE ParseClauses(_, _)
ParseClauses(p, sel) ==
    LET Where(w)  == ParseClauses(w, WithWhere(sel, w.val))
        Order(o)  == ParseClauses(o, [sel EXCEPT !.order = Some(o.val)])
        AsOf(t)   == ParseClauses(t, [sel EXCEPT !.asOf = Some(t.val)])
        Offset(n) == ParseClauses(n, [sel EXCEPT !.offset = Some(n.val)])
        Page(limit, n) == ParseClauses(n, [sel EXCEPT !.limit = Some(limit), !.offset = Some(n.val)])
        Limit(n)  == IF AtWord(n, "offset") THEN Page(n.val, ExpectUsize(Skip(n)))
                     ELSE ParseClauses(n, [sel EXCEPT !.limit = Some(n.val)])
    IN CASE AtWord(p, "where")  -> Where(ParseWhere(Skip(p)))
         [] AtWord(p, "order")  -> Order(ParseOrder(Skip(p)))
         [] AtWord(p, "as")     -> AsOf(ParseAsOf(Skip(p)))
         [] AtWord(p, "limit")  -> Limit(ExpectUsize(Skip(p)))
         [] AtWord(p, "offset") -> Offset(ExpectUsize(Skip(p)))
         [] OTHER               -> Got(p, sel)

ParseSelect(p) ==
    LET Select(list, table, clauses) ==
            Got(clauses, [stmt |-> "select", table |-> table, list |-> list, clauses |-> clauses.val])
        Table(list, table) == Select(list, table.val, ParseClauses(table, NoClauses))
        List(list) == Table(list.val, ExpectIdent(ExpectKeyword(list, "from")))
    IN List(ParseFieldList(ExpectKeyword(p, "select")))

(***************************************************************************)
(* The other statements.                                                   *)
(***************************************************************************)

\* The dimension 0 is refused at the token behind it.
ParseCreate(p) ==
    LET Create(at, table, dim) == Got(at, [stmt |-> "create", table |-> table, dim |-> dim])
        Positive(dim) == ExpectToken(IF dim.ok /\ dim.val = 0 THEN ErrHere(dim) ELSE dim, ">")
        Vector(table, dim) == Create(Positive(dim), table, Some(dim.val))
        Of(table) == ExpectToken(ExpectIdent(ExpectToken(Skip(table), "<")), ",")
        Table(table) == IF AtWord(table, "vector") THEN Vector(table.val, ExpectUsize(Of(table)))
                        ELSE Create(table, table.val, None)
    IN Table(ExpectIdent(ExpectKeyword(ExpectKeyword(p, "create"), "table")))

ParseInsert(p) ==
    LET Insert(at, id, body, embedding) ==
            Got(at, [stmt |-> "insert", id |-> id, body |-> body, embedding |-> embedding])
        Embed(id, body, vec) == Insert(vec, id, body, Some(vec.val))
        Body(id, body) == IF AtWord(body, "embed") THEN Embed(id, body.val, ParseFloatVector(Skip(body)))
                          ELSE Insert(body, id, body.val, None)
        Id(id) == Body(id.val, ParseObject(id))
    IN Id(ParseRecordId(ExpectKeyword(ExpectKeyword(p, "insert"), "into")))

\* Behind SET: the weight is the last number given to it, and no property.
RECURSIVE ParseSet(_, _, _)
ParseSet(p, weight, props) ==
    LET More(at, w, all) ==
            IF At(at, ",") THEN ParseSet(Skip(at), w, all) ELSE Got(at, [weight |-> w, props |-> all])
        Value(field, value) ==
            IF LowerCase(field) # <<"weight">> THEN More(value, weight, (field :> value.val) @@ props)
            ELSE IF IsA(value.val, {"int", "float"}) THEN More(value, Some(value.val), props)
            ELSE ErrHere(value)
        Checked(field, value) == IF value.ok THEN Value(field, value) ELSE value
        Field(field) == Checked(field.val, ParseValue(ExpectToken(field, "=")))
    IN Field(ExpectIdent(p))

EatColon(p) == IF At(p, ":") THEN Skip(p) ELSE p

ParseRelate(p) ==
    LET Relate(from, name, to, set) ==
            Got(set, [stmt |-> "relate", from |-> from, name |-> name, to |-> to,
                      weight |-> set.val.weight, props |-> set.val.props])
        Set(from, name, to) ==
            Relate(from, name, to.val, IF AtWord(to, "set") THEN ParseSet(Skip(to), None, <<>>)
                                       ELSE Got(to, [weight |-> None, props |-> <<>>]))
        Name(from, name) ==
            Set(from, name.val,
                ExpectToken(ParseRecordId(ExpectToken(ExpectToken(name, "->"), "(")), ")"))
        From(from) == Name(from.val, ExpectIdent(EatColon(ExpectToken(ExpectToken(from, ")"), "->"))))
    IN From(ParseRecordId(ExpectToken(ExpectKeyword(p, "relate"), "(")))

RECURSIVE ParseSteps(_, _)
ParseSteps(p, steps) ==
    LET More(at, name, props) ==
            ParseSteps(at, Append(steps, [direction |-> PeekTok(p).kind, name |-> name, edgeProps |-> props]))
        Where(name, where) == More(where, name, Some(where.val))
        Name(name) == IF AtWord(name, "where") THEN Where(name.val, ParseWhereConjunction(Skip(name)))
                      ELSE More(name, name.val, None)
    IN CASE At(p, "->") \/ At(p, "<-") -> Name(ExpectIdent(EatColon(Skip(p))))
         [] OTHER -> IF steps = <<>> THEN ErrHere(p) ELSE Got(p, steps)

\* The path of MATCH and CLOSURE.
ParsePath(p) ==
    LET Path(at, start, steps, asOf) == Got(at, [start |-> start, steps |-> steps, asOf |-> asOf])
        AsOf(start, steps, time) == Path(time, start, steps, Some(time.val))
        Steps(start, steps) == IF AtWord(steps, "as") THEN AsOf(start, steps.val, ParseAsOf(Skip(steps)))
                               ELSE Path(steps, start, steps.val, None)
        Start(start) == Steps(start.val, ParseSteps(ExpectToken(start, ")"), <<>>))
    IN Start(ParseRecordId(ExpectToken(p, "(")))

ParseMatch(p) ==
    LET Match(path) == IF AtWord(path, "count") THEN Got(Skip(path), [stmt |-> "match count", path |-> path.val])
                       ELSE Got(path, [stmt |-> "match", path |-> path.val])
    IN Match(ParsePath(ExpectKeyword(p, "match")))

ParseClosure(p) ==
    LET Closure(path) == Got(path, [stmt |-> "closure", path |-> path.val])
    IN Closure(ParsePath(ExpectKeyword(p, "closure")))

ParseMemory(p) ==
    LET Memory(name) == Got(name, [stmt |-> "memory", name |-> name.val])
    IN Memory(ExpectIdent(ExpectKeyword(p, "memory")))

ParseForget(p) ==
    LET Forget(id) == Got(id, [stmt |-> "forget", id |-> id.val])
    IN Forget(ParseRecordId(ExpectKeyword(p, "forget")))

ParsePrune(p) == Got(ExpectKeyword(ExpectKeyword(p, "prune"), "history"), [stmt |-> "prune"])

ParseHistory(p) ==
    LET Since(since) == Got(since, [stmt |-> "history", since |-> since.val])
    IN Since(ExpectInt(ExpectKeyword(ExpectKeyword(p, "history"), "since")))

ParseStatement(p) ==
    CASE AtWord(p, "create")  -> ParseCreate(p)
      [] AtWord(p, "insert")  -> ParseInsert(p)
      [] AtWord(p, "relate")  -> ParseRelate(p)
      [] AtWord(p, "match")   -> ParseMatch(p)
      [] AtWord(p, "closure") -> ParseClosure(p)
      [] AtWord(p, "memory")  -> ParseMemory(p)
      [] AtWord(p, "select")  -> ParseSelect(p)
      [] AtWord(p, "forget")  -> ParseForget(p)
      [] AtWord(p, "prune")   -> ParsePrune(p)
      [] AtWord(p, "history") -> ParseHistory(p)
      [] OTHER                -> ErrHere(p)
=============================================================================
