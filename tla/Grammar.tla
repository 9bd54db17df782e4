------------------------------- MODULE Grammar ------------------------------
(***************************************************************************)
(* The reference of the language: how a statement is written, after the    *)
(* grammar of src/spec/nql.md section 1, and how a token is spelled.       *)
(* Nothing here is code of the repository: Language compares the lexer and *)
(* the parser with it.                                                     *)
(***************************************************************************)
EXTENDS Parser

S == INSTANCE SequencesExt

\* What is written for each token of a statement; the numbers are 0, 7, 77...
RECURSIVE DigitsOf(_)
DigitsOf(n) == IF n < 10 THEN <<ToString(n)>> ELSE Append(DigitsOf(n \div 10), ToString(n % 10))

Whole(n) == <<Tok("int", IF n < 0 THEN <<"-">> \o DigitsOf(-n) ELSE DigitsOf(n), n)>>
Id(word) == <<Tok("ident", word, 0)>>
Kw(word) == Id(<<word>>)
Sg(sign) == <<Sign(sign)>>
Quoted(word) == <<Tok("str", word, 0)>>

Opt(opt, before, Shown(_)) == IF opt = None THEN <<>> ELSE before \o Shown(opt[1])

Joined(items, with) == S!FlattenSeq([i \in DOMAIN items |-> (IF i = 1 THEN <<>> ELSE with) \o items[i]])
Listed(items) == Joined(items, Sg(","))

Float(v)      == IF IsA(v, {"int"}) THEN Whole(v.int) ELSE <<Tok("float", v.float, 0)>>
Vector(elems) == Sg("[") \o Listed([i \in DOMAIN elems |-> Float(elems[i])]) \o Sg("]")

RECURSIVE Value(_), Object(_)
Value(v) ==
    CASE IsA(v, {"str"})          -> Quoted(v.str)
      [] IsA(v, {"bool"})         -> Kw(IF v.bool THEN "true" ELSE "false")
      [] IsA(v, {"null"})         -> Kw("null")
      [] IsA(v, {"int", "float"}) -> Float(v)
      [] IsA(v, {"vector"})       -> Vector(v.vector)
      [] IsA(v, {"arr"})          -> Sg("[") \o Listed([i \in DOMAIN v.arr |-> Value(v.arr[i])]) \o Sg("]")
      [] IsA(v, {"doc"})          -> Object(v.doc)
Object(doc) ==
    LET keys == S!SetToSeq(DOMAIN doc) IN
    Sg("{") \o Listed([i \in DOMAIN keys |-> Quoted(keys[i]) \o Sg(":") \o Value(doc[keys[i]])]) \o Sg("}")

RecordIdOf(r) ==
    Id(r.table) \o Sg(":")
    \o (CASE "num" \in DOMAIN r.id -> Whole(r.id.num)
          [] "name" \in DOMAIN r.id /\ r.id.name[1] = "-" -> Whole(-Decimal(Tail(r.id.name)))
          [] OTHER -> Id(r.id.name))

RECURSIVE Term(_)
Term(f) ==
    CASE f.filter = "cmp" -> Id(f.field) \o Sg(f.op) \o Value(f.value)
      [] f.filter = "in"  -> Id(f.field) \o Kw("in") \o Value([arr |-> f.values])
      [] f.filter = "between" ->
            Id(f.field) \o Kw("between") \o Value(f.lo) \o Kw("AND") \o Value(f.hi)
      [] f.filter = "has embedding" -> Kw("embedding") \o Kw("is") \o Kw("not") \o Kw("null")
      [] f.filter = "bm25" ->
            Sg("::") \o Kw("bm25") \o Sg("(") \o Id(f.field) \o Sg(",") \o Quoted(f.query) \o Sg(")")
            \o Opt(f.k, Kw("and") \o Kw("k") \o Sg("="), Whole)
      [] f.filter = "and" -> Joined([i \in DOMAIN f.terms |-> Term(f.terms[i])], Kw("and"))

Nearest(knn) ==
    Kw("vector") \o Sg("::") \o Kw("similarity") \o Sg("(") \o Kw("embedding") \o Sg(",") \o Vector(knn.query)
    \o Sg(")") \o Kw("AND") \o Kw("k") \o Sg("=") \o Whole(knn.k)

Where(c) ==
    CASE c.knn = None /\ c.filter = None -> <<>>
      [] c.knn = None /\ c.filter # None -> Kw("where") \o Term(c.filter[1])
      [] c.knn # None /\ c.filter = None -> Kw("where") \o Nearest(c.knn[1])
      [] OTHER -> Kw("where") \o Nearest(c.knn[1]) \o Kw("and") \o Term(c.filter[1])

OrderKey(o) ==
    CASE o.by = "field" -> Id(o.key) \o (IF o.desc THEN Kw("desc") ELSE <<>>)
      [] o.by = "weighted salience" ->
            Sg("::") \o Kw("salience") \o Sg("(") \o Listed([i \in 1 .. 4 |-> Float(o.weights[i])]) \o Sg(")")
      [] OTHER -> Sg("::") \o Kw(o.by)

AsOf(opt) == Opt(opt, Kw("as") \o Kw("of"), Whole)

Select(s) ==
    Kw("SELECT")
    \o (CASE s.list.count -> Kw("count") \o Sg("(") \o Sg("*") \o Sg(")")
          [] ~s.list.count /\ s.list.fields = None -> Sg("*")
          [] OTHER -> Listed([i \in DOMAIN s.list.fields[1] |-> Id(s.list.fields[1][i])]))
    \o Kw("from") \o Id(s.table)
    \o Where(s.clauses)
    \o Opt(s.clauses.order, Kw("order") \o Kw("by"), OrderKey)
    \o AsOf(s.clauses.asOf)
    \o Opt(s.clauses.offset, Kw("offset"), Whole)
    \o Opt(s.clauses.limit, Kw("limit"), Whole)

Path(path) ==
    Sg("(") \o RecordIdOf(path.start) \o Sg(")")
    \o S!FlattenSeq([i \in DOMAIN path.steps |->
            Sg(path.steps[i].direction) \o Sg(":") \o Id(path.steps[i].name)
            \o Opt(path.steps[i].edgeProps, Kw("where"), Term)])
    \o AsOf(path.asOf)

Edge(s) ==
    LET keys == S!SetToSeq(DOMAIN s.props)
        sets == [i \in DOMAIN keys |-> Id(keys[i]) \o Sg("=") \o Value(s.props[keys[i]])]
                \o (IF s.weight = None THEN <<>> ELSE <<Kw("weight") \o Sg("=") \o Value(s.weight[1])>>)
    IN Sg("(") \o RecordIdOf(s.from) \o Sg(")") \o Sg("->") \o Sg(":") \o Id(s.name) \o Sg("->")
       \o Sg("(") \o RecordIdOf(s.to) \o Sg(")")
       \o (IF sets = <<>> THEN <<>> ELSE Kw("set") \o Listed(sets))

Dimension(n) == Sg("<") \o Kw("f32") \o Sg(",") \o Whole(n) \o Sg(">")

Statement(s) ==
    CASE s.stmt = "create"  -> Kw("create") \o Kw("table") \o Id(s.table) \o Opt(s.dim, Kw("vector"), Dimension)
      [] s.stmt = "insert"  -> Kw("insert") \o Kw("into") \o RecordIdOf(s.id) \o Object(s.body)
                               \o Opt(s.embedding, Kw("embed"), Vector)
      [] s.stmt = "relate"  -> Kw("relate") \o Edge(s)
      [] s.stmt = "match"   -> Kw("match") \o Path(s.path)
      [] s.stmt = "match count" -> Kw("match") \o Path(s.path) \o Kw("COUNT")
      [] s.stmt = "closure" -> Kw("closure") \o Path(s.path)
      [] s.stmt = "memory"  -> Kw("memory") \o Id(s.name)
      [] s.stmt = "select"  -> Select(s)
      [] s.stmt = "forget"  -> Kw("forget") \o RecordIdOf(s.id)
      [] s.stmt = "prune"   -> Kw("prune") \o Kw("history")
      [] s.stmt = "history" -> Kw("history") \o Kw("since") \o Whole(s.since)

\* A program; its statements need nothing between them.
Program(plan) == S!FlattenSeq([i \in DOMAIN plan |-> Statement(plan[i])])

(***************************************************************************)
(* Characters.                                                             *)
(***************************************************************************)

Escaped(c) == IF c \in {"\"", "\\", "\n"} THEN <<"\\", IF c = "\n" THEN "n" ELSE c>> ELSE <<c>>

Spelled(tok) ==
    CASE tok.kind \in {"ident", "int", "float"} -> tok.word
      [] tok.kind = "str" ->
            <<"\"">> \o S!FlattenSeq([i \in DOMAIN tok.word |-> Escaped(tok.word[i])]) \o <<"\"">>
      [] tok.kind \in Singles \cup Alone -> <<tok.kind>>
      [] OTHER -> CHOOSE both \in DOMAIN Pair : Pair[both] = tok.kind

\* Two tokens that read otherwise with nothing between them.
Glue(a, b) ==
    \/ a.kind \in {"ident", "int", "float"} /\ b.kind \in {"ident", "int", "float"}
    \/ a.kind = ":" /\ b.kind \in {":", "::"}
    \/ a.kind = "<" /\ (b.kind \in {"->", "="} \/ (b.kind \in {"int", "float"} /\ b.word[1] = "-"))
    \/ a.kind = ">" /\ b.kind = "="

\* What may stand between two tokens; <<>> stands there unless they glue.
Gaps == {<<>>, <<" ">>, <<"\n">>, <<"-", "-", "'", "\n">>, <<"/", "*", ";", "\n", "*", "/">>}

\* A < takes the first dash of a comment.
Sticks(a, gap, b) == (gap = <<>> /\ Glue(a, b)) \/ (gap # <<>> /\ gap[1] = "-" /\ a.kind = "<")

\* The text of tokens with one gap before each of them, and a tab more where
\* they would stick.
Spelling(toks, gap) ==
    S!FlattenSeq([i \in DOMAIN toks |->
        (IF i > 1 /\ Sticks(toks[i - 1], gap, toks[i]) THEN <<"\t">> ELSE <<>>) \o gap \o Spelled(toks[i])])
=============================================================================
