------------------------------ MODULE Language ------------------------------
(***************************************************************************)
(* A call of nql::parse or nql::parse_statement (src/nql/src/parser.rs):   *)
(* the text is cut into tokens, then the tokens are parsed statement by    *)
(* statement; either may end in an error that names a line and a column.   *)
(***************************************************************************)
EXTENDS Grammar, FiniteSets

\* A source is a text with what is known of it: the tokens it spells, the plan
\* it was written for, the two texts it joins, each of them or nothing, and
\* whether parse_statement is called.
CONSTANT Sources

VARIABLES source, lx, toks, idx, plan, phase, fault

vars == <<source, lx, toks, idx, plan, phase, fault>>

Place(at) == [line |-> at.line, col |-> at.col]

Init ==
    /\ source \in Sources
    /\ lx = StartOf(source.text)
    /\ toks = <<>> /\ idx = 1 /\ plan = <<>>
    /\ phase = "lexing" /\ fault = None

ReadNext ==
    /\ phase = "lexing"
    /\ \E next \in {NextToken(lx)} :
          /\ next.ok
          /\ lx' = next.lx
          /\ toks' = Append(toks, next.spanned)
          /\ phase' = IF next.spanned.tok.kind = End THEN "parsing" ELSE "lexing"
    /\ UNCHANGED <<source, idx, plan, fault>>

LexError ==
    /\ phase = "lexing"
    /\ \E next \in {NextToken(lx)} :
          /\ ~next.ok
          /\ lx' = next.lx
          /\ phase' = "refused" /\ fault' = Some(Place(next.lx))
    /\ UNCHANGED <<source, toks, idx, plan>>

Bare(spans) == [i \in DOMAIN spans |-> spans[i].tok]
Here == [ParserOf(Bare(toks)) EXCEPT !.idx = idx]

\* One turn of the loop of parse.
NextStatement ==
    /\ phase = "parsing" /\ ~source.single
    /\ \E p \in {SkipSemis(Here)} :
          /\ ~AtEof(p)
          /\ \E read \in {ParseStatement(p)} :
                read.ok /\ plan' = Append(plan, read.val) /\ idx' = read.idx
    /\ UNCHANGED <<source, lx, toks, phase, fault>>

Accept ==
    /\ phase = "parsing" /\ ~source.single
    /\ AtEof(SkipSemis(Here))
    /\ phase' = "accepted"
    /\ UNCHANGED <<source, lx, toks, idx, plan, fault>>

Refuse(read) ==
    /\ ~read.ok
    /\ phase' = "refused" /\ plan' = <<>> /\ idx' = read.idx
    /\ fault' = Some(Place(toks[read.idx]))
    /\ UNCHANGED <<source, lx, toks>>

ParseError ==
    /\ phase = "parsing" /\ ~source.single
    /\ \E p \in {SkipSemis(Here)} : ~AtEof(p) /\ \E read \in {ParseStatement(p)} : Refuse(read)

\* parse_statement: one statement, and nothing behind it, not even a semicolon.
Only(read) == IF read.ok /\ ~AtEof(read) THEN ErrHere(read) ELSE read

OneStatement ==
    /\ phase = "parsing" /\ source.single
    /\ \E read \in {Only(ParseStatement(Here))} :
          read.ok /\ plan' = <<read.val>> /\ idx' = read.idx /\ phase' = "accepted"
    /\ UNCHANGED <<source, lx, toks, fault>>

NotOneStatement ==
    /\ phase = "parsing" /\ source.single
    /\ \E read \in {Only(ParseStatement(Here))} : Refuse(read)

Next ==
    \/ ReadNext \/ LexError
    \/ NextStatement \/ Accept \/ ParseError
    \/ OneStatement \/ NotOneStatement

Spec == Init /\ [][Next]_vars

(***************************************************************************)
(* The whole call as a function, to compare one call with another.         *)
(***************************************************************************)

RECURSIVE Tokenize(_, _)
Tokenize(cursor, out) ==
    LET More(next, all) ==
            CASE ~next.ok -> None
              [] next.ok /\ next.spanned.tok.kind = End -> all
              [] OTHER -> Tokenize(next.lx, all)
        Token(next) == More(next, Append(out, next.spanned))
    IN Token(NextToken(cursor))

RECURSIVE ParseFrom(_, _)
ParseFrom(p, out) ==
    LET More(read) == IF read.ok THEN ParseFrom(read, Append(out, read.val)) ELSE read
    IN IF AtEof(SkipSemis(p)) THEN Got(SkipSemis(p), out) ELSE More(ParseStatement(SkipSemis(p)))

Parse(bare) == ParseFrom(ParserOf(bare), <<>>)

\* The plans a text has: one, or none when it is refused.
PlansIn(spans) ==
    LET Plans(read) == IF read.ok THEN {read.val} ELSE {}
    IN IF spans = None THEN {} ELSE Plans(Parse(Bare(spans)))
PlansOf(text) == PlansIn(Tokenize(StartOf(text), <<>>))

(***************************************************************************)
(* Properties.                                                             *)
(***************************************************************************)

\* Where a character stands: a line ends behind its newline, and a column is a
\* byte.
PlaceOf(text, pos) ==
    LET breaks == {i \in 1 .. pos - 1 : text[i] = "\n"}
        first  == IF breaks = {} THEN 1 ELSE 1 + CHOOSE i \in breaks : \A j \in breaks : j <= i
    IN [line |-> 1 + Cardinality(breaks),
        col  |-> 1 + (pos - first) + Cardinality({i \in first .. pos - 1 : text[i] = Wide})]

\* Whether a token can begin with the character at pos.
BeginsAt(text, pos, tok) ==
    CASE tok.kind = End   -> pos = Len(text) + 1
      [] tok.kind = "str" -> pos <= Len(text) /\ text[pos] \in Quotes
      [] OTHER            -> pos <= Len(text) /\ text[pos] = Spelled(tok)[1]

\* The lexer has come to the end of the text.
Tokenized == toks # <<>> /\ toks[Len(toks)].tok.kind = End

\* Every place that lexer.rs and parser.rs report is the right one: the cursor
\* is on its own line and column, a token is where its first character stands,
\* an error of the lexer lies in what is not read yet or begins there, and an
\* error of the parser names the last token that it needs: the same tokens cut
\* off behind it are refused at the same token.
Located ==
    /\ Place(lx) = PlaceOf(lx.src, lx.pos)
    /\ phase = "lexing" /\ toks # <<>> =>
          LET last == toks[Len(toks)] IN
          \E pos \in 1 .. lx.pos - 1 :
              BeginsAt(lx.src, pos, last.tok) /\ Place(last) = PlaceOf(lx.src, pos)
    /\ phase = "parsing" => Place(toks[Len(toks)]) = PlaceOf(lx.src, Len(lx.src) + 1)
    /\ phase = "refused" =>
          \E pos \in (IF Tokenized THEN 1 ELSE lx.pos) .. Len(lx.src) + 1 :
              fault[1] = PlaceOf(lx.src, pos)
    /\ phase = "refused" /\ ~source.single /\ Tokenized =>
          LET Same(cut) == ~cut.ok /\ cut.idx = idx IN
          Same(Parse(SubSeq(Bare(toks), 1, idx) \o <<Sign(End)>>))

\* Blanks, newlines and comments between tokens change nothing (spec/nql.md
\* section 1): however its tokens are spaced, a text is read as the tokens it
\* spells, escapes in strings and signs of two characters included.
Respelled ==
    source.toks # None =>
        LET read == Bare(toks) IN
        /\ read = SubSeq(Append(source.toks[1], Sign(End)), 1, Len(toks))
        /\ phase # "lexing" => Len(toks) = Len(source.toks[1]) + 1

\* A plan written in the grammar of spec/nql.md is parsed to that plan: no
\* clause, sign, option or order of them is lost, and no statement is refused or
\* runs into the next one.
RoundTrip ==
    source.plan # None =>
        /\ phase # "refused"
        /\ phase = "accepted" => plan = source.plan[1]

\* Whatever the parser accepts, as lenient as it is with clauses in any order
\* or given twice, is a plan that the grammar of spec/nql.md can say: written
\* out in it, the plan is parsed to itself.
Canonical ==
    phase = "accepted" =>
        LET Same(again) == again.ok /\ again.val = plan IN
        Same(Parse(Program(plan) \o <<Sign(End)>>))

\* Statements need no semicolon, and any number of them is allowed: two
\* accepted texts, one behind the other, are accepted, as the one plan followed
\* by the other.
Splits ==
    source.halves # None =>
        LET Both(plans) == \A before \in plans[1], after \in plans[2] :
                /\ phase # "refused"
                /\ phase = "accepted" => plan = before \o after
        IN Both([half \in 1 .. 2 |-> PlansOf(source.halves[1][half])])
=============================================================================
