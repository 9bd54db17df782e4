------------------------------- MODULE Lexer --------------------------------
(***************************************************************************)
(* The tokenizer of nql (src/nql/src/lexer.rs).  A character is a string;  *)
(* a run of letters that matters as a whole, such as a keyword, is one     *)
(* character here, and so is Huge, a run of twenty digits.  Wide stands    *)
(* for a character of two bytes.                                           *)
(***************************************************************************)
EXTENDS Integers, Sequences, TLC

CONSTANTS Letters, EWords

\* EWords are the letters that begin with an e: after a number they are read as
\* an exponent.
ASSUME LettersAssumption == EWords \subseteq Letters /\ {"e", "E"} \subseteq EWords

End  == "end of input"
Huge == "99999999999999999999"
Wide == "two bytes"

Digits     == {"0", "7", Huge}
Blanks     == {" ", "\t", "\n", "\r"}
Quotes     == {"'", "\""}
IdentStart == Letters \cup {Wide}
IdentChars == IdentStart \cup Digits

Bytes(c) == IF c = Wide THEN 2 ELSE 1

(***************************************************************************)
(* The cursor.                                                             *)
(***************************************************************************)

StartOf(src) == [src |-> src, pos |-> 1, line |-> 1, col |-> 1]

Peek(lx)  == IF lx.pos <= Len(lx.src) THEN lx.src[lx.pos] ELSE End
Peek2(lx) == IF lx.pos < Len(lx.src) THEN lx.src[lx.pos + 1] ELSE End

\* A mutant of Bump: the column goes on counting after a newline.
BumpNoReset(lx) ==
    CASE Peek(lx) = End  -> lx
      [] Peek(lx) = "\n" -> [lx EXCEPT !.pos = @ + 1, !.line = @ + 1]
      [] OTHER           -> [lx EXCEPT !.pos = @ + 1, !.col = @ + Bytes(Peek(lx))]

Bump(lx) ==
    CASE Peek(lx) = End  -> lx
      [] Peek(lx) = "\n" -> [lx EXCEPT !.pos = @ + 1, !.line = @ + 1, !.col = 1]
      [] OTHER           -> [lx EXCEPT !.pos = @ + 1, !.col = @ + Bytes(Peek(lx))]

Bump2(lx) == Bump(Bump(lx))

\* What lies between two places of the cursor.
Between(from, to) == SubSeq(from.src, from.pos, to.pos - 1)

RECURSIVE SkipRun(_, _)
SkipRun(lx, chars) == IF Peek(lx) \in chars THEN SkipRun(Bump(lx), chars) ELSE lx

RECURSIVE SkipLine(_)
SkipLine(lx) == IF Peek(lx) \in {"\n", End} THEN lx ELSE SkipLine(Bump(lx))

RECURSIVE SkipComment(_)
SkipComment(lx) ==
    IF Peek(lx) = End \/ (Peek(lx) = "*" /\ Peek2(lx) = "/") THEN lx ELSE SkipComment(Bump(lx))

(***************************************************************************)
(* A call returns ok, the cursor behind what it read, and the token; when  *)
(* it fails, the cursor is where the error is reported.                    *)
(***************************************************************************)

Tok(kind, word, num) == [kind |-> kind, word |-> word, num |-> num]
Sign(kind) == Tok(kind, <<>>, 0)

Read(lx, tok) == [ok |-> TRUE, lx |-> lx, tok |-> tok]
Bad(lx)       == [ok |-> FALSE, lx |-> lx, tok |-> Sign(End)]

\* Blanks and comments; a block comment does not nest.
RECURSIVE SkipWs(_)
SkipWs(lx) ==
    CASE Peek(lx) \in Blanks                -> SkipWs(Bump(lx))
      [] Peek(lx) = "-" /\ Peek2(lx) = "-"  -> SkipWs(SkipLine(lx))
      [] Peek(lx) = "/" /\ Peek2(lx) = "*"  ->
            LET Close(close) == IF Peek(close) = End THEN Bad(close) ELSE SkipWs(Bump2(close))
            IN Close(SkipComment(Bump2(lx)))
      [] OTHER                              -> Read(lx, Sign(End))

\* The literal that is handed to parse::<f64> has a small e.
Literal(word) == [i \in DOMAIN word |-> IF word[i] = "E" THEN "e" ELSE word[i]]

RECURSIVE Decimal(_)
Decimal(digits) ==
    IF digits = <<>> THEN 0
    ELSE Decimal(SubSeq(digits, 1, Len(digits) - 1)) * 10
         + (IF digits[Len(digits)] = "7" THEN 7 ELSE 0)

\* lx is behind the sign.  An integer that overflows i64 becomes a float; the
\* error of a bad exponent is reported at the first digit.
ReadNumber(lx, sign) ==
    LET Float(last) == Read(last, Tok("float", sign \o Literal(Between(lx, last)), 0))
        Whole(last, digits) ==
            IF \E i \in DOMAIN digits : digits[i] = Huge THEN Float(last)
            ELSE Read(last, Tok("int", sign \o digits, IF sign = <<>> THEN Decimal(digits) ELSE -Decimal(digits)))
        Exponent(mark, expo) ==
            IF mark \in {"e", "E"} /\ Peek(expo) \in Digits THEN Float(SkipRun(expo, Digits)) ELSE Bad(lx)
        Mantissa(whole, last) ==
            CASE Peek(last) \in EWords ->
                    Exponent(Peek(last), IF Peek2(last) \in {"+", "-"} THEN Bump2(last) ELSE Bump(last))
              [] Peek(last) \notin EWords /\ last = whole -> Whole(last, Between(lx, last))
              [] OTHER -> Float(last)
        Fraction(whole) ==
            Mantissa(whole, IF Peek(whole) = "." /\ Peek2(whole) \in Digits
                            THEN SkipRun(Bump(whole), Digits) ELSE whole)
    IN Fraction(SkipRun(lx, Digits))

Escapes == ("\"" :> "\"") @@ ("'" :> "'") @@ ("\\" :> "\\") @@ ("n" :> "\n") @@ ("t" :> "\t") @@ ("r" :> "\r")

\* A mutant of ReadBody: an escaped backslash still escapes what follows it.
RECURSIVE ReadBodyTwice(_, _, _)
ReadBodyTwice(lx, quote, out) ==
    CASE Peek(lx) \in {End, "\n"}         -> Bad(lx)
      [] Peek(lx) = quote                 -> Read(Bump(lx), Tok("str", out, 0))
      [] Peek(lx) = "\\" /\ Peek2(lx) = "\\" -> ReadBodyTwice(Bump(lx), quote, out)
      [] Peek(lx) = "\\" /\ Peek2(lx) \in DOMAIN Escapes \ {"\\"} ->
            ReadBodyTwice(Bump2(lx), quote, Append(out, Escapes[Peek2(lx)]))
      [] Peek(lx) = "\\" /\ Peek2(lx) \notin DOMAIN Escapes -> Bad(lx)
      [] OTHER -> ReadBodyTwice(Bump(lx), quote, Append(out, Peek(lx)))

\* lx is inside the quotes.
RECURSIVE ReadBody(_, _, _)
ReadBody(lx, quote, out) ==
    CASE Peek(lx) \in {End, "\n"}         -> Bad(lx)
      [] Peek(lx) = quote                 -> Read(Bump(lx), Tok("str", out, 0))
      [] Peek(lx) = "\\" /\ Peek2(lx) \in DOMAIN Escapes ->
            ReadBody(Bump2(lx), quote, Append(out, Escapes[Peek2(lx)]))
      [] Peek(lx) = "\\" /\ Peek2(lx) \notin DOMAIN Escapes -> Bad(lx)
      [] OTHER -> ReadBody(Bump(lx), quote, Append(out, Peek(lx)))

\* Every error in a string is reported at its opening quote.
ReadString(lx) ==
    LET Body(body) == IF body.ok THEN body ELSE Bad(lx) IN Body(ReadBody(Bump(lx), Peek(lx), <<>>))

ReadIdent(lx) ==
    LET last == SkipRun(lx, IdentChars) IN Read(last, Tok("ident", Between(lx, last), 0))

Singles == {"(", ")", "{", "}", "[", "]", ";", ",", "+", "*", "="}
Alone   == {"<", ">", ":"}

\* The signs of two characters.
Pair == (<<"!", "=">> :> "!=") @@ (<<"<", "=">> :> "<=") @@ (<<"<", "-">> :> "<-")
        @@ (<<">", "=">> :> ">=") @@ (<<":", ":">> :> "::") @@ (<<"-", ">">> :> "->")

\* The sign that the cursor is at; a lone ! or - is reported behind it.
ReadSign(lx) ==
    LET c    == Peek(lx)
        both == <<c, Peek2(lx)>>
    IN IF both \in DOMAIN Pair THEN Read(Bump2(lx), Sign(Pair[both]))
       ELSE CASE c \in Singles \cup Alone -> Read(Bump(lx), Sign(c))
              [] c = "-" /\ Peek2(lx) \in Digits    -> ReadNumber(Bump(lx), <<"-">>)
              [] c = "-" /\ Peek2(lx) \notin Digits -> Bad(Bump(lx))
              [] c = "!" -> Bad(Bump(lx))
              [] OTHER   -> Bad(lx)

ReadToken(lx) ==
    CASE Peek(lx) = End         -> Read(lx, Sign(End))
      [] Peek(lx) \in Quotes    -> ReadString(lx)
      [] Peek(lx) \in Digits    -> ReadNumber(lx, <<>>)
      [] Peek(lx) \in IdentStart -> ReadIdent(lx)
      [] OTHER                  -> ReadSign(lx)

\* The next token with the place where it begins.
NextToken(lx) ==
    LET Spanned(start, read) ==
            [ok |-> read.ok, lx |-> read.lx, spanned |-> [tok |-> read.tok, line |-> start.line, col |-> start.col]]
        Token(start) == IF start.ok THEN Spanned(start.lx, ReadToken(start.lx))
                        ELSE [ok |-> FALSE, lx |-> start.lx, spanned |-> <<>>]
    IN Token(SkipWs(lx))
=============================================================================
