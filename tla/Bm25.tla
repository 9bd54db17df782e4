-------------------------------- MODULE Bm25 --------------------------------
(***************************************************************************)
(* The lexical ranking of src/nqlite/src/bm25.rs: the tokenizer, the index *)
(* of one SELECT and Okapi's score, with k1 = 1.2 and b = 0.75.            *)
(*                                                                         *)
(* A text is a sequence of characters: "a", "b" and "1" stand for the      *)
(* alphanumeric ones, "A" and "B" for those in upper case, all others      *)
(* separate.  A score is counted in units of 1 / ScoreUnit and rounded     *)
(* down, term by term; the engine's is an f32.                             *)
(***************************************************************************)
EXTENDS Integers, Sequences, FiniteSetsExt, SequencesExt, Collections

\* The inverse document frequency of a token that df of n documents have, ln((n + 1)
\* / (df + 1/2)), in units of 1 / ScoreUnit: logarithms are the standard library's.
CONSTANT Idf(_, _)

LowerOf == [c \in {"a", "A", "b", "B", "1"} |-> CASE c = "A" -> "a" [] c = "B" -> "b" [] OTHER -> c]

Alphanumeric(c) == c \in DOMAIN LowerOf

\* Where the runs of alphanumeric characters begin.
Begins(text) ==
    {i \in DOMAIN text : Alphanumeric(text[i]) /\ (i > 1 => ~Alphanumeric(text[i - 1]))}

\* These runs, in lower case.
Tokenize(text) ==
    LET RunEnd(i)  == Max({j \in i .. Len(text) : \A k \in i .. j : Alphanumeric(text[k])})
        begins     == Ascending(Begins(text))
        Lower(run) == [c \in DOMAIN run |-> LowerOf[run[c]]]
    IN [t \in DOMAIN begins |-> Lower(SubSeq(text, begins[t], RunEnd(begins[t])))]

(***************************************************************************)
(* The index: of each document its tokens with their counts, and over all  *)
(* documents their number, the number of tokens and for each token how     *)
(* many documents have it.                                                 *)
(***************************************************************************)

EmptyIndex == [docs |-> <<>>, df |-> <<>>, n |-> 0, total |-> 0]

At0(map, key) == IF key \in DOMAIN map THEN map[key] ELSE 0

Occurrences(t, tokens) == Cardinality({k \in DOMAIN tokens : tokens[k] = t})

CountsOf(tokens) == [t \in Range(tokens) |-> Occurrences(t, tokens)]

\* A mutant of AddDocument: a text without tokens is no document.
AddDocumentWithTokens(index, id, text) ==
    LET counts == CountsOf(Tokenize(text)) IN
    IF DOMAIN counts = {} THEN index ELSE
    [docs  |-> Put(index.docs, id, counts),
     df    |-> [t \in DOMAIN index.df \cup DOMAIN counts |->
                  At0(index.df, t) + (IF t \in DOMAIN counts THEN 1 ELSE 0)],
     n     |-> index.n + 1,
     total |-> index.total + Total(counts)]

AddDocument(index, id, text) ==
    LET counts == CountsOf(Tokenize(text)) IN
    [docs  |-> Put(index.docs, id, counts),
     df    |-> [t \in DOMAIN index.df \cup DOMAIN counts |->
                  At0(index.df, t) + (IF t \in DOMAIN counts THEN 1 ELSE 0)],
     n     |-> index.n + 1,
     total |-> index.total + Total(counts)]

(***************************************************************************)
(* The score.                                                              *)
(***************************************************************************)

\* A mutant of TermScore: a longer document is not held back, but favoured.
TermScoreLonger(idf, tf, len, n, total) ==
    LET all == Max({total, n}) IN
    (idf * 22 * tf * all) \div ((10 * tf + 3) * all + (9 * n * all) \div len)

\* One term of a document with len tokens.  The average length is at least one.
TermScore(idf, tf, len, n, total) ==
    LET all == Max({total, n}) IN
    (idf * 22 * tf * all) \div ((10 * tf + 3) * all + 9 * len * n)

\* Each term once, however often the query has it.  A record without an entry scores
\* nothing.
LexicalScore(index, id, query) ==
    LET counts == IF id \in DOMAIN index.docs THEN index.docs[id] ELSE <<>>
    IN Total([t \in Range(query) \cap DOMAIN counts |->
                TermScore(Idf(index.n, index.df[t]), counts[t], Total(counts), index.n, index.total)])
=============================================================================
