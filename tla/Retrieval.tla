------------------------------ MODULE Retrieval ------------------------------
(***************************************************************************)
(* SELECT: run_select as the pipeline it is, one action per stage.         *)
(*                                                                         *)
(* A query is deterministic once store and select are chosen. A record is  *)
(* known by the position of its id in the order of ids. What floating      *)
(* point computes from vectors is given with the record: its cosine        *)
(* similarity to the query vector if it has an embedding. So is its text,  *)
(* the string it has in the field a ::bm25 filter names, if it has one.    *)
(* The scores the engine computes from votes, ages and ranks are exact     *)
(* multiples of 1 / Unit and 1 / RankUnit, rounded down to them.           *)
(***************************************************************************)
EXTENDS ValueOrder, Bm25

CONSTANTS
    Families,   \* the queries asked: every sel of a family over every store of it
    Unit        \* scores from votes and ages are counted in 1 / Unit

ASSUME UnitAssumption == Unit \in Nat \ {0} /\ Unit % 2 = 0

\* Twice the number a value stands for.
Halves(v) == IF v[1] = "int" THEN 2 * v[2] ELSE v[2][1]
IsNumber(v) == v[1] \in {"int", "float"}

ASSUME FamiliesAsk == \A family \in Families : family.stores # {} /\ family.sels # {}

IsStore(s) ==
    /\ s.records \in Seq(Range(s.records)) /\ s.edges \in Seq(Range(s.edges)) /\ s.clock \in Int
    /\ \A rec \in Range(s.records) :
          /\ rec.similarity \in Seq(Int) /\ rec.text \in Seq(Seq(STRING)) /\ rec.created \in Int
          /\ Range(rec.body) \subseteq Within(MaxDepth)
          /\ "importance" \in DOMAIN rec.body /\ IsNumber(rec.body.importance) =>
                Halves(rec.body.importance) \in Int
    /\ \A edge \in Range(s.edges) :
          /\ edge.weight \in Seq(Int) /\ edge.created \in Int
          /\ edge.value # <<>> /\ IsNumber(edge.value[1]) => Halves(edge.value[1]) \in Int

IsSelect(q) ==
    /\ q.knn \in Seq(Nat) /\ q.bm25 \in Seq(Seq(Nat)) /\ q.limit \in Seq(Nat)
    /\ q.query \in Seq(STRING) /\ q.offset \in Nat
    /\ q.weights \in Seq(Int) /\ Len(q.weights) \in {0, 4}
    /\ q.bm25 # <<>> => q.terms = <<>>   \* Filter::Bm25 is the whole filter

ASSUME StoresTyped == \A family \in Families : \A s \in family.stores : IsStore(s)
ASSUME SelectsTyped == \A family \in Families : \A q \in family.sels : IsSelect(q)

RankUnit == 61 * 62 * 63

VARIABLES
    store, sel,    \* the query's input
    pc,            \* the stage run next
    candidates,    \* ids of the records the filter keeps, ascending
    bm25,          \* the index of their texts
    rows           \* [id, score, body]

vars == <<store, sel, pc, candidates, bm25, rows>>

Records == store.records
Body(i) == Records[i].body
Option(o, default) == IF o = <<>> THEN default ELSE o[1]

(***************************************************************************)
(* Filters. A term is <<operator, field, operand>>; all terms must hold.   *)
(***************************************************************************)

Compares(v, term) ==
    CASE term[1] = "eq" -> Same(v, term[3])
      [] term[1] = "ne" -> ~Same(v, term[3])
      [] term[1] = "lt" -> CmpTotal(v, term[3]) = -1
      [] term[1] = "le" -> CmpTotal(v, term[3]) # 1
      [] term[1] = "gt" -> CmpTotal(v, term[3]) = 1
      [] term[1] = "ge" -> CmpTotal(v, term[3]) # -1
      [] term[1] = "in" -> \E i \in DOMAIN term[3] : Same(v, term[3][i])
      [] term[1] = "between" -> /\ CmpTotal(v, term[3][1]) # -1
                                /\ CmpTotal(v, term[3][2]) # 1

\* A mutant of MatchesField: a record without the field is unequal to anything.
MatchesFieldAbsent(props, term) ==
    IF term[2] \in DOMAIN props THEN Compares(props[term[2]], term) ELSE term[1] = "ne"

\* A record that does not have the field never matches.
MatchesField(props, term) ==
    term[2] \in DOMAIN props /\ Compares(props[term[2]], term)

\* The pseudo-field id: the record's identity in display form, never a body field.
Display(i) == Str(i)

MatchesId(i, term) ==
    CASE term[1] = "eq" -> term[3] = Display(i)
      [] term[1] = "ne" -> term[3] # Display(i)
      [] term[1] = "in" -> \E j \in DOMAIN term[3] : term[3][j] = Display(i)
      [] OTHER -> FALSE

MatchesTerm(i, term) ==
    CASE term[1] = "embedded" -> Records[i].similarity # <<>>
      [] term[1] # "embedded" /\ term[2] = "id" -> MatchesId(i, term)
      [] OTHER -> MatchesField(Body(i), term)

InTable(i) == Records[i].table = sel.table
Matches(i) == InTable(i) /\ \A t \in DOMAIN sel.terms : MatchesTerm(i, sel.terms[t])

(***************************************************************************)
(* Scores of one record.                                                   *)
(***************************************************************************)

Clamp(score) == IF score < 0 THEN 0 ELSE IF score > Unit THEN Unit ELSE score

VotesToward(i) == {e \in DOMAIN store.edges : store.edges[e].voted /\ store.edges[e].to = i}

\* Sums what edges count.
Sum(Count(_), edges) == Total([e \in edges |-> Count(store.edges[e])])

\* A mutant of VoteWeight: a vote without a weight is an upvote, whatever its value.
VoteWeightUp(edge) == Option(edge.weight, 2)

VoteWeight(edge) ==
    IF edge.weight # <<>> THEN edge.weight[1]
    ELSE IF edge.value # <<>> /\ IsNumber(edge.value[1]) THEN Halves(edge.value[1])
    ELSE 2

VoteValue(edge) ==
    IF edge.value # <<>> /\ IsNumber(edge.value[1]) /\ Halves(edge.value[1]) \in {-2, 2}
    THEN Halves(edge.value[1]) \div 2 ELSE 0

ScoreOf(i) ==
    LET votes == VotesToward(i)
    IN  (Unit * (Sum(VoteWeight, votes) + 2)) \div (2 * (Cardinality(votes) + 2))

NetVotes(i) == Sum(VoteValue, VotesToward(i))

FeedbackScore(i) ==
    LET ages == {store.edges[e].created : e \in {d \in DOMAIN store.edges : store.edges[d].voted}}
    IN  Sum(LAMBDA edge : VoteValue(edge) * (Unit \div (1 + Max(ages) - edge.created)),
            VotesToward(i))

StrengthOf(i) ==
    LET age == Max({0, store.clock - Records[i].created})
        n == Cardinality({e \in DOMAIN store.edges : i \in {store.edges[e].from, store.edges[e].to}})
    IN  (Unit \div 2) \div (1 + age) + ((Unit \div 2) * n) \div (n + 1)

ImportanceOf(i) ==
    IF "importance" \in DOMAIN Body(i) /\ IsNumber(Body(i).importance)
    THEN Clamp((Unit \div 2) * Halves(Body(i).importance)) ELSE 0

(***************************************************************************)
(* Scores of a query.                                                      *)
(***************************************************************************)

Hybrid == sel.knn # <<>> /\ sel.bm25 # <<>>

\* knn_sims: what the index returns for the candidates; a record without an
\* embedding is not in it.
Similarity(i) == IF sel.knn = <<>> THEN 0 ELSE Option(Records[i].similarity, 0)
Lexical(i) == LexicalScore(bm25, i, Tokenize(sel.query))

\* Candidates by a score, descending, then by id.
Ranked(score) ==
    CHOOSE list \in Arrangements(candidates, LAMBDA i, j : score[i] > score[j]
                                                        \/ (score[i] = score[j] /\ i < j)) : TRUE

RankIn(list, i) == CHOOSE r \in DOMAIN list : list[r] = i

Fused(i) ==
    LET lexical    == [j \in Range(candidates) |-> Lexical(j)]
        similarity == [j \in Range(candidates) |-> Similarity(j)]
    IN  RankUnit \div (60 + RankIn(Ranked(lexical), i))
        + RankUnit \div (60 + RankIn(Ranked(similarity), i))

\* The four-term formula; weights in tenths.
Weighted(w, i) ==
    w[1] * Similarity(i) + w[2] * StrengthOf(i) + w[3] * ImportanceOf(i) + w[4] * Clamp(ScoreOf(i))

ComputeScore(i) ==
    CASE Hybrid -> Fused(i)
      [] ~Hybrid /\ sel.bm25 # <<>> -> Lexical(i)
      [] sel.bm25 = <<>> ->
           CASE sel.order = "score" -> ScoreOf(i)
             [] sel.order = "votes" -> NetVotes(i)
             [] sel.order = "feedback" -> FeedbackScore(i)
             [] sel.order = "salience" ->
                  IF sel.weights # <<>> THEN Weighted(sel.weights, i)
                  ELSE IF sel.knn # <<>> THEN Weighted(<<7, 0, 0, 3>>, i)
                  ELSE Clamp(ScoreOf(i))
             [] OTHER -> Similarity(i)

(***************************************************************************)
(* The pipeline.                                                           *)
(***************************************************************************)

Init ==
    /\ \E family \in Families : store \in family.stores /\ sel \in family.sels
    /\ pc = "scan"
    /\ candidates = <<>> /\ bm25 = EmptyIndex /\ rows = <<>>

Scan ==
    /\ pc = "scan"
    /\ candidates' = Ascending({i \in DOMAIN Records : Matches(i)})
    /\ pc' = IF sel.count THEN "count" ELSE IF sel.bm25 # <<>> THEN "index" ELSE "score"
    /\ UNCHANGED <<store, sel, bm25, rows>>

\* COUNT(*): one row, whatever else the query asks for.
CountRow ==
    /\ pc = "count"
    /\ rows' = <<[id |-> 0, score |-> 0, body |-> [count |-> Int64(Len(candidates))]]>>
    /\ pc' = "returned"
    /\ UNCHANGED <<store, sel, candidates, bm25>>

\* Indexes a record's text if it has one.
IndexText(records, index, i) ==
    IF records[i].text = <<>> THEN index ELSE AddDocument(index, i, records[i].text[1])

IndexTexts ==
    /\ pc = "index"
    /\ bm25' = FoldLeft(LAMBDA index, i : IndexText(Records, index, i), EmptyIndex, candidates)
    /\ pc' = "score"
    /\ UNCHANGED <<store, sel, candidates, rows>>

ScoreRows ==
    /\ pc = "score"
    /\ rows' = [r \in DOMAIN candidates |->
                  [id |-> candidates[r], score |-> ComputeScore(candidates[r]),
                   body |-> Body(candidates[r])]]
    /\ pc' = "order"
    /\ UNCHANGED <<store, sel, candidates, bm25>>

\* ORDER BY a field that no record of the table has, when there are rows.
UnknownSortField ==
    /\ sel.order = "field" /\ rows # <<>>
    /\ \A i \in DOMAIN Records : InTable(i) => sel.key \notin DOMAIN Body(i)

RefuseOrder ==
    /\ pc = "order" /\ UnknownSortField
    /\ rows' = <<>> /\ pc' = "refused"
    /\ UNCHANGED <<store, sel, candidates, bm25>>

KeyOf(row) == IF sel.key \in DOMAIN row.body THEN row.body[sel.key] ELSE Null

\* A mutant of Precedes: DESC reverses the ties too.
PrecedesReversed(x, y) ==
    LET c == IF sel.order = "field" THEN CmpTotal(KeyOf(x), KeyOf(y))
             ELSE IF sel.order = "recency"
             THEN CmpInt(Records[y.id].created, Records[x.id].created)
             ELSE CmpInt(y.score, x.score)
    IN  IF sel.desc THEN c = 1 \/ (c = 0 /\ x.id > y.id) ELSE c = -1 \/ (c = 0 /\ x.id < y.id)

\* The comparisons of order_rows: ties always by ascending id. Without an order, a
\* vector or a text the rows stay as they are, which is the same: all scores are 0.
Precedes(x, y) ==
    LET c == CASE sel.order = "field" ->
                    (IF sel.desc THEN -1 ELSE 1) * CmpTotal(KeyOf(x), KeyOf(y))
               [] sel.order = "recency" -> CmpInt(Records[y.id].created, Records[x.id].created)
               [] OTHER -> CmpInt(y.score, x.score)
    IN  c = -1 \/ (c = 0 /\ x.id < y.id)

OrderRows ==
    /\ pc = "order" /\ ~UnknownSortField
    /\ rows' \in Arrangements(rows, Precedes)
    /\ pc' = "skip"
    /\ UNCHANGED <<store, sel, candidates, bm25>>

SkipRows ==
    /\ pc = "skip"
    /\ rows' = SubSeq(rows, Min({sel.offset, Len(rows)}) + 1, Len(rows))
    /\ pc' = "cap"
    /\ UNCHANGED <<store, sel, candidates, bm25>>

\* effective_limit: the smallest of the caps the query has.
Caps == Range(sel.knn) \cup Range(Option(sel.bm25, <<>>)) \cup Range(sel.limit)

CapRows ==
    /\ pc = "cap"
    /\ rows' = SubSeq(rows, 1, Min(Caps \cup {Len(rows)}))
    /\ pc' = "project"
    /\ UNCHANGED <<store, sel, candidates, bm25>>

Project ==
    /\ pc = "project"
    /\ rows' = [r \in DOMAIN rows |->
                  [rows[r] EXCEPT !.body =
                     LET kept == IF sel.fields = <<>> THEN DOMAIN @ ELSE DOMAIN @ \cap sel.fields[1]
                     IN  [k \in kept |-> @[k]]]]
    /\ pc' = "returned"
    /\ UNCHANGED <<store, sel, candidates, bm25>>

Next ==
    \/ Scan \/ CountRow \/ IndexTexts \/ ScoreRows \/ RefuseOrder \/ OrderRows
    \/ SkipRows \/ CapRows \/ Project

Spec == Init /\ [][Next]_vars

(***************************************************************************)
(* Properties.                                                             *)
(***************************************************************************)

\* The values the records hold.
Values == UNION {Range(Body(i)) : i \in DOMAIN Records}

\* Value::cmp_total is a total order of any values a store holds (up to values it
\* finds equal), and equal values are not apart in it: unless there is a NaN with its
\* sign set, or a vector with a zero that has its sign set.
OrderTotal ==
    pc = "scan" =>
        \A x, y \in Values \cup {Null} :
            /\ CmpTotal(x, y) \in {-1, 0, 1} /\ CmpTotal(x, y) = -CmpTotal(y, x)
            /\ Same(x, y) => CmpTotal(x, y) = 0
            /\ \A z \in Values \cup {Null} : CmpTotal(x, y) # 1 /\ CmpTotal(y, z) # 1 => CmpTotal(x, z) # 1

\* Of a record with the field exactly one of "=" and "!=" holds, of "<" and ">=", and of
\* "<=" and ">"; BETWEEN is ">=" and "<=", IN is "=" of one of them. A record without the
\* field matches nothing. Of the id, "!=" is the complement of "=".
PredicatesPartition ==
    pc = "scan" =>
        \A i \in DOMAIN Records, v \in Values :
            LET Holds(op, operand) == MatchesTerm(i, <<op, "key", operand>>)
                Id(op) == MatchesTerm(i, <<op, "id", v>>)
            IN  /\ Holds("eq", v) \/ Holds("ne", v) <=> "key" \in DOMAIN Body(i)
                /\ ~(Holds("eq", v) /\ Holds("ne", v))
                /\ Holds("le", v) \/ Holds("gt", v) <=> "key" \in DOMAIN Body(i)
                /\ Holds("lt", v) \/ Holds("ge", v) <=> "key" \in DOMAIN Body(i)
                /\ ~(Holds("le", v) /\ Holds("gt", v)) /\ ~(Holds("lt", v) /\ Holds("ge", v))
                /\ \A w \in Values :
                      /\ Holds("between", <<v, w>>) <=> Holds("ge", v) /\ Holds("le", w)
                      /\ Holds("in", <<v, w>>) <=> Holds("eq", v) \/ Holds("eq", w)
                /\ Id("eq") # Id("ne")

\* Votes that carry a value and no weight: with as many votes, ::score ranks two
\* records as ::votes does, and if the votes are of one age, so does ::feedback.
VotesAgree ==
    pc = "score" =>
        \A i, j \in Range(candidates) :
            LET votes == {store.edges[e] : e \in VotesToward(i) \cup VotesToward(j)}
            IN  /\ Cardinality(VotesToward(i)) = Cardinality(VotesToward(j))
                /\ \A edge \in votes : edge.weight = <<>> /\ VoteValue(edge) # 0
                => /\ ScoreOf(i) > ScoreOf(j) <=> NetVotes(i) > NetVotes(j)
                   /\ (\A edge, other \in votes : edge.created = other.created) =>
                         (FeedbackScore(i) > FeedbackScore(j) <=> NetVotes(i) > NetVotes(j))

Matching == {i \in DOMAIN Records : Matches(i)}

\* The matching records with a text, and the tokens of one.
Documents == {i \in Matching : Records[i].text # <<>>}
Tokens(i) == Tokenize(Records[i].text[1])

\* The Okapi score of a matching record, from the texts and not from an index.
Relevance(i) ==
    LET Term(t) == TermScore(Idf(Cardinality(Documents),
                                 Cardinality({j \in Documents : t \in Range(Tokens(j))})),
                             Occurrences(t, Tokens(i)), Len(Tokens(i)), Cardinality(Documents),
                             Total([j \in Documents |-> Len(Tokens(j))]))
    IN  IF i \notin Documents THEN 0
        ELSE Total([t \in Range(Tokenize(sel.query)) \cap Range(Tokens(i)) |-> Term(t)])

\* The rank of a matching record by a score, without sorting anything.
RankBy(score, i) ==
    Cardinality({j \in Matching : score[j] > score[i] \/ (score[j] = score[i] /\ j <= i)})

\* The score of a row in the mode the query runs in (spec/nql.md, section 2.3): hybrid,
\* bm25, then the operator of the order, then kNN.
ModeScore(i) ==
    IF Hybrid THEN RankUnit \div (60 + RankBy([j \in Matching |-> Relevance(j)], i))
                   + RankUnit \div (60 + RankBy([j \in Matching |-> Similarity(j)], i))
    ELSE IF sel.bm25 # <<>> THEN Relevance(i)
    ELSE IF sel.order = "score" THEN ScoreOf(i)
    ELSE IF sel.order = "votes" THEN NetVotes(i)
    ELSE IF sel.order = "feedback" THEN FeedbackScore(i)
    ELSE IF sel.order = "salience" /\ sel.weights # <<>> THEN Weighted(sel.weights, i)
    ELSE IF sel.order = "salience" /\ sel.knn # <<>> THEN 7 * Similarity(i) + 3 * Clamp(ScoreOf(i))
    ELSE IF sel.order = "salience" THEN Clamp(ScoreOf(i))
    ELSE Similarity(i)

SortKey(i) == IF sel.key \in DOMAIN Body(i) THEN Body(i)[sel.key] ELSE Null

Before(i, j) ==
    LET c == IF sel.order = "field" /\ sel.desc THEN CmpTotal(SortKey(j), SortKey(i))
             ELSE IF sel.order = "field" THEN CmpTotal(SortKey(i), SortKey(j))
             ELSE IF sel.order = "recency" THEN CmpInt(Records[j].created, Records[i].created)
             ELSE CmpInt(ModeScore(j), ModeScore(i))
    IN  c < 0 \/ (c = 0 /\ i < j)

\* A page is exact: its r-th row is the matching record that exactly offset + r - 1
\* others come before, and it has as many rows as there are, up to the smallest cap.
\* Pages of one query therefore never overlap or leave a record out. A count is the
\* number of matching records.
PageExact ==
    pc = "returned" =>
        IF sel.count THEN rows[1].body.count = Int64(Cardinality(Matching))
        ELSE /\ Len(rows) = Min(Caps \cup {Max({0, Cardinality(Matching) - sel.offset})})
             /\ \A r \in DOMAIN rows :
                   /\ rows[r].id \in Matching
                   /\ Cardinality({j \in Matching : Before(j, rows[r].id)}) = sel.offset + r - 1

\* A record has a lexical score exactly when it shares a token with the query. One
\* that has every term of the query as often as another and is no longer scores no
\* less.
LexicalMonotone ==
    pc = "score" /\ sel.bm25 # <<>> =>
        LET query == Range(Tokenize(sel.query))
            Words(i) == IF Records[i].text = <<>> THEN <<>> ELSE Tokens(i)
        IN  \A i \in Range(candidates) :
                /\ Lexical(i) > 0 <=> query \cap Range(Words(i)) # {}
                /\ \A j \in Range(candidates) :
                      /\ \A t \in query : Occurrences(t, Words(i)) >= Occurrences(t, Words(j))
                      /\ Len(Words(i)) <= Len(Words(j))
                      => Lexical(i) >= Lexical(j)

\* A row shows the score of the mode, also where another order sorts it, and its body
\* is the record's, restricted to the fields selected.
RowsShown ==
    pc = "returned" /\ ~sel.count =>
        \A r \in DOMAIN rows :
            /\ rows[r].score = ModeScore(rows[r].id)
            /\ \A k \in DOMAIN Body(rows[r].id) :
                  IF sel.fields = <<>> \/ k \in sel.fields[1]
                  THEN k \in DOMAIN rows[r].body /\ rows[r].body[k] = Body(rows[r].id)[k]
                  ELSE k \notin DOMAIN rows[r].body

(***************************************************************************)
(* Units.  The engine's scores are rounded too, but not to a unit; these   *)
(* are so fine that what the last properties compare stays apart.          *)
(***************************************************************************)

\* In units of 1 / ScoreUnit, the inverse document frequency of a token is at least
\* the number of documents, for as many as a store can have.
FineIdf(s) ==
    \A n \in 1 .. Len(s.records) : \A df \in 1..n : Idf(n, df) \in Nat /\ n <= Idf(n, df)

IdfFine == \A family \in Families : \A s \in family.stores : FineIdf(s)

\* 1 / Unit separates the scores of any two records of a store with as many votes, and
\* no vote of a store is so old that it counts nothing.
FineUnit(s) ==
    /\ Len(s.edges) + 2 <= Unit
    /\ \A edge, other \in Range(s.edges) : edge.created - other.created < Unit

UnitFine == \A family \in Families : \A s \in family.stores : FineUnit(s)
==============================================================================
