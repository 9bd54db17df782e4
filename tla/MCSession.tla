----------------------------- MODULE MCSession -------------------------------
(* A small instance of Session: one table at the root and in one memory, two *)
(* dimensions, lines that fail half-way once the history has been pruned,    *)
(* and tools called with arguments of every kind.                            *)
EXTENDS Session

CONSTANT mem

a == <<"t", "a">>

Create(dim) == CreateTable("t", dim)
Since == <<[op |-> "since", ts |-> 0]>>
Memory == <<[op |-> "memory", name |-> mem]>>
Prune == <<[op |-> "prune"]>>
Select(order) == SelectRows("t", Root, order, <<>>)

MCLines ==
    {Create(2), Prune, InsertRecord(a, 2), Select("similarity"),
     Create(2) \o Since, Since \o Create(3), Memory \o Create(3), Memory \o InsertRecord(a, 3)}

MCTexts == {a, <<"t">>, <<"t", "">>, <<"", "a">>}

Number == <<"number", 1>>
Word(text) == <<"string", text>>
MCJsons ==
    {Number, <<"object", <<>>>>, <<"array", <<Number, Number>>>>,
     <<"array", <<Number, Word("a")>>>>}
    \cup {<<"array", <<<<"object", step>>>>>> :
            step \in {[direction |-> Word("out"), name |-> Word("edge")], [name |-> Word("edge")],
                      [direction |-> Word("up"), name |-> Word("edge")],
                      [direction |-> Word("in"), name |-> Word("edge"), where |-> <<"object", <<>>>>]}}

\* A history that says it was compacted at time 1.
MCDecodings == {<<[ts |-> 1, stmt |-> [op |-> "snapshot", state |-> EmptyStore]]>>}

MCIds == {a, <<"meta", "a">>}
==============================================================================
