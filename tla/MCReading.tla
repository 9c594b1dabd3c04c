------------------------------ MODULE MCReading ------------------------------
EXTENDS Reading

CONSTANTS a, b, p, q, Key

-----------------------------------------------------------------------------
\* Filters: conditions, and operators of two levels on them.
UpTo(S, n) == UNION {[1..k -> S] : k \in 0..n}

Condition(in, wants, refuses) ==
    <<[box |-> in, wants |-> wants, refuses |-> refuses, other |-> FALSE]>>

Plain == {Condition(Absent, {p}, {}), Condition(Absent, {p}, {q}), Condition(Absent, {}, {q})}
Blank == {Condition(Absent, {}, {})}
InBox == {Condition(a, {}, {}), Condition(b, {q}, {})}
Other == {[Condition(Absent, {p}, {}) EXCEPT ![1].other = TRUE]}

\* A tree's nodes at other places, and an operator of up to two trees.
Moved(tree, by) ==
    [i \in DOMAIN tree |->
        IF "args" \in DOMAIN tree[i]
        THEN [tree[i] EXCEPT !.args = [k \in DOMAIN @ |-> @[k] + by]] ELSE tree[i]]

Operator(op, trees) ==
    LET first  == IF Len(trees) >= 1 THEN Moved(trees[1], 1) ELSE << >>
        second == IF Len(trees) = 2 THEN Moved(trees[2], 1 + Len(first)) ELSE << >>
        args   == <<2, 2 + Len(first)>>
    IN  <<[op |-> op, args |-> SubSeq(args, 1, Len(trees))]>> \o first \o second

Over(S, n) == {Operator(op, trees) : op \in {"AND", "OR", "NOT"}, trees \in UpTo(S, n)}
Trees(S) == S \cup Over(S \cup Over(S, 2), 2)

HasBox(node) == "box" \in DOMAIN node /\ node.box # Absent

OneScope ==
    {f \in Trees(Plain \cup InBox) : Cardinality({i \in DOMAIN f : HasBox(f[i])}) <= 1}
    \cup Over(Plain \cup Other, 2)
Blanks   == Trees({Condition(Absent, {p}, {})} \cup Blank)
TwoScopes == Trees({Condition(Absent, {p}, {}), Condition(a, {}, {})})
OneOrAll  == {Condition(Absent, {}, {}), Condition(a, {}, {})}

Same == [k \in Key |-> 0]
OneOfEach ==
    {<<[box |-> a, has |-> {}, value |-> Same], [box |-> a, has |-> {p}, value |-> Same],
       [box |-> a, has |-> {q}, value |-> Same], [box |-> a, has |-> {p, q}, value |-> Same],
       [box |-> b, has |-> {}, value |-> Same], [box |-> b, has |-> {p}, value |-> Same],
       [box |-> b, has |-> {q}, value |-> Same], [box |-> b, has |-> {p, q}, value |-> Same]>>}
\* hasKeyword is 0 or 1 for every message; a subject may be missing, -1.
Valued ==
    [1..3 -> [box : {a}, has : {{}},
              value : {v \in [Key -> {-1, 0, 1}] : v["hasKeyword"] # -1}]]

NoSort == {<< >>}
AllSorts == UpTo([key : Key, ascending : BOOLEAN], 2)
WholePage == {[position |-> 0, limit |-> Absent]}
SomePages == [position : {0, 1}, limit : {Absent, 2}]

Asks(mails, filters, sorts, pages) ==
    [mail : mails, asked : [filter : filters, sort : sorts, page : pages]]

FilterCases == Asks(OneOfEach, OneScope, NoSort, WholePage)
SortCases   == Asks(Valued, OneOrAll, AllSorts, SomePages)
Everything  == FilterCases \cup SortCases

\* Of what is left out: conditions without criteria, second mailboxes.
BlankCases == Asks(OneOfEach, Blanks, NoSort, WholePage)
ScopeCases == Asks(OneOfEach, TwoScopes, NoSort, WholePage)

-----------------------------------------------------------------------------
\* MIME trees.
Alone(type, attached, readable) ==
    <<[type |-> type, attached |-> attached, readable |-> readable, parts |-> << >>]>>

MimeLeaves ==
    {Alone("plain", FALSE, TRUE), Alone("plain", TRUE, TRUE), Alone("plain", FALSE, FALSE),
     Alone("html", FALSE, TRUE), Alone("html", FALSE, FALSE), Alone("other", FALSE, TRUE)}

Shifted(msg, by) ==
    [i \in DOMAIN msg |-> [msg[i] EXCEPT !.parts = [k \in DOMAIN @ |-> @[k] + by]]]

\* A part with up to three messages in it.
Container(type, attached, msgs) ==
    LET Length(k) == IF k \in DOMAIN msgs THEN Len(msgs[k]) ELSE 0
        at == <<2, 2 + Length(1), 2 + Length(1) + Length(2)>>
        Inside(k) == IF k \in DOMAIN msgs THEN Shifted(msgs[k], at[k] - 1) ELSE << >>
    IN  <<[type |-> type, attached |-> attached, readable |-> TRUE,
           parts |-> SubSeq(at, 1, Len(msgs))]>> \o Inside(1) \o Inside(2) \o Inside(3)

Wrapped(S, n) ==
    {Container("multipart", FALSE, msgs) : msgs \in UpTo(S, n) \ {<< >>}}
    \cup {Container("rfc822", attached, <<msg>>) : attached \in BOOLEAN, msg \in S}

Shallow == MimeLeaves \cup Wrapped(MimeLeaves, 2)

\* Parts of the other message/* types: a bounce's status has two blocks, all
\* others one message.  They are sent alone, or after a text and before
\* another part, and they hold a text, a tree, or one another.
Block   == Alone("plain", FALSE, TRUE)
Opaque  == {Container("message", attached, <<msg>>) :
                attached \in BOOLEAN, msg \in Shallow}
           \cup {Container("message", FALSE, <<Block, Block>>),
                 Container("message", FALSE, <<Container("message", FALSE, <<Block>>)>>)}
Reports == Opaque \cup
           {Container("multipart", FALSE, <<Block, part, last>>) :
                part \in Opaque,
                last \in {Alone("html", FALSE, TRUE), Container("rfc822", FALSE, <<Block>>)}}

MimeTrees == MimeLeaves \cup Wrapped(MimeLeaves, 3) \cup Wrapped(Shallow, 2) \cup Reports
=============================================================================
