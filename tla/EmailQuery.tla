------------------------------ MODULE EmailQuery ------------------------------
(***************************************************************************)
(* Email/query: the JMAP filter becomes the mailboxes to search and one    *)
(* IMAP SEARCH for each, and what is found is sorted by FETCHed values and *)
(* cut to a page.                                                          *)
(*                                                                         *)
(* A filter is the sequence of its nodes, the root first.  An operator has *)
(* the places of its arguments, which come later; a FilterCondition what   *)
(* it asks of the mailbox, the terms it wants and those it does not, and   *)
(* whether it has a property the bridge does not support.  An IMAP         *)
(* criterion is the set of messages the server finds by it; criteria side  *)
(* by side ask for all of them.                                            *)
(***************************************************************************)
EXTENDS Integers, Sequences, FiniteSets

CONSTANTS None,
    NativeKey, FetchedKey,  \* the sort keys that IMAP's SORT has, and the
                            \* bridge fetches values for
    Cases   \* the accounts' messages, in the order SEARCH finds them, and
            \* the filter, sort and page that a client asks for

VARIABLES mail, asked, answer

vars == <<mail, asked, answer>>

IsOperator(node) == "op" \in DOMAIN node

Scoped(node) == ~IsOperator(node) /\ node.box # None

NoValue == -1

Messages(s) == {s[i] : i \in DOMAIN s}

\* Every node but the root is the argument of one operator, once.
IsFilter(f) ==
    /\ f \in Seq(Messages(f)) \ {<< >>}
    /\ \A i \in DOMAIN f : IsOperator(f[i]) =>
         f[i].op \in {"AND", "OR", "NOT"} /\ f[i].args \in Seq((i + 1)..Len(f))
    /\ \A j \in DOMAIN f \ {1} :
         \E i \in DOMAIN f : IsOperator(f[i]) /\ j \in Messages(f[i].args)
    /\ \A i, j \in {n \in DOMAIN f : IsOperator(f[n])} :
         \A k \in DOMAIN f[i].args, l \in DOMAIN f[j].args :
             f[i].args[k] = f[j].args[l] => i = j /\ k = l

\* A sort key's values are numbers.
QueryAssumption ==
    \A case \in Cases :
        /\ case.mail \in Seq(Messages(case.mail))
        /\ case.asked.sort \in Seq(Messages(case.asked.sort))
        /\ \A msg \in Messages(case.mail), by \in Messages(case.asked.sort) :
               msg.value[by.key] \in Nat \cup {NoValue}
        /\ IsFilter(case.asked.filter)

Init ==
    /\ \E case \in Cases : mail = case.mail /\ asked = case.asked
    /\ answer = None

-----------------------------------------------------------------------------
\* The mailbox of the first condition with inMailbox, below AND only.
FindInMailbox(f) ==
    LET found[i \in DOMAIN f] ==
            IF ~IsOperator(f[i]) THEN f[i].box
            ELSE LET args   == f[i].args
                     scopes == {k \in DOMAIN args : found[args[k]] # None}
                 IN  IF f[i].op # "AND" \/ scopes = {} THEN None
                     ELSE found[args[CHOOSE k \in scopes : \A l \in scopes : k <= l]]
    IN  found[1]

HasAnyInMailbox(f) == \E i \in DOMAIN f : Scoped(f[i])

Unsupported(f) ==
    \E i \in DOMAIN f : IF IsOperator(f[i]) THEN f[i].args = << >> ELSE f[i].other

\* What the server finds by the criteria side by side, NOT of them, and OR.
All(criteria)   == {msg \in Messages(mail) : \A c \in criteria : msg \in c}
Not(group)      == Messages(mail) \ All(group)
Or(left, right) == All(left) \cup All(right)

TranslateCondition(c) ==
    {{msg \in Messages(mail) : t \in msg.has} : t \in c.wants}
    \cup {{msg \in Messages(mail) : t \notin msg.has} : t \in c.refuses}

\* Groups without criteria are left out.
Join(groups) == UNION Messages(groups)

\* Mutant: one NOT of all the conditions.
NotAll(groups) == IF Join(groups) = {} THEN {} ELSE {Not(Join(groups))}

Neither(groups) == {Not(group) : group \in Messages(groups) \ {{}}}

\* OR takes two operands.
Either(groups) ==
    LET acc[k \in 1..(Len(groups) + 1)] ==
            IF k > Len(groups) THEN {}
            ELSE IF groups[k] = {} THEN acc[k + 1]
            ELSE IF acc[k + 1] = {} THEN groups[k]
            ELSE {Or(groups[k], acc[k + 1])}
    IN  acc[1]

TranslateOperator(op, groups) ==
    CASE op = "AND" -> Join(groups)
      [] op = "OR"  -> Either(groups)
      [] op = "NOT" -> Neither(groups)

TranslateFilter(f) ==
    LET group[i \in DOMAIN f] ==
            IF ~IsOperator(f[i]) THEN TranslateCondition(f[i])
            ELSE TranslateOperator(f[i].op,
                     [k \in DOMAIN f[i].args |-> group[f[i].args[k]]])
    IN  group[1]

-----------------------------------------------------------------------------
\* S in the order of its relation `before`.
Ranked(S, before) ==
    [k \in 1..Cardinality(S) |->
        CHOOSE j \in S : Cardinality({i \in S : <<i, j>> \in before}) = k - 1]

\* Sorted by the bridge, missing values come last, or first when descending;
\* the server's SORT has them first.
Less(v, w, native) ==
    IF native THEN v < w ELSE v # NoValue /\ (w = NoValue \/ v < w)

\* The bridge has the values that it fetches.
SortValue(row, key, native) ==
    IF native \/ key \in FetchedKey THEN row.value[key] ELSE NoValue

SortBy(rows, by, native) ==
    LET places   == DOMAIN rows
        value(i) == SortValue(rows[i], by.key, native)
        Before(i, j) ==
            \/ IF by.ascending THEN Less(value(i), value(j), native)
                               ELSE Less(value(j), value(i), native)
            \/ value(i) = value(j) /\ i < j
        order == Ranked(places, {e \in places \X places : Before(e[1], e[2])})
    IN  [k \in DOMAIN order |-> rows[order[k]]]

\* Mutant: the first key is applied first.
ApplyForward(rows, sort, native) ==
    LET sorted[k \in 0..Len(sort)] ==
            IF k = 0 THEN rows ELSE SortBy(sorted[k - 1], sort[k], native)
    IN  sorted[Len(sort)]

\* Stable sorts, the last key first.
ApplySort(rows, sort, native) ==
    LET sorted[k \in 0..Len(sort)] ==
            IF k = 0 THEN rows
            ELSE SortBy(sorted[k - 1], sort[Len(sort) - k + 1], native)
    IN  sorted[Len(sort)]

\* One mailbox is sorted by the server, if it has SORT and all the keys are
\* its own; more than one, by the bridge.
MaySortNatively ==
    /\ FindInMailbox(asked.filter) # None
    /\ \A k \in DOMAIN asked.sort : asked.sort[k].key \in NativeKey

Found(filter) ==
    LET box  == FindInMailbox(filter)
        all  == All(TranslateFilter(filter))
        hits == {i \in DOMAIN mail : box \in {None, mail[i].box} /\ mail[i] \in all}
        rows == Ranked(hits, {e \in hits \X hits : e[1] < e[2]})
    IN  [k \in DOMAIN rows |-> mail[rows[k]]]

Page(rows) ==
    LET from == IF asked.page.position > 0 THEN asked.page.position ELSE 0
        left == Len(rows) - from
        size == IF asked.page.limit # None /\ asked.page.limit < left
                THEN asked.page.limit ELSE left
    IN  SubSeq(rows, from + 1, from + size)

Rejected ==
    \/ FindInMailbox(asked.filter) = None /\ HasAnyInMailbox(asked.filter)
    \/ Unsupported(asked.filter)

Query ==
    /\ answer = None
    /\ IF Rejected THEN answer' = [ok |-> FALSE]
       ELSE \E native \in BOOLEAN :
            LET rows == ApplySort(Found(asked.filter), asked.sort, native)
            IN  /\ native => MaySortNatively
                /\ answer' = [ok |-> TRUE, all |-> rows, ids |-> Page(rows)]
    /\ UNCHANGED <<mail, asked>>

Next == Query

Spec == Init /\ [][Next]_vars
-----------------------------------------------------------------------------
\* RFC 8621's meaning of a filter.
Matches(msg, f) ==
    LET match[i \in DOMAIN f] ==
            IF ~IsOperator(f[i])
              THEN /\ f[i].box \in {None, msg.box}
                   /\ f[i].wants \subseteq msg.has
                   /\ f[i].refuses \cap msg.has = {}
            ELSE CASE f[i].op = "AND" -> \A k \in DOMAIN f[i].args : match[f[i].args[k]]
                   [] f[i].op = "OR"  -> \E k \in DOMAIN f[i].args : match[f[i].args[k]]
                   [] f[i].op = "NOT" -> \A k \in DOMAIN f[i].args : ~match[f[i].args[k]]
    IN  match[1]

Answered == answer # None /\ answer.ok

\* What one SEARCH can express: one mailbox at most, and no condition of an
\* operator that is blank.
Expressible(f) ==
    /\ \A i, j \in DOMAIN f : Scoped(f[i]) /\ Scoped(f[j]) => i = j
    /\ \A i \in DOMAIN f \ {1} :
           IsOperator(f[i]) \/ Scoped(f[i]) \/ f[i].wants \cup f[i].refuses # {}

\* An answer has the messages that match the filter and no others.
Exact ==
    Answered =>
        Messages(answer.all) = {msg \in Messages(mail) : Matches(msg, asked.filter)}

\* email.py:382: "silently dropping part of a filter would violate" that
\* clients can trust the results.  An answer is exact, however the filter's
\* operators are nested.
Trusted == Expressible(asked.filter) => Exact

\* m comes before n by the first sort key on which they differ, if both have
\* a value for it.
Precedes(m, n, sort) ==
    \E k \in DOMAIN sort :
        LET v == m.value[sort[k].key] w == n.value[sort[k].key]
        IN  /\ \A j \in 1..(k - 1) : m.value[sort[j].key] = n.value[sort[j].key]
            /\ NoValue \notin {v, w}
            /\ IF sort[k].ascending THEN v < w ELSE w < v

\* An answer is in the order the client asked for.
InOrder ==
    Answered =>
        \A i, j \in DOMAIN answer.all :
            i < j => ~Precedes(answer.all[j], answer.all[i], asked.sort)

\* email.py:536: what is fetched is what is "needed to compute every requested
\* sort key".  An answer is in the order the client asked for, whoever sorts,
\* if the bridge fetches values for its keys.
Ordered == (\A k \in DOMAIN asked.sort : asked.sort[k].key \in FetchedKey) => InOrder
=============================================================================
