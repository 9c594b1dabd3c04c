----------------------------- MODULE DavState_proofs -----------------------------
(***************************************************************************)
(* What a client is not told of is right, if renames never go back, and    *)
(* what a query of cards showed is right while its state is, for all       *)
(* collections, names and bounds.                                          *)
(***************************************************************************)
EXTENDS DavState, SequenceTheorems, TLAPS

\* Everything ever read is of a collection that is older than the reading,
\* and that, if it is still there, has moved on if it has changed: its name if
\* renames never go back, its token always.
NotAfter(old, new) == Forward => old <= new

PastName(h, name) ==
    h \in used /\ (h \in DOMAIN coll => NotAfter(name, coll[h].name))

PastToken(h, token) ==
    h \in used /\ (h \in DOMAIN coll => token <= coll[h].token)

PastEntries(f) ==
    \A h \in DOMAIN f : PastName(h, f[h].name) /\ PastToken(h, f[h].token)

PastNames(f) == \A h \in DOMAIN f : PastName(h, f[h])

PastTokens(f) == \A h \in DOMAIN f : PastToken(h, f[h])

PastCall ==
    /\ PastNames(call.names) /\ PastTokens(call.seen)
    /\ PastEntries(call.got) /\ PastEntries(call.since)
    /\ call.todo \subseteq used /\ call.ids \subseteq used

PastKept ==
    /\ \A h \in DOMAIN coll : coll[h].token <= clock
    /\ PastNames(mirror) /\ PastEntries(cursor)
    /\ PastTokens(view.seen) /\ PastEntries(view.state)

Past == PastCall /\ PastKept

\* The client's names are not older than its cursors.
Followed ==
    /\ DOMAIN mirror \subseteq DOMAIN cursor
    /\ unread = 0 => \A h \in DOMAIN coll \cap DOMAIN cursor :
                        h \in DOMAIN mirror /\ NotAfter(cursor[h].name, mirror[h])

\* The Foo/get after a Foo/changes: it is of what changed, its listing is not
\* older than the state, and it leaves out nothing that is there.
Pending ==
    call.op = "update" =>
        /\ call.gone = Destroyed(cursor, call.since)
        /\ call.ids = Created(cursor, call.since) \cup Updated(cursor, call.since)
        /\ call.plan \in {<<"list">>, <<"read">>, << >>}
        /\ unread = 0 => \A h \in call.ids \cap DOMAIN coll :
              /\ h \in DOMAIN call.names => NotAfter(call.since[h].name, call.names[h])
              /\ h \in DOMAIN call.got => NotAfter(call.since[h].name, call.got[h].name)
        /\ call.plan = <<"read">> =>
              call.ids \cap DOMAIN coll \subseteq call.todo \cup DOMAIN call.got
        /\ call.plan = << >> =>
              call.ids \cap DOMAIN coll \subseteq DOMAIN call.got

\* A query of cards reads no members before its state is complete.
StateFirst ==
    kind = "addressbook" /\ call.op = "query" =>
        /\ call.plan \in {<<"hrefs", "list", "members">>, <<"list", "members">>,
                          <<"read", "members">>, <<"members">>, << >>}
        /\ call.plan \in {<<"members">>, << >>} \/ DOMAIN call.seen = {}
        /\ \A h \in DOMAIN coll \cap DOMAIN call.seen \cap DOMAIN call.got :
              call.got[h].token <= call.seen[h]

Shown ==
    kind = "addressbook" /\ view.by = "query" =>
        \A h \in DOMAIN coll \cap DOMAIN view.seen \cap DOMAIN view.state :
            view.state[h].token <= view.seen[h]

\* Names are held only while tokens are being read.
Unnamed == Phase # "read" => DOMAIN call.names = {}

IInv == TypeOK /\ Past /\ Followed /\ Pending /\ StateFirst /\ Shown /\ Unnamed

-----------------------------------------------------------------------------
\* Maps from hrefs.
LEMMA MapIs ==
    ASSUME NEW V, NEW f \in Maps(V)
    PROVE  DOMAIN f \subseteq Href /\ f \in [DOMAIN f -> V]
BY DEF Maps

LEMMA IsMap ==
    ASSUME NEW V, NEW S \in SUBSET Href, NEW f \in [S -> V]
    PROVE  f \in Maps(V)
BY DEF Maps

LEMMA EmptyIn == ASSUME NEW V PROVE Empty \in Maps(V)
<1>1. Empty \in [{} -> V]
  BY DEF Empty
<1> QED BY <1>1, IsMap, Zenon

LEMMA WithIn ==
    ASSUME NEW V, NEW f \in Maps(V), NEW h \in Href, NEW v \in V
    PROVE  With(f, h, v) \in Maps(V)
<1>1. DOMAIN f \cup {h} \in SUBSET Href /\ f \in [DOMAIN f -> V]
  BY MapIs
<1>2. With(f, h, v) \in [DOMAIN f \cup {h} -> V]
  BY <1>1 DEF With
<1> QED BY <1>1, <1>2, IsMap, Zenon

LEMMA WithoutIn ==
    ASSUME NEW V, NEW f \in Maps(V), NEW S
    PROVE  Without(f, S) \in Maps(V)
<1>1. DOMAIN f \ S \in SUBSET Href /\ f \in [DOMAIN f -> V]
  BY MapIs
<1>2. Without(f, S) \in [DOMAIN f \ S -> V]
  BY <1>1 DEF Without
<1> QED BY <1>1, <1>2, IsMap, Zenon

\* No call, and a call that begins.
CallType ==
    [op : {"idle", "get", "changes", "update", "query", "fetch"},
     plan : Seq({"hrefs", "list", "read", "members"}),
     todo : SUBSET Href, names : Maps(Title), got : Maps(Entry),
     seen : Maps(0..MaxChanges), since : Maps(Entry), ids : SUBSET Href,
     gone : SUBSET Href]

LEMMA CallIn ==
    ASSUME NEW op \in {"idle", "get", "changes", "update", "query", "fetch"},
           NEW plan \in Seq({"hrefs", "list", "read", "members"})
    PROVE  Call(op, plan) \in CallType
BY EmptyIn DEF Call, CallType

LEMMA IdleIn == Idle \in CallType /\ DOMAIN Idle.names \subseteq Idle.todo
<1>1. << >> \in Seq({"hrefs", "list", "read", "members"})
  OBVIOUS
<1> QED BY <1>1, CallIn DEF Idle, Call, Empty

LEMMA ViewIn ==
    NoView \in [by : {"nobody", "query", "fetch"}, state : Maps(Entry),
               seen : Maps(0..MaxChanges)]
BY EmptyIn DEF NoView

LEMMA InitIs == Init => IInv
<1> SUFFICES ASSUME Init PROVE IInv
  OBVIOUS
<1>1. TypeOK
  <2>1. call \in CallType /\ DOMAIN call.names \subseteq call.todo
    BY IdleIn DEF Init
  <2>2. view \in [by : {"nobody", "query", "fetch"}, state : Maps(Entry),
                 seen : Maps(0..MaxChanges)]
    BY ViewIn DEF Init
  <2>3. coll \in Maps(Entry) /\ mirror \in Maps(Title) /\ cursor \in Maps(Entry)
    BY EmptyIn DEF Init
  <2>4. DOMAIN coll \subseteq used
    BY DEF Init, Empty
  <2> QED BY <2>1, <2>2, <2>3, <2>4, DavAssumption DEF Init, TypeOK, CallType
<1>2. Past
  BY DEF Init, Past, PastCall, PastKept, PastNames, PastTokens, PastEntries, Empty, NoView, Idle, Call
<1>3. Followed
  BY DEF Init, Followed, Empty
<1>4. Pending /\ StateFirst /\ Shown /\ Unnamed
  BY DEF Init, Pending, StateFirst, Shown, Unnamed, NoView, Idle, Call, Empty
<1> QED BY <1>1, <1>2, <1>3, <1>4 DEF IInv

-----------------------------------------------------------------------------
\* Names and tokens are numbers.
LEMMA EntryOf ==
    ASSUME NEW f \in Maps(Entry), NEW h \in DOMAIN f
    PROVE  /\ h \in Href /\ f[h] \in Entry
           /\ f[h].name \in Title /\ f[h].name \in Nat
           /\ f[h].token \in 0..MaxChanges /\ f[h].token \in Nat
<1>1. DOMAIN f \subseteq Href /\ f \in [DOMAIN f -> Entry]
  BY MapIs
<1> QED BY <1>1, DavAssumption DEF Entry, Title, None

LEMMA TitleOf ==
    ASSUME NEW f \in Maps(Title), NEW h \in DOMAIN f
    PROVE  h \in Href /\ f[h] \in Title /\ f[h] \in Nat
<1>1. DOMAIN f \subseteq Href /\ f \in [DOMAIN f -> Title]
  BY MapIs
<1> QED BY <1>1, DavAssumption DEF Title, None

LEMMA TokenOf ==
    ASSUME NEW f \in Maps(0..MaxChanges), NEW h \in DOMAIN f
    PROVE  h \in Href /\ f[h] \in 0..MaxChanges /\ f[h] \in Nat
<1>1. DOMAIN f \subseteq Href /\ f \in [DOMAIN f -> 0..MaxChanges]
  BY MapIs
<1> QED BY <1>1, DavAssumption

\* A change: collections there before and after have moved on.
Grows ==
    /\ used \subseteq used'
    /\ \A h \in used : h \in DOMAIN coll' =>
          /\ h \in DOMAIN coll
          /\ NotAfter(coll[h].name, coll'[h].name) /\ coll[h].token <= coll'[h].token
    /\ \A h \in DOMAIN coll' : coll'[h].token <= clock'

LEMMA PutGrows ==
    ASSUME IInv, NEW h \in Href, NEW name \in Title, NEW token \in 0..MaxChanges,
           Change, used' \in {used, used \cup {h}}, h \in used',
           token <= clock',
           coll' = With(coll, h, Cursor(name, token)),
           h \in used => /\ h \in DOMAIN coll
                         /\ NotAfter(coll[h].name, name) /\ coll[h].token <= token
    PROVE  TypeOK' /\ Grows
<1>1. Cursor(name, token) \in Entry
  BY DEF Cursor, Entry
<1>2. coll \in Maps(Entry) /\ DOMAIN coll \subseteq used
  BY DEF IInv, TypeOK
<1>3. coll' \in Maps(Entry)
  BY <1>1, <1>2, WithIn
<1>4. /\ DOMAIN coll' = DOMAIN coll \cup {h}
      /\ coll'[h] = Cursor(name, token)
      /\ \A x \in DOMAIN coll \ {h} : coll'[x] = coll[x]
  BY DEF With
<1>5. clock' \in 0..MaxChanges /\ clock' = clock + 1 /\ clock \in Nat
  BY DavAssumption DEF Change, IInv, TypeOK
<1>6. TypeOK'
  BY <1>2, <1>3, <1>4, <1>5 DEF Change, IInv, TypeOK
<1>7. \A x \in DOMAIN coll : coll[x].token <= clock
                               /\ coll[x].name \in Nat /\ coll[x].token \in Nat
  BY <1>2, EntryOf DEF IInv, Past, PastKept
<1>8. \A x \in used : x \in DOMAIN coll' =>
          /\ x \in DOMAIN coll
          /\ NotAfter(coll[x].name, coll'[x].name) /\ coll[x].token <= coll'[x].token
  <2> SUFFICES ASSUME NEW x \in used, x \in DOMAIN coll'
               PROVE  /\ x \in DOMAIN coll
                      /\ NotAfter(coll[x].name, coll'[x].name)
                      /\ coll[x].token <= coll'[x].token
    OBVIOUS
  <2>1. CASE x = h
    BY <2>1, <1>4 DEF Cursor
  <2>2. CASE x # h
    BY <2>2, <1>4, <1>7 DEF NotAfter
  <2> QED BY <2>1, <2>2
<1>9. \A x \in DOMAIN coll' : coll'[x].token <= clock'
  <2> SUFFICES ASSUME NEW x \in DOMAIN coll' PROVE coll'[x].token <= clock'
    OBVIOUS
  <2>1. CASE x = h
    BY <2>1, <1>4 DEF Cursor
  <2>2. CASE x # h
    BY <2>2, <1>4, <1>5, <1>7
  <2> QED BY <2>1, <2>2
<1> QED BY <1>6, <1>8, <1>9 DEF Grows

LEMMA ChangingGrows ==
    ASSUME IInv, Changing
    PROVE  /\ TypeOK' /\ Grows
           /\ UNCHANGED <<kind, mirror, cursor, view, call, unread>>
<1>0. PICK h \in Href :
          \/ \E name \in Name : Create(h, name) \/ Rename(h, name)
          \/ Delete(h) \/ EditMember(h)
  BY DEF Changing
<1>1. coll \in Maps(Entry) /\ DOMAIN coll \subseteq used
  BY DEF IInv, TypeOK
<1>2. \A x \in DOMAIN coll :
        /\ coll[x].token <= clock /\ coll[x].token \in 0..MaxChanges
        /\ coll[x].name \in Nat /\ coll[x].token \in Nat
  BY <1>1, EntryOf DEF IInv, Past, PastKept
<1>3. clock \in Nat /\ (clock < MaxChanges => clock + 1 \in 0..MaxChanges)
  BY DavAssumption DEF IInv, TypeOK
<1>4. CASE \E name \in Name : Create(h, name)
  <2>1. PICK name \in Name : Create(h, name)
    BY <1>4
  <2>2. Change /\ clock' \in 0..MaxChanges /\ clock' <= clock'
    BY <2>1, <1>3 DEF Create, Change
  <2>3. name \in Title
    BY DEF Title
  <2>4. TypeOK' /\ Grows
    BY <2>1, <2>2, <2>3, PutGrows DEF Create
  <2> QED BY <2>2, <2>4 DEF Change
<1>5. CASE \E name \in Name : Rename(h, name)
  <2>1. PICK name \in Name : Rename(h, name)
    BY <1>5
  <2>2. Change /\ clock' = clock + 1
    BY <2>1 DEF Rename, Change
  <2>3. /\ h \in DOMAIN coll /\ NotAfter(coll[h].name, name)
        /\ coll[h].token <= coll[h].token /\ coll[h].token <= clock'
    <3>1. h \in DOMAIN coll /\ (Forward => coll[h].name < name)
      BY <2>1 DEF Rename, Forward
    <3>2. name \in Nat
      BY DavAssumption
    <3> QED BY <3>1, <3>2, <2>2, <1>2, <1>3 DEF NotAfter
  <2>4. name \in Title
    BY DEF Title
  <2>5. TypeOK' /\ Grows
    BY <2>1, <2>2, <2>3, <2>4, <1>1, <1>2, PutGrows DEF Rename
  <2> QED BY <2>2, <2>5 DEF Change
<1>6. CASE Delete(h)
  <2>1. /\ coll' = Without(coll, {h}) /\ used' = used
        /\ Change /\ clock' = clock + 1
    BY <1>6 DEF Delete, Change
  <2>2. /\ DOMAIN coll' = DOMAIN coll \ {h}
        /\ \A x \in DOMAIN coll' : coll'[x] = coll[x]
    BY <2>1 DEF Without
  <2>3. coll' \in Maps(Entry)
    BY <2>1, <1>1, WithoutIn
  <2>4. clock' \in 0..MaxChanges
    BY <2>1, <1>3 DEF Change
  <2>5. TypeOK'
    BY <2>1, <2>2, <2>3, <2>4, <1>1 DEF Change, IInv, TypeOK
  <2>6. \A x \in DOMAIN coll' :
          /\ x \in DOMAIN coll
          /\ NotAfter(coll[x].name, coll'[x].name) /\ coll[x].token <= coll'[x].token
    BY <2>2, <1>2 DEF NotAfter
  <2>7. \A x \in DOMAIN coll' : coll'[x].token <= clock'
    <3> SUFFICES ASSUME NEW x \in DOMAIN coll' PROVE coll'[x].token <= clock'
      OBVIOUS
    <3>1. coll'[x] = coll[x] /\ coll[x].token <= clock /\ coll[x].token \in Nat
      BY <2>2, <1>2
    <3> QED BY <3>1, <2>1, <1>3
  <2>8. Grows
    BY <2>1, <2>6, <2>7 DEF Grows
  <2> QED BY <2>1, <2>5, <2>8 DEF Change
<1>7. CASE EditMember(h)
  <2>1. /\ Change /\ clock' = clock + 1 /\ h \in DOMAIN coll /\ used' = used
        /\ coll' = With(coll, h, Cursor(coll[h].name, clock'))
    BY <1>7 DEF EditMember, Change
  <2>2. /\ clock' \in 0..MaxChanges /\ clock' <= clock'
        /\ coll[h].token <= clock' /\ NotAfter(coll[h].name, coll[h].name)
    BY <2>1, <1>2, <1>3 DEF NotAfter, Change
  <2>3. coll[h].name \in Title
    BY <2>1, <1>1, EntryOf
  <2>4. used' \in {used, used \cup {h}} /\ h \in used'
    BY <2>1, <1>1
  <2>5. h \in DOMAIN coll /\ NotAfter(coll[h].name, coll[h].name) /\ coll[h].token <= clock'
    BY <2>1, <2>2
  <2>6. TypeOK' /\ Grows
    BY <2>1, <2>2, <2>3, <2>4, <2>5, PutGrows
  <2> QED BY <2>1, <2>6 DEF Change
<1> QED BY <1>0, <1>4, <1>5, <1>6, <1>7

LEMMA ChangingKeeps == ASSUME IInv, Changing PROVE IInv'
<1>1. /\ TypeOK' /\ Grows /\ TypeOK
      /\ UNCHANGED <<kind, mirror, cursor, view, call, unread>>
  BY ChangingGrows DEF IInv
<1>2. \A h \in used : h \in DOMAIN coll' => h \in DOMAIN coll
  BY <1>1 DEF Grows
<1>3. /\ coll \in Maps(Entry) /\ coll' \in Maps(Entry) /\ mirror \in Maps(Title)
      /\ cursor \in Maps(Entry) /\ view.state \in Maps(Entry)
      /\ view.seen \in Maps(0..MaxChanges)
      /\ call.names \in Maps(Title) /\ call.got \in Maps(Entry)
      /\ call.seen \in Maps(0..MaxChanges) /\ call.since \in Maps(Entry)
  BY <1>1 DEF TypeOK
<1>4. \A h : \A n \in Nat : PastName(h, n) => PastName(h, n)'
  <2> SUFFICES ASSUME NEW h, NEW n \in Nat, PastName(h, n) PROVE PastName(h, n)'
    OBVIOUS
  <2>1. h \in used /\ h \in used'
    BY <1>1 DEF PastName, Grows
  <2>2. CASE h \in DOMAIN coll'
    <3>1. h \in DOMAIN coll /\ NotAfter(n, coll[h].name) /\ NotAfter(coll[h].name, coll'[h].name)
      BY <2>1, <2>2, <1>1 DEF PastName, Grows
    <3>2. coll[h].name \in Nat /\ coll'[h].name \in Nat
      BY <3>1, <2>2, <1>3, EntryOf
    <3> QED BY <3>1, <3>2, <2>1 DEF NotAfter, PastName
  <2> QED BY <2>1, <2>2 DEF PastName
<1>5. \A h : \A n \in Nat : PastToken(h, n) => PastToken(h, n)'
  <2> SUFFICES ASSUME NEW h, NEW n \in Nat, PastToken(h, n) PROVE PastToken(h, n)'
    OBVIOUS
  <2>1. h \in used /\ h \in used'
    BY <1>1 DEF PastToken, Grows
  <2>2. CASE h \in DOMAIN coll'
    <3>1. h \in DOMAIN coll /\ n <= coll[h].token /\ coll[h].token <= coll'[h].token
      BY <2>1, <2>2, <1>1 DEF PastToken, Grows
    <3>2. coll[h].token \in Nat /\ coll'[h].token \in Nat
      BY <3>1, <2>2, <1>3, EntryOf
    <3> QED BY <3>1, <3>2, <2>1 DEF PastToken
  <2> QED BY <2>1, <2>2 DEF PastToken
<1>6. \A f \in Maps(Entry) : PastEntries(f) => PastEntries(f)'
  BY <1>4, <1>5, EntryOf DEF PastEntries
<1>7. Past'
  <2>1. PastNames(mirror)' /\ PastNames(call.names)'
    BY <1>1, <1>3, <1>4, TitleOf DEF PastNames, IInv, Past, PastCall, PastKept
  <2>2. PastTokens(view.seen)' /\ PastTokens(call.seen)'
    BY <1>1, <1>3, <1>5, TokenOf DEF PastTokens, IInv, Past, PastCall, PastKept
  <2>3. PastEntries(call.got)' /\ PastEntries(call.since)'
    BY <1>1, <1>3, <1>6 DEF PastEntries, IInv, Past, PastCall
  <2>4. PastEntries(cursor)' /\ PastEntries(view.state)'
    BY <1>1, <1>3, <1>6 DEF PastEntries, IInv, Past, PastKept
  <2>5. call'.todo \subseteq used' /\ call'.ids \subseteq used'
    BY <1>1 DEF IInv, Past, PastCall, Grows
  <2>6. \A h \in DOMAIN coll' : coll'[h].token <= clock'
    BY <1>1 DEF Grows
  <2> QED BY <2>1, <2>2, <2>3, <2>4, <2>5, <2>6 DEF Past, PastCall, PastKept
<1>8. Followed'
  <2>1. DOMAIN coll' \cap DOMAIN cursor \subseteq DOMAIN coll
    BY <1>2 DEF IInv, Past, PastKept, PastEntries, PastName
  <2> QED BY <1>1, <2>1 DEF IInv, Followed
<1>9. Pending'
  <2>1. call.ids \cap DOMAIN coll' \subseteq DOMAIN coll
    BY <1>2 DEF IInv, Past, PastCall
  <2> QED BY <1>1, <2>1 DEF IInv, Pending, Created, Updated, Destroyed
<1>10. StateFirst'
  <2>1. DOMAIN coll' \cap DOMAIN call.seen \subseteq DOMAIN coll
    BY <1>2 DEF IInv, Past, PastCall, PastTokens, PastToken
  <2> QED BY <1>1, <2>1 DEF IInv, StateFirst
<1>11. Shown'
  <2>1. DOMAIN coll' \cap DOMAIN view.seen \subseteq DOMAIN coll
    BY <1>2 DEF IInv, Past, PastKept, PastTokens, PastToken
  <2> QED BY <1>1, <2>1 DEF IInv, Shown
<1>12. Unnamed'
  BY <1>1 DEF IInv, Unnamed, Phase
<1> QED BY <1>1, <1>7, <1>8, <1>9, <1>10, <1>11, <1>12 DEF IInv

-----------------------------------------------------------------------------
\* The plans that matter, step by step.
LEMMA Plans ==
    /\ Head(<<"list">>) = "list" /\ Tail(<<"list">>) = << >>
    /\ Head(<<"read">>) = "read" /\ Tail(<<"read">>) = << >>
    /\ Head(<<"members">>) = "members" /\ Tail(<<"members">>) = << >>
    /\ Head(<<"hrefs", "list", "members">>) = "hrefs"
    /\ Tail(<<"hrefs", "list", "members">>) = <<"list", "members">>
    /\ Head(<<"list", "members">>) = "list"
    /\ Tail(<<"list", "members">>) = <<"members">>
    /\ Head(<<"read", "members">>) = "read"
    /\ Tail(<<"read", "members">>) = <<"members">>
    /\ <<"read">> \o << >> = <<"read">>
    /\ <<"read">> \o <<"members">> = <<"read", "members">>
<1>1. Head(<<"list">>) = "list" /\ Tail(<<"list">>) = << >>
  OBVIOUS
<1>2. Head(<<"read">>) = "read" /\ Tail(<<"read">>) = << >>
  OBVIOUS
<1>3. Head(<<"members">>) = "members" /\ Tail(<<"members">>) = << >>
  OBVIOUS
<1>4. /\ Head(<<"hrefs", "list", "members">>) = "hrefs"
      /\ Tail(<<"hrefs", "list", "members">>) = <<"list", "members">>
  OBVIOUS
<1>5. /\ Head(<<"list", "members">>) = "list"
      /\ Tail(<<"list", "members">>) = <<"members">>
  OBVIOUS
<1>6. /\ Head(<<"read", "members">>) = "read"
      /\ Tail(<<"read", "members">>) = <<"members">>
  OBVIOUS
<1>7. <<"read">> \o << >> = <<"read">>
  OBVIOUS
<1>8. <<"read">> \o <<"members">> = <<"read", "members">>
  <2>1. <<"read">> \in Seq({"read", "members"})
    OBVIOUS
  <2>2. Append(<<"read">>, "members") = <<"read">> \o <<"members">>
    BY <2>1, AppendIsConcat, Zenon
  <2> DEFINE s == Append(<<"read">>, "members")
             t == <<"read", "members">>
  <2>3. /\ s \in Seq({"read", "members"}) /\ Len(s) = 2
        /\ s[1] = "read" /\ s[2] = "members"
    BY <2>1
  <2>4. /\ t \in Seq({"read", "members"}) /\ Len(t) = 2
        /\ t[1] = "read" /\ t[2] = "members"
    OBVIOUS
  <2>5. \A i \in 1..Len(s) : s[i] = t[i]
    <3>1. 1..Len(s) = {1, 2}
      BY <2>3
    <3> QED BY <3>1, <2>3, <2>4
  <2> HIDE DEF s, t
  <2>6. s = t
    BY <2>3, <2>4, <2>5, SeqEqual
  <2> QED BY <2>2, <2>6 DEF s, t
<1> QED BY <1>1, <1>2, <1>3, <1>4, <1>5, <1>6, <1>7, <1>8, Zenon

\* What a read has to show: it changes the call alone.
LEMMA ReadKeeps ==
    ASSUME IInv, Aside, call' \in CallType, DOMAIN call'.names \subseteq call'.todo,
           unread' \in 0..MaxUnread, unread' = 0 => unread = 0, PastCall'
    PROVE  /\ TypeOK' /\ Past' /\ Followed' /\ Shown'
           /\ (Pending' /\ StateFirst' /\ Unnamed' => IInv')
<1>1. TypeOK'
  BY DEF IInv, TypeOK, Aside, Unchanged, CallType
<1>2. PastKept'
  BY DEF IInv, Past, PastKept, PastNames, PastTokens, PastEntries, PastName,
         PastToken, Aside, Unchanged
<1>3. Followed' /\ Shown'
  BY DEF IInv, Followed, Shown, Aside, Unchanged
<1> QED BY <1>1, <1>2, <1>3 DEF IInv, Past

\* A read that failed left its mark.
LEMMA ReadsIs ==
    ASSUME IInv, NEW h, NEW v, NEW value, Reads(h, v, value)
    PROVE  /\ unread' \in 0..MaxUnread /\ (unread' = 0 => unread = 0)
           /\ v = None \/ (h \in DOMAIN coll /\ v = value)
           /\ unread' = 0 /\ h \in DOMAIN coll => v = value
<1>1. unread \in Nat /\ unread <= MaxUnread /\ MaxUnread \in Nat
  BY DavAssumption DEF IInv, TypeOK
<1> QED BY <1>1 DEF Reads

LEMMA CallIs ==
    ASSUME IInv
    PROVE  /\ call \in CallType
           /\ call.plan \in Seq({"hrefs", "list", "read", "members"})
           /\ Phase # "answer" => /\ call.plan # << >> /\ Phase = Head(call.plan)
                                  /\ Tail(call.plan) \in
                                        Seq({"hrefs", "list", "read", "members"})
           /\ Phase = "answer" => call.plan = << >>
           /\ call.names \in Maps(Title) /\ call.got \in Maps(Entry)
           /\ call.seen \in Maps(0..MaxChanges)
           /\ coll \in Maps(Entry) /\ DOMAIN coll \subseteq Href
<1>1. call \in CallType /\ coll \in Maps(Entry)
  BY DEF IInv, TypeOK, CallType
<1>2. call.plan \in Seq({"hrefs", "list", "read", "members"})
  BY <1>1 DEF CallType
<1>3. call.plan # << >> =>
        /\ Head(call.plan) \in {"hrefs", "list", "read", "members"}
        /\ Tail(call.plan) \in Seq({"hrefs", "list", "read", "members"})
  BY <1>2
<1>4. DOMAIN coll \subseteq Href
  BY <1>1, MapIs
<1> QED BY <1>1, <1>2, <1>3, <1>4 DEF Phase, CallType

LEMMA HrefsKeeps == ASSUME IInv, Hrefs PROVE IInv'
<1>1. /\ Phase = "hrefs" /\ Aside /\ unread' = unread
      /\ call' = [call EXCEPT !.plan = Tail(call.plan), !.ids = DOMAIN coll,
                              !.todo = DOMAIN coll]
  BY DEF Hrefs
<1>2. /\ call \in CallType /\ call' \in CallType /\ call.plan # << >>
      /\ Head(call.plan) = "hrefs"
      /\ DOMAIN call.names = {} /\ DOMAIN coll \subseteq used
  BY <1>1, CallIs DEF CallType, IInv, Unnamed, TypeOK
<1>3. /\ call'.plan = Tail(call.plan) /\ call'.todo = DOMAIN coll
      /\ call'.ids = DOMAIN coll /\ call'.op = call.op /\ call'.names = call.names
      /\ call'.got = call.got /\ call'.seen = call.seen
      /\ call'.since = call.since
  BY <1>1, <1>2 DEF CallType
<1>4. PastCall'
  BY <1>1, <1>2, <1>3 DEF IInv, Past, PastCall, PastNames, PastTokens, PastEntries,
     PastName, PastToken, Aside, Unchanged
<1>5. Pending'
  <2>1. call.op # "update"
    BY <1>2, Plans DEF IInv, Pending
  <2> QED BY <2>1, <1>3 DEF Pending
<1>6. StateFirst'
  BY <1>1, <1>2, <1>3, Plans DEF IInv, StateFirst, Aside, Unchanged
<1>7. Unnamed'
  BY <1>2, <1>3 DEF Unnamed
<1>8. unread' \in 0..MaxUnread
  BY <1>1 DEF IInv, TypeOK
<1> QED BY <1>1, <1>2, <1>3, <1>4, <1>5, <1>6, <1>7, <1>8, ReadKeeps

LEMMA ListKeeps == ASSUME IInv, List PROVE IInv'
<1> DEFINE names == IF kind = "addressbook"
                      THEN [h \in DOMAIN coll |-> coll[h].name] ELSE Empty
<1>1. /\ Phase = "list" /\ Aside /\ unread' = unread
      /\ call' = [call EXCEPT !.plan = <<"read">> \o Tail(call.plan),
                              !.todo = DOMAIN coll, !.names = names]
  BY DEF List
<1>2. /\ call \in CallType /\ call.plan # << >> /\ Head(call.plan) = "list"
      /\ DOMAIN coll \in SUBSET Href /\ DOMAIN coll \subseteq used
      /\ coll \in Maps(Entry)
  BY <1>1, CallIs DEF IInv, TypeOK
<1>3. names \in Maps(Title) /\ DOMAIN names \subseteq DOMAIN coll
  <2>1. CASE kind = "addressbook"
    <3>1. [h \in DOMAIN coll |-> coll[h].name] \in [DOMAIN coll -> Title]
      BY <1>2, EntryOf
    <3> QED BY <3>1, <2>1, <1>2, IsMap
  <2>2. CASE kind # "addressbook"
    BY <2>2, EmptyIn DEF Empty
  <2> QED BY <2>1, <2>2
<1>4. \A h \in DOMAIN names : h \in DOMAIN coll /\ names[h] = coll[h].name
  BY DEF Empty
<1> HIDE DEF names
<1>5. <<"read">> \o Tail(call.plan) \in Seq({"hrefs", "list", "read", "members"})
  <2>1. Tail(call.plan) \in Seq({"hrefs", "list", "read", "members"})
    BY <1>1, CallIs
  <2>2. <<"read">> \in Seq({"hrefs", "list", "read", "members"})
    OBVIOUS
  <2> QED BY <2>1, <2>2
<1>6. call' \in CallType
  BY <1>1, <1>2, <1>3, <1>5 DEF CallType
<1>7. /\ call'.plan = <<"read">> \o Tail(call.plan) /\ call'.todo = DOMAIN coll
      /\ call'.ids = call.ids /\ call'.op = call.op /\ call'.names = names
      /\ call'.got = call.got /\ call'.seen = call.seen
      /\ call'.since = call.since /\ call'.gone = call.gone
  BY <1>1, <1>2 DEF CallType
<1>8. PastCall'
  <2>1. PastNames(call.names)'
    BY <1>1, <1>2, <1>4, <1>7, EntryOf DEF NotAfter, PastNames, PastName, Aside, Unchanged
  <2> QED BY <2>1, <1>1, <1>2, <1>7 DEF IInv, Past, PastCall, PastNames, PastTokens,
         PastEntries, PastName, PastToken, Aside, Unchanged
<1>9. Pending'
  <2> SUFFICES ASSUME call.op = "update" PROVE Pending'
    BY <1>7 DEF Pending
  <2>1. call.plan = <<"list">> /\ call'.plan = <<"read">>
    BY <1>2, <1>7, Plans DEF IInv, Pending
  <2>2. call.ids \subseteq DOMAIN call.since
    BY DEF IInv, Pending, Created, Updated
  <2>3. \A h \in call.ids \cap DOMAIN names : NotAfter(call.since[h].name, names[h])
    BY <2>2, <1>4 DEF IInv, Past, PastCall, PastEntries, PastName
  <2> QED BY <2>1, <2>3, <1>1, <1>7 DEF IInv, Pending, Aside, Unchanged
<1>10. StateFirst'
  BY <1>1, <1>2, <1>7, Plans DEF IInv, StateFirst, Aside, Unchanged
<1>11. Unnamed'
  <2>1. call'.plan # << >> /\ Head(call'.plan) = "read"
    <3>1. Tail(call.plan) \in Seq({"hrefs", "list", "read", "members"})
      BY <1>1, CallIs
    <3> QED BY <3>1, <1>7
  <2> QED BY <2>1 DEF Unnamed, Phase
<1>12. unread' \in 0..MaxUnread
  BY <1>1 DEF IInv, TypeOK
<1> QED BY <1>1, <1>3, <1>6, <1>7, <1>8, <1>9, <1>10, <1>11, <1>12, ReadKeeps

LEMMA ReadNameKeeps ==
    ASSUME IInv, NEW h \in Href, NEW name \in Title, ReadName(h, name) PROVE IInv'
<1>1. /\ Phase = "read" /\ Aside /\ h \in call.todo
      /\ Reads(h, name, coll[h].name)
      /\ call' = [call EXCEPT !.names = With(call.names, h, name)]
  BY DEF ReadName
<1>2. /\ unread' \in 0..MaxUnread /\ (unread' = 0 => unread = 0)
      /\ name = None \/ (h \in DOMAIN coll /\ name = coll[h].name)
      /\ unread' = 0 /\ h \in DOMAIN coll => name = coll[h].name
  BY <1>1, ReadsIs
<1>3. /\ call \in CallType /\ coll \in Maps(Entry)
      /\ With(call.names, h, name) \in Maps(Title)
  BY CallIs, WithIn
<1>4. call' \in CallType
  BY <1>1, <1>3 DEF CallType
<1>5. /\ DOMAIN call'.names = DOMAIN call.names \cup {h}
      /\ call'.names[h] = name
      /\ \A x \in DOMAIN call.names \ {h} : call'.names[x] = call.names[x]
      /\ call'.plan = call.plan /\ call'.todo = call.todo
      /\ call'.ids = call.ids /\ call'.op = call.op
      /\ call'.got = call.got /\ call'.seen = call.seen
      /\ call'.since = call.since /\ call'.gone = call.gone
  BY <1>1, <1>3 DEF CallType, With
<1>6. PastName(h, name)
  BY <1>1, <1>2, <1>3, EntryOf DEF NotAfter, PastName, None, IInv, Past, PastCall
<1>7. PastCall'
  <2>1. PastNames(call.names)'
    BY <1>1, <1>5, <1>6 DEF IInv, Past, PastCall, PastNames, PastName, Aside, Unchanged
  <2> QED BY <2>1, <1>1, <1>5 DEF IInv, Past, PastCall, PastTokens,
         PastEntries, PastName, PastToken, Aside, Unchanged
<1>8. Pending'
  <2> SUFFICES ASSUME call.op = "update" PROVE Pending'
    BY <1>5 DEF Pending
  <2>1. call.ids \subseteq DOMAIN call.since
    BY DEF IInv, Pending, Created, Updated
  <2>2. unread' = 0 /\ h \in call.ids \cap DOMAIN coll => NotAfter(call.since[h].name, name)
    BY <2>1, <1>2 DEF IInv, Past, PastCall, PastEntries, PastName
  <2>3. unread' = 0 => \A x \in call.ids \cap DOMAIN coll :
           x \in DOMAIN call'.names => NotAfter(call.since[x].name, call'.names[x])
    BY <2>2, <1>2, <1>5 DEF IInv, Pending
  <2> QED BY <2>3, <1>1, <1>2, <1>5 DEF IInv, Pending, Aside, Unchanged
<1>9. StateFirst'
  BY <1>1, <1>5 DEF IInv, StateFirst, Aside, Unchanged
<1>10. Unnamed'
  BY <1>1, <1>5 DEF Unnamed, Phase
<1>11. DOMAIN call'.names \subseteq call'.todo
  BY <1>1, <1>5 DEF IInv, TypeOK
<1> QED BY <1>1, <1>2, <1>4, <1>7, <1>8, <1>9, <1>10, <1>11, ReadKeeps

LEMMA ReadTokenKeeps ==
    ASSUME IInv, NEW h \in Href, NEW token \in 0..MaxChanges, ReadToken(h, token)
    PROVE  IInv'
<1> DEFINE entry == Cursor(call.names[h], token)
<1>1. /\ Phase = "read" /\ Aside /\ h \in DOMAIN call.names
      /\ Reads(h, token, coll[h].token)
      /\ call' = [call EXCEPT !.names = Without(call.names, {h}),
                              !.todo = call.todo \ {h},
                              !.got = With(call.got, h, entry)]
  BY DEF ReadToken
<1>2. /\ unread' \in 0..MaxUnread /\ (unread' = 0 => unread = 0)
      /\ token = None \/ (h \in DOMAIN coll /\ token = coll[h].token)
  BY <1>1, ReadsIs
<1>3. entry \in Entry /\ entry.name = call.names[h] /\ entry.token = token
  BY <1>1, CallIs, TitleOf DEF Entry, Cursor
<1> HIDE DEF entry
<1>4. /\ call \in CallType /\ coll \in Maps(Entry)
      /\ Without(call.names, {h}) \in Maps(Title)
      /\ With(call.got, h, entry) \in Maps(Entry)
  BY <1>3, CallIs, WithIn, WithoutIn
<1>5. call' \in CallType
  BY <1>1, <1>4 DEF CallType
<1>6. /\ DOMAIN call'.names = DOMAIN call.names \ {h}
      /\ \A x \in DOMAIN call'.names : call'.names[x] = call.names[x]
      /\ DOMAIN call'.got = DOMAIN call.got \cup {h}
      /\ call'.got[h] = entry
      /\ \A x \in DOMAIN call.got \ {h} : call'.got[x] = call.got[x]
  BY <1>1, <1>4 DEF CallType, With, Without
<1>7. /\ call'.todo = call.todo \ {h}
      /\ call'.plan = call.plan /\ call'.ids = call.ids /\ call'.op = call.op
      /\ call'.seen = call.seen
      /\ call'.since = call.since /\ call'.gone = call.gone
  BY <1>1, <1>4 DEF CallType
<1>8. PastName(h, entry.name) /\ PastToken(h, entry.token)
  <2>1. PastName(h, entry.name)
    BY <1>1, <1>3 DEF IInv, Past, PastCall, PastNames
  <2>2. h \in used
    BY <2>1 DEF PastName
  <2>3. h \in DOMAIN coll => coll[h].token \in Nat
    BY <1>4, EntryOf
  <2>4. h \in DOMAIN coll => token <= coll[h].token
    BY <2>3, <1>2 DEF None
  <2> QED BY <2>1, <2>2, <2>4, <1>3 DEF PastToken
<1>9. PastCall'
  <2>1. PastNames(call.names)'
    BY <1>1, <1>6 DEF IInv, Past, PastCall, PastNames, PastName, Aside, Unchanged
  <2>2. PastEntries(call.got)'
    BY <1>1, <1>6, <1>8 DEF IInv, Past, PastCall, PastEntries, PastName, PastToken,
       Aside, Unchanged
  <2> QED BY <2>1, <2>2, <1>1, <1>7 DEF IInv, Past, PastCall, PastTokens,
         PastEntries, PastName, PastToken, Aside, Unchanged
<1>10. Pending'
  <2> SUFFICES ASSUME call.op = "update" PROVE Pending'
    BY <1>7 DEF Pending
  <2>1. unread' = 0 => \A x \in call.ids \cap DOMAIN coll :
           /\ x \in DOMAIN call'.names => NotAfter(call.since[x].name, call'.names[x])
           /\ x \in DOMAIN call'.got => NotAfter(call.since[x].name, call'.got[x].name)
    BY <1>1, <1>2, <1>3, <1>6 DEF IInv, Pending
  <2>2. call'.plan # << >>
    BY <1>1, <1>7, CallIs
  <2>3. call'.plan = <<"read">> =>
          call.ids \cap DOMAIN coll \subseteq call'.todo \cup DOMAIN call'.got
    BY <1>6, <1>7 DEF IInv, Pending
  <2> QED BY <2>1, <2>2, <2>3, <1>1, <1>7 DEF IInv, Pending, Aside, Unchanged
<1>11. StateFirst'
  <2>1. call.plan # << >> /\ Head(call.plan) = "read"
    BY <1>1, CallIs
  <2>2. call.plan # <<"members">>
    BY <2>1, Plans
  <2> QED BY <2>1, <2>2, <1>1, <1>7 DEF IInv, StateFirst, Aside, Unchanged
<1>12. Unnamed'
  BY <1>1, <1>7 DEF Unnamed, Phase
<1>13. DOMAIN call'.names \subseteq call'.todo
  BY <1>6, <1>7 DEF IInv, TypeOK
<1> QED BY <1>1, <1>2, <1>5, <1>9, <1>10, <1>11, <1>12, <1>13, ReadKeeps

LEMMA EndReadKeeps == ASSUME IInv, EndRead PROVE IInv'
<1>1. /\ Phase = "read" /\ Aside /\ unread' = unread /\ call.todo = {}
      /\ call' = [call EXCEPT !.plan = Tail(call.plan),
                              !.todo = IF call.op = "query" THEN call.ids ELSE {}]
  BY DEF EndRead
<1>2. /\ call \in CallType /\ call.plan # << >> /\ Head(call.plan) = "read"
      /\ Tail(call.plan) \in Seq({"hrefs", "list", "read", "members"})
      /\ DOMAIN call.names = {}
  BY <1>1, CallIs DEF IInv, TypeOK
<1>3. call' \in CallType
  BY <1>1, <1>2 DEF CallType
<1>4. /\ call'.plan = Tail(call.plan) /\ call'.todo \subseteq call.ids
      /\ call'.ids = call.ids /\ call'.op = call.op /\ call'.names = call.names
      /\ call'.got = call.got /\ call'.seen = call.seen
      /\ call'.since = call.since /\ call'.gone = call.gone
  BY <1>1, <1>2 DEF CallType
<1>5. PastCall'
  BY <1>1, <1>4 DEF IInv, Past, PastCall, PastNames, PastTokens, PastEntries,
     PastName, PastToken, Aside, Unchanged
<1>6. Pending'
  <2> SUFFICES ASSUME call.op = "update" PROVE Pending'
    BY <1>4 DEF Pending
  <2>1. call.plan = <<"read">> /\ call'.plan = << >>
    BY <1>2, <1>4, Plans DEF IInv, Pending
  <2>2. call.ids \cap DOMAIN coll \subseteq DOMAIN call.got
    BY <2>1, <1>1 DEF IInv, Pending
  <2> QED BY <2>1, <2>2, <1>1, <1>4 DEF IInv, Pending, Aside, Unchanged
<1>7. StateFirst'
  BY <1>1, <1>2, <1>4, Plans DEF IInv, StateFirst, Aside, Unchanged
<1>8. Unnamed'
  BY <1>2, <1>4 DEF Unnamed
<1>9. unread' \in 0..MaxUnread
  BY <1>1 DEF IInv, TypeOK
<1> QED BY <1>1, <1>2, <1>3, <1>4, <1>5, <1>6, <1>7, <1>8, <1>9, ReadKeeps

LEMMA ReadMembersKeeps == ASSUME IInv, NEW h \in Href, ReadMembers(h) PROVE IInv'
<1>1. /\ Phase = "members" /\ Aside /\ unread' = unread
      /\ h \in DOMAIN coll
      /\ call' = [call EXCEPT !.todo = call.todo \ {h},
                              !.seen = With(call.seen, h, coll[h].token)]
  BY DEF ReadMembers
<1>2. /\ call \in CallType /\ call.plan # << >> /\ Head(call.plan) = "members"
      /\ DOMAIN call.names = {} /\ coll \in Maps(Entry) /\ h \in used
  BY <1>1, CallIs DEF IInv, Unnamed, TypeOK
<1>3. coll[h].token \in 0..MaxChanges /\ coll[h].token \in Nat
  BY <1>1, <1>2, EntryOf
<1>4. With(call.seen, h, coll[h].token) \in Maps(0..MaxChanges)
  BY <1>3, CallIs, WithIn
<1>5. call' \in CallType
  BY <1>1, <1>2, <1>4 DEF CallType
<1>6. /\ DOMAIN call'.seen = DOMAIN call.seen \cup {h}
      /\ call'.seen[h] = coll[h].token
      /\ \A x \in DOMAIN call.seen \ {h} : call'.seen[x] = call.seen[x]
  BY <1>1, <1>2 DEF CallType, With
<1>7. /\ call'.plan = call.plan /\ call'.todo = call.todo \ {h}
      /\ call'.ids = call.ids /\ call'.op = call.op /\ call'.names = call.names
      /\ call'.got = call.got
      /\ call'.since = call.since /\ call'.gone = call.gone
  BY <1>1, <1>2 DEF CallType
<1>8. PastCall'
  <2>1. PastToken(h, coll[h].token)
    BY <1>2, <1>3 DEF PastToken
  <2>2. PastTokens(call.seen)'
    BY <2>1, <1>1, <1>6 DEF IInv, Past, PastCall, PastTokens, PastToken, Aside, Unchanged
  <2> QED BY <2>2, <1>1, <1>7 DEF IInv, Past, PastCall, PastNames, PastEntries,
     PastName, PastToken, Aside, Unchanged
<1>9. Pending'
  <2>1. call.op # "update"
    BY <1>2, Plans DEF IInv, Pending
  <2> QED BY <2>1, <1>7 DEF Pending
<1>10. StateFirst'
  <2> SUFFICES ASSUME kind = "addressbook", call.op = "query" PROVE StateFirst'
    BY <1>1, <1>7 DEF StateFirst, Aside, Unchanged
  <2>1. call.plan = <<"members">>
    BY <1>2, Plans DEF IInv, StateFirst
  <2>2. h \in DOMAIN call.got => call.got[h].token <= coll[h].token
    BY <1>1 DEF IInv, Past, PastCall, PastEntries, PastToken
  <2>3. \A x \in DOMAIN coll \cap DOMAIN call'.seen \cap DOMAIN call.got :
           call.got[x].token <= call'.seen[x]
    BY <2>2, <1>6 DEF IInv, StateFirst
  <2> QED BY <2>1, <2>3, <1>1, <1>7 DEF IInv, StateFirst, Aside, Unchanged
<1>11. Unnamed'
  BY <1>2, <1>7 DEF Unnamed
<1>12. unread' \in 0..MaxUnread
  BY <1>1 DEF IInv, TypeOK
<1> QED BY <1>1, <1>2, <1>5, <1>7, <1>8, <1>9, <1>10, <1>11, <1>12, ReadKeeps

LEMMA NotFoundKeeps == ASSUME IInv, NEW h \in Href, NotFound(h) PROVE IInv'
<1>1. /\ Phase = "members" /\ Aside /\ call.op = "fetch"
      /\ Reads(h, None, None)
      /\ call' = [call EXCEPT !.todo = call.todo \ {h}]
  BY DEF NotFound
<1>2. /\ call \in CallType /\ DOMAIN call.names = {}
      /\ unread' \in 0..MaxUnread /\ (unread' = 0 => unread = 0)
  BY <1>1, CallIs, ReadsIs DEF IInv, Unnamed
<1>3. call' \in CallType
  BY <1>1, <1>2 DEF CallType
<1>4. /\ call'.plan = call.plan /\ call'.todo = call.todo \ {h}
      /\ call'.ids = call.ids /\ call'.op = call.op /\ call'.names = call.names
      /\ call'.got = call.got /\ call'.seen = call.seen
      /\ call'.since = call.since
  BY <1>1, <1>2 DEF CallType
<1>5. PastCall'
  BY <1>1, <1>4 DEF IInv, Past, PastCall, PastNames, PastTokens, PastEntries,
     PastName, PastToken, Aside, Unchanged
<1>6. Pending' /\ StateFirst' /\ Unnamed'
  BY <1>1, <1>2, <1>4 DEF Pending, StateFirst, Unnamed
<1> QED BY <1>1, <1>2, <1>3, <1>4, <1>5, <1>6, ReadKeeps

LEMMA EndMembersKeeps == ASSUME IInv, EndMembers PROVE IInv'
<1>1. /\ Phase = "members" /\ Aside /\ unread' = unread
      /\ call' = [call EXCEPT !.plan = Tail(call.plan)]
  BY DEF EndMembers
<1>2. /\ call \in CallType /\ call.plan # << >> /\ Head(call.plan) = "members"
      /\ Tail(call.plan) \in Seq({"hrefs", "list", "read", "members"})
      /\ DOMAIN call.names = {}
  BY <1>1, CallIs DEF IInv, Unnamed
<1>3. call' \in CallType
  BY <1>1, <1>2 DEF CallType
<1>4. /\ call'.plan = Tail(call.plan) /\ call'.todo = call.todo
      /\ call'.ids = call.ids /\ call'.op = call.op /\ call'.names = call.names
      /\ call'.got = call.got /\ call'.seen = call.seen
      /\ call'.since = call.since
  BY <1>1, <1>2 DEF CallType
<1>5. PastCall'
  BY <1>1, <1>4 DEF IInv, Past, PastCall, PastNames, PastTokens, PastEntries,
     PastName, PastToken, Aside, Unchanged
<1>6. Pending'
  <2>1. call.op # "update"
    BY <1>2, Plans DEF IInv, Pending
  <2> QED BY <2>1, <1>4 DEF Pending
<1>7. StateFirst'
  BY <1>1, <1>2, <1>4, Plans DEF IInv, StateFirst, Aside, Unchanged
<1>8. Unnamed'
  BY <1>2, <1>4 DEF Unnamed
<1>9. unread' \in 0..MaxUnread
  BY <1>1 DEF IInv, TypeOK
<1> QED BY <1>1, <1>2, <1>3, <1>4, <1>5, <1>6, <1>7, <1>8, <1>9, ReadKeeps

\* A call that ends.
LEMMA IdleKeeps ==
    ASSUME call' = Idle
    PROVE  /\ call' \in CallType /\ DOMAIN call'.names \subseteq call'.todo
           /\ PastCall' /\ Pending' /\ StateFirst' /\ Unnamed'
<1>1. call' \in CallType /\ DOMAIN call'.names \subseteq call'.todo
  BY IdleIn
<1>2. /\ DOMAIN call'.names = {} /\ DOMAIN call'.seen = {}
      /\ DOMAIN call'.got = {} /\ DOMAIN call'.since = {}
      /\ call'.todo = {} /\ call'.ids = {} /\ call'.op = "idle"
  BY DEF Idle, Call, Empty
<1> QED BY <1>1, <1>2 DEF PastCall, PastNames, PastTokens, PastEntries, Pending,
       StateFirst, Unnamed

LEMMA GoneKeeps == ASSUME IInv, NEW h \in Href, Gone(h) PROVE IInv'
<1>1. Aside /\ unread' = unread /\ call' = Idle
  BY DEF Gone
<1>2. unread' \in 0..MaxUnread
  BY <1>1 DEF IInv, TypeOK
<1> QED BY <1>1, <1>2, IdleKeeps, ReadKeeps

LEMMA ReadingKeeps == ASSUME IInv, Reading PROVE IInv'
BY HrefsKeeps, ListKeeps, ReadNameKeeps, ReadTokenKeeps, EndReadKeeps,
   ReadMembersKeeps, NotFoundKeeps, GoneKeeps, EndMembersKeeps DEF Reading, Title

-----------------------------------------------------------------------------
\* A step that leaves the server alone.
ViewType ==
    [by : {"nobody", "query", "fetch"}, state : Maps(Entry), seen : Maps(0..MaxChanges)]

LEMMA ClientKeeps ==
    ASSUME IInv, Unchanged, unread' = unread, faults' \in 0..MaxFaults,
           call' \in CallType, DOMAIN call'.names \subseteq call'.todo, PastCall',
           mirror' \in Maps(Title), cursor' \in Maps(Entry), view' \in ViewType,
           PastNames(mirror)', PastEntries(cursor)',
           PastTokens(view.seen)', PastEntries(view.state)',
           Followed', Pending', StateFirst', Shown', Unnamed'
    PROVE  IInv'
<1>1. TypeOK'
  BY DEF IInv, TypeOK, Unchanged, CallType, ViewType
<1>2. \A h \in DOMAIN coll' : coll'[h].token <= clock'
  BY DEF IInv, Past, PastKept, Unchanged
<1>3. Past'
  BY <1>2 DEF Past, PastKept
<1> QED BY <1>1, <1>3 DEF IInv

\* The same of what is kept when it does not change.
LEMMA StillThere ==
    ASSUME IInv, Unchanged
    PROVE  /\ mirror' = mirror => mirror' \in Maps(Title) /\ PastNames(mirror)'
           /\ cursor' = cursor => cursor' \in Maps(Entry) /\ PastEntries(cursor)'
           /\ view' = view => /\ view' \in ViewType
                              /\ PastTokens(view.seen)' /\ PastEntries(view.state)'
           /\ unread' = unread /\ mirror' = mirror /\ cursor' = cursor => Followed'
           /\ view' = view => Shown'
<1>1. mirror' = mirror => mirror' \in Maps(Title) /\ PastNames(mirror)'
  BY DEF IInv, TypeOK, Past, PastKept, PastNames, PastName, Unchanged
<1>2. cursor' = cursor => cursor' \in Maps(Entry) /\ PastEntries(cursor)'
  BY DEF IInv, TypeOK, Past, PastKept, PastEntries, PastName, PastToken, Unchanged
<1>3. view' = view => /\ view' \in ViewType
                      /\ PastTokens(view.seen)' /\ PastEntries(view.state)'
  BY DEF IInv, TypeOK, ViewType, Past, PastKept, PastTokens, PastEntries, PastName,
         PastToken, Unchanged
<1>4. unread' = unread /\ mirror' = mirror /\ cursor' = cursor => Followed'
  BY DEF IInv, Followed, Unchanged
<1>5. view' = view => Shown'
  BY DEF IInv, Shown, Unchanged
<1> QED BY <1>1, <1>2, <1>3, <1>4, <1>5

LEMMA BeginKeeps ==
    ASSUME IInv, NEW op \in {"get", "changes", "query", "fetch"}, Begin(op) PROVE IInv'
<1>1. /\ Unchanged /\ unread' = unread /\ mirror' = mirror /\ cursor' = cursor
      /\ faults' = faults /\ view' = NoView
      /\ call' = IF op = "fetch"
                   THEN [Call(op, Plan(op)) EXCEPT !.todo = DOMAIN view.seen]
                   ELSE Call(op, Plan(op))
  BY DEF Begin
<1>2. kind \in {"calendar", "addressbook"} /\ faults \in 0..MaxFaults
      /\ view.seen \in Maps(0..MaxChanges)
  BY DavAssumption DEF IInv, TypeOK
<1>3. /\ Plan(op) \in Seq({"hrefs", "list", "read", "members"})
      /\ kind = "addressbook" /\ op = "query" =>
            Plan(op) = <<"hrefs", "list", "members">>
  <2>1. CASE op \in {"get", "changes"}
    BY <2>1 DEF Plan
  <2>2. CASE op = "query" /\ kind = "calendar"
    BY <2>2 DEF Plan
  <2>3. CASE op = "query" /\ kind = "addressbook"
    BY <2>3 DEF Plan
  <2>4. CASE op = "fetch"
    BY <2>4 DEF Plan
  <2> QED BY <2>1, <2>2, <2>3, <2>4, <1>2
<1>4. DOMAIN view.seen \subseteq Href /\ DOMAIN view.seen \subseteq used
  BY <1>2, MapIs DEF IInv, Past, PastKept, PastTokens, PastToken
<1>5. Call(op, Plan(op)) \in CallType
  BY <1>3, CallIn
<1>6. call' \in CallType
  BY <1>1, <1>4, <1>5 DEF CallType
<1>7. /\ call'.op = op /\ call'.plan = Plan(op) /\ call'.todo \subseteq DOMAIN view.seen
      /\ DOMAIN call'.names = {} /\ DOMAIN call'.got = {} /\ DOMAIN call'.seen = {}
      /\ DOMAIN call'.since = {} /\ call'.ids = {}
  BY <1>1 DEF Call, Empty
<1>8. PastCall'
  BY <1>1, <1>4, <1>7 DEF PastCall, PastNames, PastTokens, PastEntries, Unchanged
<1>9. Pending' /\ StateFirst' /\ Unnamed'
  BY <1>1, <1>3, <1>7 DEF Pending, StateFirst, Unnamed, Unchanged
<1>10. view' \in ViewType
  BY <1>1, ViewIn DEF ViewType
<1>11. PastTokens(view.seen)' /\ PastEntries(view.state)' /\ Shown'
  BY <1>1 DEF PastTokens, PastEntries, Shown, NoView, Empty
<1> QED BY <1>1, <1>2, <1>6, <1>7, <1>8, <1>9, <1>10, <1>11, StillThere, ClientKeeps

LEMMA AnswerGetKeeps == ASSUME IInv, AnswerGet PROVE IInv'
<1>1. /\ Unchanged /\ unread' = unread /\ faults' = faults /\ view' = view
      /\ mirror' = [h \in DOMAIN call.got |-> call.got[h].name]
      /\ cursor' = call.got /\ call' = Idle
  BY DEF AnswerGet, Answer, Names
<1>2. call.got \in Maps(Entry) /\ DOMAIN call.got \in SUBSET Href
  BY CallIs, MapIs
<1>3. [h \in DOMAIN call.got |-> call.got[h].name] \in [DOMAIN call.got -> Title]
  BY <1>2, EntryOf
<1>4. mirror' \in Maps(Title) /\ cursor' \in Maps(Entry) /\ faults' \in 0..MaxFaults
  BY <1>1, <1>2, <1>3, IsMap DEF IInv, TypeOK
<1>5. PastNames(mirror)' /\ PastEntries(cursor)'
  BY <1>1 DEF IInv, Past, PastCall, PastNames, PastEntries, PastName, PastToken, Unchanged
<1>6. Followed'
  <2>1. \A h \in DOMAIN call.got : call.got[h].name \in Nat
    BY <1>2, EntryOf
  <2> QED BY <2>1, <1>1 DEF NotAfter, Followed
<1> QED BY <1>1, <1>4, <1>5, <1>6, IdleKeeps, StillThere, ClientKeeps

LEMMA AnswerChangesKeeps == ASSUME IInv, AnswerChanges PROVE IInv'
<1> DEFINE named == Created(cursor, call.got) \cup Updated(cursor, call.got)
           gone == Destroyed(cursor, call.got)
<1>1. /\ Unchanged /\ unread' = unread /\ faults' = faults /\ view' = view
      /\ mirror' = mirror /\ cursor' = cursor
      /\ call' = [Call("update", <<"list">>) EXCEPT
                    !.since = call.got, !.gone = gone, !.ids = named]
  BY DEF AnswerChanges, Answer
<1>2. /\ call.got \in Maps(Entry) /\ DOMAIN call.got \in SUBSET Href
      /\ cursor \in Maps(Entry) /\ DOMAIN cursor \in SUBSET Href
  BY CallIs, MapIs DEF IInv, TypeOK
<1>3. /\ named \in SUBSET Href /\ gone \in SUBSET Href
      /\ named \subseteq DOMAIN call.got
  BY <1>2 DEF Created, Updated, Destroyed
<1>4. <<"list">> \in Seq({"hrefs", "list", "read", "members"})
  OBVIOUS
<1>5. Call("update", <<"list">>) \in CallType
  BY <1>4, CallIn
<1> HIDE DEF named, gone
<1>6. call' \in CallType
  BY <1>1, <1>2, <1>3, <1>5 DEF CallType
<1>7. /\ call'.op = "update" /\ call'.plan = <<"list">>
      /\ call'.since = call.got /\ call'.gone = gone /\ call'.ids = named
      /\ call'.todo = {}
      /\ DOMAIN call'.names = {} /\ DOMAIN call'.got = {} /\ DOMAIN call'.seen = {}
  BY <1>1 DEF Call, Empty
<1>8. PastCall'
  <2>1. PastEntries(call.since)'
    BY <1>1, <1>7 DEF IInv, Past, PastCall, PastEntries, PastName, PastToken, Unchanged
  <2>2. named \subseteq used'
    BY <1>1, <1>3 DEF IInv, Past, PastCall, PastEntries, PastName, Unchanged
  <2> QED BY <2>1, <2>2, <1>7 DEF PastCall, PastNames, PastTokens, PastEntries
<1>9. Pending'
  <2>1. <<"list">> # <<"read">> /\ <<"list">> # << >>
    OBVIOUS
  <2>2. /\ gone = Destroyed(cursor', call'.since)
        /\ named = Created(cursor', call'.since) \cup Updated(cursor', call'.since)
    BY <1>1, <1>7 DEF named, gone
  <2> QED BY <2>1, <2>2, <1>7 DEF Pending, Created, Updated, Destroyed
<1>10. StateFirst' /\ Unnamed'
  BY <1>7 DEF StateFirst, Unnamed
<1>11. faults' \in 0..MaxFaults
  BY <1>1 DEF IInv, TypeOK
<1> QED BY <1>1, <1>6, <1>7, <1>8, <1>9, <1>10, <1>11, StillThere, ClientKeeps

LEMMA AnswerUpdateKeeps == ASSUME IInv, AnswerUpdate PROVE IInv'
<1> DEFINE list == call.ids \cap DOMAIN call.got
           kept == DOMAIN mirror \ (call.ids \cup call.gone)
<1>1. /\ Unchanged /\ unread' = unread /\ faults' = faults /\ view' = view
      /\ Phase = "answer" /\ call.op = "update"
      /\ mirror' = [h \in kept \cup list |->
                       IF h \in list THEN call.got[h].name
                                     ELSE Without(mirror, call.ids \cup call.gone)[h]]
      /\ cursor' = call.since /\ call' = Idle
  BY DEF AnswerUpdate, Answer, Without
<1>2. /\ call.got \in Maps(Entry) /\ DOMAIN call.got \in SUBSET Href
      /\ call.since \in Maps(Entry) /\ cursor \in Maps(Entry)
      /\ mirror \in Maps(Title) /\ DOMAIN mirror \in SUBSET Href
      /\ call.plan = << >>
  BY <1>1, CallIs, MapIs DEF IInv, TypeOK
<1>3. /\ DOMAIN mirror' = kept \cup list
      /\ \A h \in list : mirror'[h] = call.got[h].name
      /\ \A h \in kept \ list : mirror'[h] = mirror[h]
  BY <1>1 DEF Without
<1>4. \A h \in DOMAIN mirror' : mirror'[h] \in Title /\ PastName(h, mirror'[h])
  <2> SUFFICES ASSUME NEW h \in DOMAIN mirror'
               PROVE  mirror'[h] \in Title /\ PastName(h, mirror'[h])
    OBVIOUS
  <2>1. CASE h \in list
    BY <2>1, <1>2, <1>3, EntryOf DEF IInv, Past, PastCall, PastEntries
  <2>2. CASE h \in kept \ list
    BY <2>2, <1>2, <1>3, TitleOf DEF IInv, Past, PastKept, PastNames
  <2> QED BY <2>1, <2>2, <1>3
<1>5. mirror' \in [kept \cup list -> Title] /\ kept \cup list \in SUBSET Href
  BY <1>1, <1>2, <1>3, <1>4
<1> HIDE DEF list, kept
<1>6. mirror' \in Maps(Title) /\ cursor' \in Maps(Entry) /\ faults' \in 0..MaxFaults
  BY <1>1, <1>2, <1>5, IsMap DEF IInv, TypeOK
<1>7. PastNames(mirror)' /\ PastEntries(cursor)'
  BY <1>1, <1>4 DEF IInv, Past, PastCall, PastNames, PastEntries, PastName, PastToken,
     Unchanged
<1>8. Followed'
  <2>1. /\ call.ids = Created(cursor, call.since) \cup Updated(cursor, call.since)
        /\ call.gone = Destroyed(cursor, call.since)
        /\ call.ids \cap DOMAIN coll \subseteq DOMAIN call.got
    BY <1>1, <1>2 DEF IInv, Pending
  <2>2. DOMAIN mirror' \subseteq DOMAIN call.since
    BY <2>1, <1>3 DEF IInv, Followed, Created, Updated, Destroyed, list, kept
  <2>3. ASSUME unread = 0, NEW h \in DOMAIN coll \cap DOMAIN call.since
        PROVE  h \in DOMAIN mirror' /\ NotAfter(call.since[h].name, mirror'[h])
    <3>1. CASE h \in call.ids
      <4>1. h \in list
        BY <2>1, <2>3, <3>1 DEF list
      <4>2. NotAfter(call.since[h].name, call.got[h].name)
        BY <4>1, <2>3, <1>1 DEF IInv, Pending, list
      <4> QED BY <4>1, <4>2, <1>3
    <3>2. CASE h \notin call.ids
      <4>1. h \in DOMAIN cursor /\ call.since[h] = cursor[h] /\ h \notin call.gone
        BY <2>1, <2>3, <3>2 DEF Created, Updated, Destroyed
      <4>2. h \in DOMAIN mirror /\ NotAfter(cursor[h].name, mirror[h])
        BY <4>1, <2>3 DEF IInv, Followed
      <4>3. h \in kept \ list
        BY <4>1, <4>2, <3>2 DEF kept, list
      <4> QED BY <4>1, <4>2, <4>3, <1>3
    <3> QED BY <3>1, <3>2
  <2> QED BY <2>2, <2>3, <1>1 DEF Followed, Unchanged
<1> QED BY <1>1, <1>6, <1>7, <1>8, IdleKeeps, StillThere, ClientKeeps

LEMMA AnswerMembersKeeps == ASSUME IInv, AnswerMembers PROVE IInv'
<1>1. /\ Unchanged /\ unread' = unread /\ faults' = faults
      /\ mirror' = mirror /\ cursor' = cursor /\ call.op \in {"query", "fetch"}
      /\ view' = [by |-> call.op, state |-> call.got, seen |-> call.seen]
      /\ call' = Idle
  BY DEF AnswerMembers, Answer
<1>2. view' \in ViewType /\ faults' \in 0..MaxFaults
  BY <1>1, CallIs DEF ViewType, IInv, TypeOK
<1>3. PastTokens(view.seen)' /\ PastEntries(view.state)'
  BY <1>1 DEF IInv, Past, PastCall, PastTokens, PastEntries, PastName, PastToken, Unchanged
<1>4. Shown'
  BY <1>1 DEF IInv, StateFirst, Shown, Unchanged
<1> QED BY <1>1, <1>2, <1>3, <1>4, IdleKeeps, StillThere, ClientKeeps

LEMMA FailKeeps == ASSUME IInv, Fail PROVE IInv'
<1>1. /\ Unchanged /\ unread' = unread /\ mirror' = mirror /\ cursor' = cursor
      /\ view' = view /\ call' = Idle
      /\ faults < MaxFaults /\ faults' = faults + 1
  BY DEF Fail, Unchanged
<1>2. faults' \in 0..MaxFaults
  BY <1>1, DavAssumption DEF IInv, TypeOK
<1> QED BY <1>1, <1>2, IdleKeeps, StillThere, ClientKeeps

LEMMA StutterKeeps == ASSUME IInv, UNCHANGED vars PROVE IInv'
<1>1. /\ Unchanged /\ unread' = unread /\ mirror' = mirror /\ cursor' = cursor
      /\ view' = view /\ call' = call /\ faults' = faults
  BY DEF vars, Unchanged
<1>2. /\ call' \in CallType /\ DOMAIN call'.names \subseteq call'.todo
      /\ faults' \in 0..MaxFaults
  BY <1>1 DEF IInv, TypeOK, CallType
<1>3. PastCall'
  BY <1>1 DEF IInv, Past, PastCall, PastNames, PastTokens, PastEntries, PastName,
     PastToken, Unchanged
<1>4. Pending' /\ StateFirst' /\ Unnamed'
  BY <1>1 DEF IInv, Pending, Created, Updated, Destroyed, StateFirst, Unnamed, Phase,
     Unchanged
<1> QED BY <1>1, <1>2, <1>3, <1>4, StillThere, ClientKeeps

\* Every step keeps what the client's state stands on.
LEMMA NextKeeps == ASSUME IInv, [Next]_vars PROVE IInv'
BY ChangingKeeps, BeginKeeps, ReadingKeeps, AnswerGetKeeps, AnswerChangesKeeps,
   AnswerUpdateKeeps, AnswerMembersKeeps, FailKeeps, StutterKeeps DEF Next, Answering

LEMMA InvShows == IInv => (Forward => NothingMissed) /\ CardsCurrent
<1> SUFFICES ASSUME IInv PROVE (Forward => NothingMissed) /\ CardsCurrent
  OBVIOUS
<1>1. /\ coll \in Maps(Entry) /\ mirror \in Maps(Title) /\ cursor \in Maps(Entry)
      /\ view.seen \in Maps(0..MaxChanges) /\ view.state \in Maps(Entry)
  BY DEF IInv, TypeOK
<1>2. Forward => NothingMissed
  <2> SUFFICES ASSUME Forward, unread = 0, NEW h \in DOMAIN coll \cap DOMAIN cursor,
                      cursor[h] = coll[h]
               PROVE  h \in DOMAIN mirror /\ mirror[h] = coll[h].name
    BY DEF NothingMissed, IInv, Followed
  <2>1. h \in DOMAIN mirror /\ coll[h].name <= mirror[h]
    BY DEF NotAfter, IInv, Followed
  <2>2. mirror[h] <= coll[h].name
    BY <2>1 DEF IInv, Past, PastKept, PastNames, PastName, NotAfter
  <2>3. mirror[h] \in Nat /\ coll[h].name \in Nat
    BY <2>1, <1>1, EntryOf, TitleOf
  <2> QED BY <2>1, <2>2, <2>3
<1>3. CardsCurrent
  <2> SUFFICES ASSUME kind = "addressbook", view.by = "query",
                      NEW h \in DOMAIN coll \cap DOMAIN view.seen \cap DOMAIN view.state,
                      view.state[h] = coll[h]
               PROVE  view.seen[h] = coll[h].token
    BY DEF CardsCurrent
  <2>1. coll[h].token <= view.seen[h]
    BY DEF IInv, Shown
  <2>2. view.seen[h] <= coll[h].token
    BY DEF IInv, Past, PastKept, PastTokens, PastToken
  <2>3. view.seen[h] \in Nat /\ coll[h].token \in Nat
    BY <1>1, EntryOf, TokenOf
  <2> QED BY <2>1, <2>2, <2>3
<1> QED BY <1>2, <1>3

LEMMA AlwaysInv == Spec => []IInv
<1>1. IInv /\ [Next]_vars => IInv'
  BY NextKeeps
<1> QED BY <1>1, InitIs, PTL DEF Spec

\* The state of the collections, the call and the client have their types.
THEOREM StateTypes == Spec => []TypeOK
<1>1. IInv => TypeOK
  BY DEF IInv
<1> QED BY <1>1, AlwaysInv, PTL

\* However changes fall between the requests of a listing and between the
\* calendar's or address book's changes and get, a collection that is as the
\* client's state says it has, under the name it has; for any number of
\* collections, names, changes and failed calls, if no rename goes back.
THEOREM WhatIsNotNamedIsRight == ASSUME Forward PROVE Spec => []NothingMissed
<1>1. IInv => NothingMissed
  BY InvShows
<1> QED BY <1>1, AlwaysInv, PTL

\* A query of cards reads its state before the cards: while a collection's
\* cursor is right, so are the cards of it that the query showed.
THEOREM CardsAreCurrent == Spec => []CardsCurrent
<1>1. IInv => CardsCurrent
  BY InvShows
<1> QED BY <1>1, AlwaysInv, PTL
=============================================================================
