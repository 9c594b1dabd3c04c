------------------------------- MODULE DavState -------------------------------
(***************************************************************************)
(* Calendar and AddressBook get, changes and set, and the states that      *)
(* CalendarEvent and ContactCard get and query answer with.  The bridge    *)
(* keeps nothing: a state is the vector of cursors one listing of the      *)
(* collections read, and a listing is many WebDAV requests, between which  *)
(* anybody may change the collections.                                     *)
(*                                                                         *)
(* A collection's members are known by its sync-token, which changes with  *)
(* them.  One client's calls run beside everybody's changes; with nothing  *)
(* kept, what it asks of collections and of members does not interact.     *)
(***************************************************************************)
EXTENDS Naturals, Sequences, FiniteSets

CONSTANTS Href,   \* where collections may be
    Name,         \* display names
    Renames,      \* the renames clients ask for: <<from, to>>
    Kinds,        \* "calendar": CalDAV; "addressbook": CardDAV
    MaxChanges,   \* bound: changes of the collections
    MaxFaults,    \* bound: calls that fail
    MaxUnread     \* bound: reads whose failure is swallowed

ASSUME DavAssumption ==
    /\ Name \subseteq Nat \ {0}
    /\ Renames \subseteq Name \X Name
    /\ Kinds \subseteq {"calendar", "addressbook"}
    /\ MaxChanges \in Nat /\ MaxFaults \in Nat /\ MaxUnread \in Nat

VARIABLES
    kind,    \* what the collections are; never changes
    wants,   \* "collections" or "members": what the client asks for
    coll,    \* the server's collections: href -> name and sync-token
    used,    \* hrefs ever given; a new collection's is a new UUID
    clock,   \* changes so far; the last token
    mirror,  \* the client's collections: href -> name
    cursor,  \* the client's state: href -> name and token
    view,    \* the client's members, and the state they came with
    call,    \* the client's call
    unread, faults

vars == <<kind, wants, coll, used, clock, mirror, cursor, view, call, unread, faults>>

None == 0    \* a name or a token that was not read

Cursor(name, token) == [name |-> name, token |-> token]

Empty == [h \in {} |-> None]

Without(f, S) == [h \in DOMAIN f \ S |-> f[h]]

With(f, h, v) == [x \in DOMAIN f \cup {h} |-> IF x = h THEN v ELSE f[x]]

\* A call: what it still does; hrefs and names being read; what it read.
Call(op, plan) ==
    [op |-> op, plan |-> plan, todo |-> {}, names |-> Empty, got |-> Empty,
     seen |-> Empty, since |-> Empty, ids |-> {}, gone |-> {}]

Idle == Call("idle", << >>)

NoView == [by |-> "nobody", state |-> Empty, seen |-> Empty]

Init ==
    /\ kind \in Kinds /\ wants \in {"collections", "members"}
    /\ coll = Empty /\ used = {} /\ clock = 0
    /\ mirror = Empty /\ cursor = Empty
    /\ view = NoView
    /\ call = Idle
    /\ unread = 0 /\ faults = 0

-----------------------------------------------------------------------------
\* What the set methods do for anybody, one request each, and what other
\* clients of the server do.
Change ==
    /\ clock < MaxChanges
    /\ clock' = clock + 1
    /\ UNCHANGED <<kind, wants, mirror, cursor, view, call, unread, faults>>

Create(h, name) ==
    /\ h \notin used
    /\ Change
    /\ used' = used \cup {h}
    /\ coll' = With(coll, h, Cursor(name, clock'))

\* PROPPATCH of the display name: the sync-token is about the members only.
Rename(h, name) ==
    /\ h \in DOMAIN coll /\ <<coll[h].name, name>> \in Renames
    /\ Change
    /\ coll' = With(coll, h, Cursor(name, coll[h].token))
    /\ UNCHANGED used

Delete(h) ==
    /\ h \in DOMAIN coll
    /\ Change
    /\ coll' = Without(coll, {h})
    /\ UNCHANGED used

\* An event or a card is created, updated or destroyed.
EditMember(h) ==
    /\ h \in DOMAIN coll
    /\ Change
    /\ coll' = With(coll, h, Cursor(coll[h].name, clock'))
    /\ UNCHANGED used

-----------------------------------------------------------------------------
\* Mutant: every method reads its state last.
PlanStateLast(op) ==
    CASE op \in {"get", "changes"} -> <<"list">>
      [] op = "query" -> <<"hrefs", "members", "list">>
      [] op = "fetch" -> <<"members", "list">>

\* The order in which a method reads.  The query of cards reads the state
\* first, everything else after the members.
Plan(op) ==
    CASE op \in {"get", "changes"} -> <<"list">>
      [] op = "query" /\ kind = "calendar" -> <<"hrefs", "members", "list">>
      [] op = "query" /\ kind = "addressbook" -> <<"hrefs", "list", "members">>
      [] op = "fetch" -> <<"members", "list">>

Phase == IF call.plan = << >> THEN "answer" ELSE Head(call.plan)

Unchanged == UNCHANGED <<kind, wants, coll, used, clock>>

Aside == Unchanged /\ UNCHANGED <<mirror, cursor, view, faults>>

\* Foo/get of all collections; Foo/changes, once there is a state to ask
\* with; a query of members; a get of members, by the ids of the last one.
\* A client that asks for members again drops those it has.
Begin(op) ==
    /\ call.op = "idle"
    /\ wants = IF op \in {"get", "changes"} THEN "collections" ELSE "members"
    /\ op = "changes" => cursor # Empty
    /\ call' = IF op = "fetch"
                 THEN [Call(op, Plan(op)) EXCEPT !.todo = DOMAIN view.seen]
                 ELSE Call(op, Plan(op))
    /\ view' = NoView
    /\ Unchanged /\ UNCHANGED <<mirror, cursor, unread, faults>>

\* query's first listing, only for the hrefs.
Hrefs ==
    /\ Phase = "hrefs"
    /\ call' = [call EXCEPT !.plan = Tail(@), !.ids = DOMAIN coll,
                            !.todo = DOMAIN coll]
    /\ Aside /\ UNCHANGED unread

\* The PROPFIND a listing starts with.  CardDAV's has the names.
List ==
    /\ Phase = "list"
    /\ call' =
          [call EXCEPT !.plan = <<"read">> \o Tail(@), !.todo = DOMAIN coll,
                       !.names = IF kind = "addressbook"
                                   THEN [h \in DOMAIN coll |-> coll[h].name]
                                   ELSE Empty]
    /\ Aside /\ UNCHANGED unread

\* What a read of one property finds; that it fails is not looked at.
Reads(h, v, value) ==
    \/ h \in DOMAIN coll /\ v = value /\ UNCHANGED unread
    \/ h \notin DOMAIN coll /\ v = None /\ UNCHANGED unread
    \/ v = None /\ unread < MaxUnread /\ unread' = unread + 1

\* CalDAV's display name of the next collection.
ReadName(h, name) ==
    /\ Phase = "read" /\ call.names = Empty /\ h \in call.todo
    /\ Reads(h, name, coll[h].name)
    /\ call' = [call EXCEPT !.names = With(@, h, name)]
    /\ Aside

\* The sync-token, after the name.
ReadToken(h, token) ==
    /\ Phase = "read" /\ h \in DOMAIN call.names
    /\ Reads(h, token, coll[h].token)
    /\ call' = [call EXCEPT !.names = Without(@, {h}), !.todo = @ \ {h},
                            !.got = With(@, h, Cursor(call.names[h], token))]
    /\ Aside

\* The entries are complete.
EndRead ==
    /\ Phase = "read" /\ call.todo = {}
    /\ call' = [call EXCEPT !.plan = Tail(@), !.todo = IF call.op = "query" THEN call.ids ELSE {}]
    /\ Aside /\ UNCHANGED unread

\* The members of the next collection: a REPORT of events, GETs of them, or a
\* PROPFIND of cards and a REPORT.  These two are one read, as of the first.
ReadMembers(h) ==
    /\ Phase = "members" /\ h \in call.todo \cap DOMAIN coll
    /\ call' = [call EXCEPT !.todo = @ \ {h},
                            !.seen = With(@, h, coll[h].token)]
    /\ Aside /\ UNCHANGED unread

\* A get answers that what it cannot read is not found.
NotFound(h) ==
    /\ Phase = "members" /\ h \in call.todo /\ call.op = "fetch"
    /\ Reads(h, None, None)
    /\ call' = [call EXCEPT !.todo = @ \ {h}]
    /\ Aside

\* A query fails if a collection is gone.
Gone(h) ==
    /\ Phase = "members" /\ h \in call.todo \ DOMAIN coll /\ call.op = "query"
    /\ call' = Idle
    /\ Aside /\ UNCHANGED unread

EndMembers ==
    /\ Phase = "members" /\ call.todo = {}
    /\ call' = [call EXCEPT !.plan = Tail(@)]
    /\ Aside /\ UNCHANGED unread

-----------------------------------------------------------------------------
Answer(ops) ==
    /\ Phase = "answer" /\ call.op \in ops
    /\ Unchanged /\ UNCHANGED <<unread, faults>>

Names(entries) == [h \in DOMAIN entries |-> entries[h].name]

\* Foo/get of everything: the list and the state are of one listing.
AnswerGet ==
    /\ Answer({"get"})
    /\ mirror' = Names(call.got) /\ cursor' = call.got
    /\ call' = Idle
    /\ UNCHANGED view

\* Mutant: only the sync-tokens are compared.
UpdatedTokens(old, new) ==
    {h \in DOMAIN old \cap DOMAIN new : old[h].token # new[h].token}

\* diff_calendar_state, diff_addressbook_state.
Updated(old, new) == {h \in DOMAIN old \cap DOMAIN new : old[h] # new[h]}

Created(old, new) == DOMAIN new \ DOMAIN old

\* Mutant: what is gone is not reported.
DestroyedNone(old, new) == {}

Destroyed(old, new) == DOMAIN old \ DOMAIN new

\* Foo/changes, and the client's Foo/get of what it names: another listing.
AnswerChanges ==
    /\ Answer({"changes"})
    /\ LET new == call.got
       IN  call' = [Call("update", <<"list">>) EXCEPT
                      !.since = new, !.gone = Destroyed(cursor, new),
                      !.ids = Created(cursor, new) \cup Updated(cursor, new)]
    /\ UNCHANGED <<mirror, cursor, view>>

\* That get's answer: the client has what it names, and its new state.
AnswerUpdate ==
    /\ Answer({"update"})
    /\ LET kept == Without(mirror, call.ids \cup call.gone)
           list == call.ids \cap DOMAIN call.got
       IN  mirror' = [h \in DOMAIN kept \cup list |->
                        IF h \in list THEN call.got[h].name ELSE kept[h]]
    /\ cursor' = call.since
    /\ call' = Idle
    /\ UNCHANGED view

AnswerMembers ==
    /\ Answer({"query", "fetch"})
    /\ view' = [by |-> call.op, state |-> call.got, seen |-> call.seen]
    /\ call' = Idle
    /\ UNCHANGED <<mirror, cursor>>

\* A request fails, and with it the call; or the answer is lost.
Fail ==
    /\ call.op # "idle" /\ faults < MaxFaults
    /\ faults' = faults + 1
    /\ call' = Idle
    /\ UNCHANGED <<kind, wants, coll, used, clock, mirror, cursor, view, unread>>

-----------------------------------------------------------------------------
Changing == \E h \in Href :
    \/ \E name \in Name : Create(h, name) \/ Rename(h, name)
    \/ Delete(h) \/ EditMember(h)

Reading ==
    \/ Hrefs \/ List \/ EndRead \/ EndMembers
    \/ \E h \in Href :
          \/ \E name \in Name \cup {None} : ReadName(h, name)
          \/ \E token \in 0..MaxChanges : ReadToken(h, token)
          \/ ReadMembers(h) \/ NotFound(h) \/ Gone(h)

Answering == AnswerGet \/ AnswerChanges \/ AnswerUpdate \/ AnswerMembers

Next ==
    \/ Changing
    \/ \E op \in {"get", "changes", "query", "fetch"} : Begin(op)
    \/ Reading \/ Answering \/ Fail

Spec == Init /\ [][Next]_vars

\* Requests are answered, and the client goes on to ask for the collections.
FairSpec ==
    /\ Spec
    /\ WF_vars(Reading \/ Answering)
    /\ WF_vars(Begin("get") \/ Begin("changes"))
-----------------------------------------------------------------------------
\* The functions from some hrefs to V.
Maps(V) == UNION {[S -> V] : S \in SUBSET Href}

Title == Name \cup {None}

Entry == [name : Title, token : 0..MaxChanges]

\* The types of the state; names are read of what is still to do.
TypeOK ==
    /\ kind \in Kinds /\ wants \in {"collections", "members"}
    /\ coll \in Maps(Entry) /\ used \subseteq Href /\ DOMAIN coll \subseteq used
    /\ clock \in 0..MaxChanges
    /\ mirror \in Maps(Title) /\ cursor \in Maps(Entry)
    /\ view \in [by : {"nobody", "query", "fetch"}, state : Maps(Entry),
                 seen : Maps(0..MaxChanges)]
    /\ call \in [op : {"idle", "get", "changes", "update", "query", "fetch"},
                 plan : Seq({"hrefs", "list", "read", "members"}),
                 todo : SUBSET Href, names : Maps(Title), got : Maps(Entry),
                 seen : Maps(0..MaxChanges), since : Maps(Entry), ids : SUBSET Href,
                 gone : SUBSET Href]
    /\ DOMAIN call.names \subseteq call.todo
    /\ unread \in 0..MaxUnread /\ faults \in 0..MaxFaults

\* No rename goes back to a name the collection may have had.
Forward == \A r \in Renames : r[1] < r[2]

\* Whatever the next Foo/changes will not name is right at the client: what
\* it has no cursor of it does not have; a collection that is as its cursor
\* says it has, under its name.  However changes fall between the requests
\* of the listings and between Foo/changes and Foo/get; unless the failure
\* of a read was swallowed.
NothingMissed ==
    /\ DOMAIN mirror \subseteq DOMAIN cursor
    /\ unread = 0 =>
         \A h \in DOMAIN coll \cap DOMAIN cursor :
            cursor[h] = coll[h] =>
                h \in DOMAIN mirror /\ mirror[h] = coll[h].name

\* A query of cards is as its state says: a collection it read whose cursor
\* is still right has the members it showed.
CardsCurrent ==
    kind = "addressbook" /\ view.by = "query" =>
        \A h \in DOMAIN coll \cap DOMAIN view.seen \cap DOMAIN view.state :
            view.state[h] = coll[h] => view.seen[h] = coll[h].token

\* When the collections no longer change, the client comes to have them.
Converges ==
    <>[](wants = "collections" /\ unread = 0 => mirror = Names(coll))

\* The same of the query of events, and of every get of members, which read
\* their state last.  The code does not ensure it.
MembersCurrent ==
    \A h \in DOMAIN coll \cap DOMAIN view.seen \cap DOMAIN view.state :
        view.state[h] = coll[h] => view.seen[h] = coll[h].token

\* A query whose state is still right has read every collection.  The code
\* does not ensure it of cards, whose hrefs are listed before the state is.
AllQueried ==
    view.by = "query" /\ view.state = coll => DOMAIN coll \subseteq DOMAIN view.seen

\* NothingMissed, whether or not a read failed.  The code does not ensure it.
NamesCurrent ==
    \A h \in DOMAIN coll \cap DOMAIN cursor :
        cursor[h] = coll[h] => h \in DOMAIN mirror /\ mirror[h] = coll[h].name
=============================================================================
