------------------------------ MODULE EventStore ------------------------------
(***************************************************************************)
(* CalendarEvent/set and ContactCard/set on one event (or card): updates,  *)
(* moves between calendars and destroys, by handlers that run at once, one *)
(* await after the other, each a WebDAV request.  Resources of one UID     *)
(* have one href in each calendar, so its id is the calendar it is in.     *)
(*                                                                         *)
(* Its text is the set of the edits it shows.                              *)
(***************************************************************************)
EXTENDS IdRedirect, FiniteSets

CONSTANTS Calendar,
    Handler,
    Home,        \* the calendar the event is in at first
    Moves,       \* the moves clients ask for: <<from, to>>
    Kinds,       \* "event": CalDAV, If-Match; "card": CardDAV, plain PUT
    MaxAsks,     \* bound: requests and edits of other clients
    MaxFaults    \* bound: failed requests and restarts

ASSUME EventAssumption ==
    /\ Calendar \subseteq Nat
    /\ Home \in Calendar
    /\ Moves \subseteq Calendar \X Calendar
    /\ Kinds \subseteq {"event", "card"}
    /\ MaxAsks \in Nat /\ MaxFaults \in Nat

VARIABLES
    kind,      \* what it is; never changes
    object,    \* the event's resources: calendar -> etag and text
    stamp,     \* the last etag
    table,     \* the account's id redirects
    task,      \* each handler's update or destroy
    known,     \* ids clients have
    asked,     \* bounds requests; names the edits
    acked,     \* edits answered as updated, or by the server itself
    destroyed, \* whether a client asked to destroy the event
    overlapped, \* whether an update ever began during another
    faults

vars == <<kind, object, stamp, table, task, known, asked, acked, destroyed,
          overlapped, faults>>

Edit == 1..MaxAsks

Resource(etag, text) == [etag |-> etag, text |-> text]

Idle == [pc |-> "idle", id |-> Home, at |-> Home, target |-> Home, edit |-> {},
         text |-> {}, etag |-> 0]

Init ==
    /\ kind \in Kinds
    /\ object = [c \in {Home} |-> Resource(0, {})]
    /\ stamp = 0
    /\ table = << >>
    /\ task = [h \in Handler |-> Idle]
    /\ known = {Home}
    /\ asked = 0 /\ acked = {} /\ faults = 0
    /\ destroyed = FALSE /\ overlapped = FALSE

At(h, pc) == task[h].pc = pc

Become(h, t) == task' = [task EXCEPT ![h] = t]

\* PUT, whatever is there.
Put(c, text) ==
    /\ stamp' = stamp + 1
    /\ object' = [x \in DOMAIN object \cup {c} |->
                    IF x = c THEN Resource(stamp', text) ELSE object[x]]

\* DELETE; it does not matter whether there is one.
Remove(c) == object' = [x \in DOMAIN object \ {c} |-> object[x]]

-----------------------------------------------------------------------------
\* A client asks to move the event, to edit it, or both; or to destroy it.
Ask ==
    /\ asked < MaxAsks
    /\ asked' = asked + 1

Update(h, id, target, edit) ==
    /\ At(h, "idle") /\ id \in known
    /\ LET at == Resolve(table, id)
       IN  /\ target = at \/ <<at, target>> \in Moves
           /\ Become(h, [pc |-> "load", id |-> id, at |-> at, target |-> target,
                         edit |-> edit, text |-> {}, etag |-> 0])
    /\ overlapped' = (overlapped \/ \E k \in Handler : ~At(k, "idle"))
    /\ target # Resolve(table, id) \/ edit # {}
    /\ Ask
    /\ UNCHANGED <<kind, object, stamp, table, known, acked, destroyed, faults>>

Destroy(h, id) ==
    /\ At(h, "idle") /\ id \in known
    /\ Become(h, [Idle EXCEPT !.pc = "destroy", !.at = Resolve(table, id)])
    /\ destroyed' = TRUE
    /\ Ask
    /\ UNCHANGED <<kind, object, stamp, table, known, acked, overlapped,
                   faults>>

Fault ==
    /\ faults < MaxFaults
    /\ faults' = faults + 1

Moving(h) == task[h].target # task[h].at

\* The first GET, and the patch.
Load(h) ==
    /\ At(h, "load")
    /\ LET t == task[h]
           then == IF Moving(h) THEN "create"
                   ELSE IF kind = "event" THEN "tag" ELSE "overwrite"
       IN  IF t.at \in DOMAIN object
             THEN Become(h, [t EXCEPT !.pc = then,
                                      !.text = object[t.at].text \cup t.edit])
             ELSE Become(h, Idle)
    /\ UNCHANGED <<kind, object, stamp, table, known, asked, acked, destroyed,
                   overlapped, faults>>

Answered(h) ==
    /\ acked' = acked \cup task[h].edit
    /\ Become(h, Idle)

\* Mutant: the status of the PUT is not looked at.
CreateUnchecked(h) ==
    /\ At(h, "create")
    /\ \/ Put(task[h].target, task[h].text)
       \/ UNCHANGED <<object, stamp>>
    /\ Become(h, [task[h] EXCEPT !.pc = "delete"])
    /\ UNCHANGED <<kind, table, known, asked, acked, destroyed, overlapped,
                   faults>>

\* A move's PUT in the new calendar.
Create(h) ==
    /\ At(h, "create")
    /\ Put(task[h].target, task[h].text)
    /\ Become(h, [task[h] EXCEPT !.pc = "delete"])
    /\ UNCHANGED <<kind, table, known, asked, acked, destroyed, overlapped,
                   faults>>

\* A move's DELETE in the old one; no await after it.
Delete(h) ==
    /\ At(h, "delete")
    /\ Remove(task[h].at)
    /\ Become(h, [task[h] EXCEPT !.pc = "record"])
    /\ UNCHANGED <<kind, stamp, table, known, asked, acked, destroyed,
                   overlapped, faults>>

\* delete_card does not look at the DELETE's status: the move goes on though
\* the server refused it.
DeleteRefused(h) ==
    /\ At(h, "delete") /\ kind = "card"
    /\ Fault
    /\ Become(h, [task[h] EXCEPT !.pc = "record"])
    /\ UNCHANGED <<kind, object, stamp, table, known, asked, acked, destroyed,
                   overlapped>>

\* Mutant: no redirect.
ForgetRedirect(h) ==
    /\ At(h, "record")
    /\ Answered(h)
    /\ UNCHANGED <<kind, object, stamp, table, known, asked, destroyed,
                   overlapped, faults>>

RecordMove(h) ==
    /\ At(h, "record")
    /\ table' = Record(table, task[h].id, task[h].target)
    /\ Answered(h)
    /\ UNCHANGED <<kind, object, stamp, known, asked, destroyed, overlapped,
                   faults>>

\* update_event's own GET, for the etag.
Tag(h) ==
    /\ At(h, "tag")
    /\ LET t == task[h]
       IN  IF t.at \in DOMAIN object
             THEN Become(h, [t EXCEPT !.pc = "save", !.etag = object[t.at].etag])
             ELSE Become(h, Idle)
    /\ UNCHANGED <<kind, object, stamp, table, known, asked, acked, destroyed,
                   overlapped, faults>>

\* update_event's PUT with If-Match; a mismatch fails the whole set.
Save(h) ==
    /\ At(h, "save")
    /\ LET t == task[h]
       IN  IF t.at \in DOMAIN object /\ object[t.at].etag = t.etag
             THEN Put(t.at, t.text) /\ Answered(h)
             ELSE Become(h, Idle) /\ UNCHANGED <<object, stamp, acked>>
    /\ UNCHANGED <<kind, table, known, asked, destroyed, overlapped, faults>>

\* update_card's PUT.
Overwrite(h) ==
    /\ At(h, "overwrite")
    /\ Put(task[h].at, task[h].text)
    /\ Answered(h)
    /\ UNCHANGED <<kind, table, known, asked, destroyed, overlapped, faults>>

DestroyNow(h) ==
    /\ At(h, "destroy")
    /\ Remove(task[h].at)
    /\ Become(h, Idle)
    /\ UNCHANGED <<kind, stamp, table, known, asked, acked, destroyed,
                   overlapped, faults>>

-----------------------------------------------------------------------------
\* A request fails, or its answer is lost.
Fail(h) ==
    /\ ~At(h, "idle")
    /\ Fault
    /\ Become(h, Idle)
    /\ UNCHANGED <<kind, object, stamp, table, known, asked, acked, destroyed,
                   overlapped>>

Restart ==
    /\ Fault
    /\ table' = << >>
    /\ task' = [h \in Handler |-> Idle]
    /\ UNCHANGED <<kind, object, stamp, known, asked, acked, destroyed,
                   overlapped>>

\* Another client of the server edits the event, safely.
EditElsewhere(c) ==
    /\ c \in DOMAIN object
    /\ Ask
    /\ Put(c, object[c].text \cup {asked'})
    /\ acked' = acked \cup {asked'}
    /\ UNCHANGED <<kind, table, task, known, destroyed, overlapped, faults>>

\* CalendarEvent/query.
List(c) ==
    /\ c \in DOMAIN object
    /\ known' = known \cup {c}
    /\ UNCHANGED <<kind, object, stamp, table, task, asked, acked, destroyed,
                   overlapped, faults>>

-----------------------------------------------------------------------------
Step(h) ==
    \/ \E id \in Calendar, target \in Calendar, edit \in {{}, {asked + 1}} :
          Update(h, id, target, edit)
    \/ \E id \in Calendar : Destroy(h, id)
    \/ Load(h) \/ Create(h) \/ Delete(h) \/ DeleteRefused(h) \/ RecordMove(h)
    \/ Tag(h) \/ Save(h) \/ Overwrite(h) \/ DestroyNow(h)
    \/ Fail(h)

Next ==
    \/ \E h \in Handler : Step(h)
    \/ Restart
    \/ \E c \in Calendar : EditElsewhere(c) \/ List(c)

Spec == Init /\ [][Next]_vars
-----------------------------------------------------------------------------
Phase == {"idle", "load", "create", "delete", "record", "tag", "save",
          "overwrite", "destroy"}

Task == [pc : Phase, id : Calendar, at : Calendar, target : Calendar,
         edit : SUBSET Edit, text : SUBSET Edit, etag : Nat]

\* The types of the state, and what the phases mean.
TypeOK ==
    /\ kind \in Kinds /\ overlapped \in BOOLEAN
    /\ DOMAIN object \subseteq Calendar
    /\ \A c \in DOMAIN object :
          object[c].etag \in 0..stamp /\ object[c].text \subseteq Edit
    /\ stamp \in Nat
    /\ table \in Seq([old : Calendar, new : Calendar])
    /\ IsTable(table) /\ Len(table) <= MaxEntries
    /\ task \in [Handler -> Task]
    /\ known \subseteq Calendar
    /\ asked \in 0..MaxAsks /\ acked \subseteq Edit
    /\ destroyed \in BOOLEAN /\ faults \in 0..MaxFaults

\* No move leads back to where the event may have been.
Forward == \A m \in Moves : m[1] < m[2]

\* The event is somewhere until a client destroys it, whatever fails and
\* however moves and edits interleave, when clients never move it back.
Survives == ~destroyed => DOMAIN object # {}

\* The id clients first had leads to the event, after any moves, edits and
\* edits elsewhere and whichever of the ids it went through they ask with,
\* while requests do not overlap, nothing fails and moves do not lead back,
\* except between a move's DELETE and the recording of it.
Resolvable ==
    /\ ~destroyed /\ ~overlapped /\ faults = 0
    /\ \A h \in Handler : ~At(h, "record")
    => Resolve(table, Home) \in DOMAIN object

\* calendar_event.py:9: "A moved event (`calendarIds` changed) is kept
\* resolvable", for every id clients have.  The code does not ensure it.
AllResolvable ==
    ~destroyed /\ (\A h \in Handler : ~At(h, "record")) =>
        \A id \in known : Resolve(table, id) \in DOMAIN object

\* caldav/client.py:178: "This gives real optimistic-concurrency conflict
\* detection": no edit that was confirmed is overwritten by one that did not
\* know of it.  The code does not ensure it.
EditsKept ==
    ~destroyed => acked \subseteq UNION {object[c].text : c \in DOMAIN object}
=============================================================================
