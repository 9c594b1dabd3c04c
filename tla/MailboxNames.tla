----------------------------- MODULE MailboxNames -----------------------------
(***************************************************************************)
(* Mailbox/set and Mailbox/get: an id is the encoding of the mailbox's     *)
(* name, so a rename changes it, and the account's redirects lead from the *)
(* ids clients hold to the names the mailboxes have.                       *)
(*                                                                         *)
(* Names have two levels, <<Root, a>> and <<a, x>>.                        *)
(***************************************************************************)
EXTENDS IdRedirect, FiniteSets

CONSTANTS Root, Segment,
    Name,      \* the names clients use
    First,     \* the mailboxes there are at first
    Handler,
    Reuse,     \* whether names that had a mailbox before are used again
    MaxAsks,   \* bound: requests
    MaxFaults  \* bound: lost answers and restarts

NameAssumption ==
    /\ Root \notin Segment
    /\ Name \subseteq ({Root} \cup Segment) \X Segment
    /\ First \subseteq Name /\ First # {} /\ IsFiniteSet(First)
    /\ Reuse \in BOOLEAN
    /\ MaxAsks \in Nat /\ MaxFaults \in Nat

VARIABLES
    folder,  \* the mailboxes by name; each is a number
    owner,   \* the mailbox that last had a name
    born,    \* the number of mailboxes there have been
    table,   \* the account's id redirects
    task,    \* each handler's step of its Mailbox/set
    held,    \* the ids clients hold, and of which mailbox
    doomed,  \* mailboxes clients asked to destroy
    asked, faults

vars == <<folder, owner, born, table, task, held, doomed, asked, faults>>

Idle == [pc |-> "idle", id |-> << >>, at |-> << >>, to |-> << >>]

Init ==
    /\ \E number \in [First -> 1..Cardinality(First)] :
          /\ \A p, q \in First : number[p] = number[q] => p = q
          /\ folder = number /\ owner = number
          /\ held = {<<p, number[p]>> : p \in First}
    /\ born = Cardinality(First)
    /\ table = << >>
    /\ task = [h \in Handler |-> Idle]
    /\ doomed = {} /\ asked = 0 /\ faults = 0

At(h, pc) == task[h].pc = pc

Become(h, t) == task' = [task EXCEPT ![h] = t]

\* A rename takes the mailboxes below along.
Moved(q, old, new) ==
    IF q = old THEN new
    ELSE IF old[1] = Root /\ q[1] = old[2] THEN <<new[2], q[2]>> ELSE q

Renames(old, new) == {q \in DOMAIN folder : Moved(q, old, new) # q}

\* The server refuses a name that is taken.  Names used before count as
\* taken when clients do not use them.
Taken(p) == p \in DOMAIN folder \/ (~Reuse /\ p \in DOMAIN owner)

-----------------------------------------------------------------------------
(* Mailbox/set: each entry is resolved and its command sent in one step.   *)

Ask(h, t) ==
    /\ At(h, "idle")
    /\ asked < MaxAsks
    /\ asked' = asked + 1
    /\ Become(h, t)
    /\ UNCHANGED <<folder, owner, born, table, held, faults>>

AskCreate(h, p) ==
    /\ Ask(h, [Idle EXCEPT !.pc = "create", !.to = p])
    /\ UNCHANGED doomed

\* Only the last segment of the name changes.
AskRename(h, id, last) ==
    /\ id \in {pair[1] : pair \in held}
    /\ LET old == Resolve(table, id)
       IN  Ask(h, [pc |-> "rename", id |-> id, at |-> old,
                   to |-> <<old[1], last>>])
    /\ UNCHANGED doomed

AskDestroy(h, pair) ==
    /\ pair \in held
    /\ Ask(h, [Idle EXCEPT !.pc = "destroy", !.at = Resolve(table, pair[1])])
    /\ doomed' = doomed \cup {pair[2]}

Refused(h) ==
    /\ Become(h, Idle)
    /\ UNCHANGED <<folder, owner, born, table, held, doomed, asked, faults>>

Create(h) ==
    /\ At(h, "create")
    /\ LET p == task[h].to
       IN  IF Taken(p) THEN Refused(h)
           ELSE /\ born' = born + 1
                /\ folder' = [q \in DOMAIN folder \cup {p} |->
                                 IF q = p THEN born' ELSE folder[q]]
                /\ owner' = [q \in DOMAIN owner \cup {p} |->
                                 IF q = p THEN born' ELSE owner[q]]
                /\ held' = held \cup {<<p, born'>>}
                /\ Become(h, Idle)
                /\ UNCHANGED <<table, doomed, asked, faults>>

\* The mailboxes that take new names, by those.
Renamed(old, new) ==
    [p \in {Moved(q, old, new) : q \in Renames(old, new)} |->
        folder[CHOOSE q \in Renames(old, new) : Moved(q, old, new) = p]]

RefusesRename(h) ==
    \/ task[h].at \notin DOMAIN folder
    \/ Taken(task[h].to)
    \/ \E p \in DOMAIN Renamed(task[h].at, task[h].to) : Taken(p)

CarryOutRename(h) ==
    LET t    == task[h]
        new  == Renamed(t.at, t.to)
        rest == DOMAIN folder \ Renames(t.at, t.to)
    IN  /\ folder' = [p \in DOMAIN new \cup rest |->
                         IF p \in DOMAIN new THEN new[p] ELSE folder[p]]
        /\ owner' = [p \in DOMAIN new \cup DOMAIN owner |->
                         IF p \in DOMAIN new THEN new[p] ELSE owner[p]]
        /\ Become(h, [t EXCEPT !.pc = "record"])
        /\ UNCHANGED <<born, table, held, doomed, asked, faults>>

\* Mutant: the redirect is recorded whatever the server answered.
RenameUnchecked(h) ==
    /\ At(h, "rename")
    /\ IF RefusesRename(h)
         THEN /\ Become(h, [task[h] EXCEPT !.pc = "record"])
              /\ UNCHANGED <<folder, owner, born, table, held, doomed, asked, faults>>
         ELSE CarryOutRename(h)

Rename(h) ==
    /\ At(h, "rename")
    /\ IF RefusesRename(h) THEN Refused(h) ELSE CarryOutRename(h)

\* Mutant: the id's older redirect is kept.
RecordAgain(h) ==
    /\ At(h, "record")
    /\ table' = Append(table, [old |-> task[h].id, new |-> task[h].to])
    /\ Become(h, Idle)
    /\ UNCHANGED <<folder, owner, born, held, doomed, asked, faults>>

RecordRename(h) ==
    /\ At(h, "record")
    /\ table' = Record(table, task[h].id, task[h].to)
    /\ Become(h, Idle)
    /\ UNCHANGED <<folder, owner, born, held, doomed, asked, faults>>

\* A destroyed mailbox's ids are given up.
Destroy(h) ==
    /\ At(h, "destroy")
    /\ LET p == task[h].at
       IN  IF p \notin DOMAIN folder THEN Refused(h)
           ELSE /\ folder' = [q \in DOMAIN folder \ {p} |-> folder[q]]
                /\ held' = {pair \in held : pair[2] # folder[p]}
                /\ Become(h, Idle)
                /\ UNCHANGED <<owner, born, table, doomed, asked, faults>>

\* Mailbox/get of all mailboxes.
GetAll ==
    /\ held' = held \cup {<<p, folder[p]>> : p \in DOMAIN folder}
    /\ UNCHANGED <<folder, owner, born, table, task, doomed, asked, faults>>

\* The mailbox Mailbox/get shows for an id: that of the name, if there is one.
Shown(id) == IF id \in DOMAIN folder THEN id ELSE Resolve(table, id)

-----------------------------------------------------------------------------
\* The command's answer is lost, or a later part of Mailbox/set fails.
Fail(h) ==
    /\ ~At(h, "idle")
    /\ faults < MaxFaults
    /\ faults' = faults + 1
    /\ Become(h, Idle)
    /\ UNCHANGED <<folder, owner, born, table, held, doomed, asked>>

Restart ==
    /\ faults < MaxFaults
    /\ faults' = faults + 1
    /\ table' = << >>
    /\ task' = [h \in Handler |-> Idle]
    /\ UNCHANGED <<folder, owner, born, held, doomed, asked>>

Next ==
    \/ \E h \in Handler :
          \/ \E p \in Name : AskCreate(h, p)
          \/ \E id \in Name, last \in Segment : AskRename(h, id, last)
          \/ \E pair \in held : AskDestroy(h, pair)
          \/ Create(h) \/ Rename(h) \/ RecordRename(h) \/ Destroy(h) \/ Fail(h)
    \/ GetAll \/ Restart

Spec == Init /\ [][Next]_vars
-----------------------------------------------------------------------------
Path == ({Root} \cup Segment) \X Segment

\* Types; every mailbox has one name, and the names of those that exist are
\* the last they had.
TypeOK ==
    /\ born \in Nat
    /\ DOMAIN folder \subseteq DOMAIN owner /\ DOMAIN owner \subseteq Path
    /\ \A p \in DOMAIN owner : owner[p] \in 1..born
    /\ \A p \in DOMAIN folder : folder[p] = owner[p]
    /\ \A p, q \in DOMAIN folder : folder[p] = folder[q] => p = q
    /\ table \in Seq([old : Path, new : Path])
    /\ IsTable(table) /\ Len(table) <= MaxEntries
    /\ task \in [Handler -> [pc : {"idle", "create", "rename", "record", "destroy"},
                             id : Path \cup {<< >>}, at : Path \cup {<< >>},
                             to : Path \cup {<< >>}]]
    /\ held \subseteq Path \X (1..born)
    /\ doomed \subseteq 1..born
    /\ asked \in 0..MaxAsks /\ faults \in 0..MaxFaults

Mailboxes == {folder[p] : p \in DOMAIN folder}

\* Mailbox/set deletes no mailbox but those a client asked to destroy.
NoneLost == 1..born \subseteq Mailboxes \cup doomed

\* An id a client holds leads Mailbox/get and Mailbox/set to the mailbox it
\* was given for, or to none.
RightMailbox ==
    \A pair \in held : \A p \in {Shown(pair[1]), Resolve(table, pair[1])} :
        p \in DOMAIN folder => folder[p] = pair[2]

Settled == \A h \in Handler : ~At(h, "record")

\* types/mailbox.py:377: a client "assumes per spec that a Mailbox's id never
\* changes across a rename".  The ids clients hold lead to their mailboxes,
\* except while a handler is about to record a rename.  False for mailboxes
\* renamed back, for those below a renamed one, and for ids read after a
\* rename.
AllReachable ==
    Settled => \A pair \in held : pair[2] \in Mailboxes =>
                  Resolve(table, pair[1]) \in DOMAIN folder

\* What is true of it: while nothing fails and no name is used twice, the id
\* a top-level mailbox had at first leads to it through every rename, whoever
\* renames it by whichever of its ids.
Reachable ==
    Settled /\ faults = 0 /\ ~Reuse =>
        \A pair \in held :
            pair[1][1] = Root /\ pair[1] \in First /\ pair[2] \in Mailboxes =>
                Resolve(table, pair[1]) \in DOMAIN folder
=============================================================================
