------------------------------- MODULE Threads -------------------------------
(***************************************************************************)
(* Thread/get (types/thread.py).  Nothing stores threads: a threadId is    *)
(* the id at the root of a message's References, In-Reply-To or Message-Id *)
(* or, without any, where the message is.  Thread/get searches every       *)
(* mailbox for messages that mention the root and derives the threadId of  *)
(* each again, while other clients go on changing the mailboxes.  The      *)
(* SELECTs of its searches become the state it answers with.               *)
(*                                                                         *)
(* A message is its Message-Id, References and In-Reply-To; its JMAP id is *)
(* where it is.                                                            *)
(***************************************************************************)
EXTENDS Integers, Sequences, FiniteSets

CONSTANTS None, Box,
    Colon,      \* the mailboxes with a colon in their names
    Id,         \* that headers name
    Message,    \* what may arrive
    MaxUid,     \* bound: messages per mailbox
    MaxMoved    \* bound: changes by others

ThreadAssumption ==
    /\ IsFiniteSet(Box) /\ MaxUid \in Nat
    /\ Message \subseteq [messageId : Id \cup {None},
                          references : Seq(Id), inReplyTo : Seq(Id)]
    /\ None \notin Message \cup [uidnext : Nat, exists : Nat]

VARIABLES
    folder,  \* the message at each location
    next,    \* the UIDNEXT of each mailbox
    told,    \* threadIds that Email/get may have told a client
    moved,   \* bounds what others do
    call,    \* the request: Thread/get, what its batch swept before, its answer
    stayed   \* history: locations whose message was there all the time since

mailVars == <<folder, next, told, moved>>
threadVars == <<mailVars, call, stayed>>

Place == Box \X (1..MaxUid)
Present == {x \in Place : folder[x] # None}

HasRoot(msg) == msg.references # << >> \/ msg.inReplyTo # << >> \/ msg.messageId # None

\* _derive_thread_id
ThreadId(msg, place) ==
    IF ~HasRoot(msg) THEN [kind |-> "L", basis |-> place]
    ELSE [kind |-> "H",
          basis |-> IF msg.references # << >> THEN Head(msg.references)
                    ELSE IF msg.inReplyTo # << >> THEN Head(msg.inReplyTo)
                    ELSE msg.messageId]

ThreadAt(x) == ThreadId(folder[x], x)

\* What SELECT says of a mailbox.
Status(b) == [uidnext |-> next[b], exists |-> Cardinality({x \in Present : x[1] = b})]

\* The request's cached sweep is empty.
NoCall == [pc |-> "batch", status |-> [b \in Box |-> None]]

Init ==
    /\ folder \in [Place -> Message \cup {None}]
    /\ \A x \in Place : folder[x] # None => x[2] = 1
    /\ next = [b \in Box |-> 2]
    /\ told = {ThreadAt(x) : x \in Present}
    /\ moved = 0
    /\ call = NoCall
    /\ stayed = {}

-----------------------------------------------------------------------------
\* Other clients.
Others ==
    /\ call.pc # "answered"
    /\ moved < MaxMoved
    /\ moved' = moved + 1
    /\ UNCHANGED call

Arrives(msg, b) ==
    LET x == <<b, next[b]>>
    IN  /\ next[b] <= MaxUid
        /\ next' = [next EXCEPT ![b] = @ + 1]
        /\ told' = told \cup {ThreadId(msg, x)}

Deliver(msg, b) ==
    /\ Others /\ Arrives(msg, b)
    /\ folder' = [folder EXCEPT ![<<b, next[b]>>] = msg]
    /\ UNCHANGED stayed

Expunge(x) ==
    /\ Others /\ x \in Present
    /\ folder' = [folder EXCEPT ![x] = None]
    /\ stayed' = stayed \ {x}
    /\ UNCHANGED <<next, told>>

Move(x, b) ==
    /\ Others /\ x \in Present /\ b # x[1] /\ Arrives(folder[x], b)
    /\ folder' = [folder EXCEPT ![x] = None, ![<<b, next[b]>>] = folder[x]]
    /\ stayed' = stayed \ {x}

-----------------------------------------------------------------------------
\* The roots that are searched for, and the messages looked up.
Roots(asked)  == {t.basis : t \in {u \in asked : u.kind = "H"}}
\* A location with a colon in the mailbox does not decode.
Places(asked) == {t.basis : t \in {u \in asked : u.kind = "L" /\ u.basis[1] \notin Colon}}

Go(c) == call' = c /\ UNCHANGED <<mailVars, stayed>>

Swept == \A b \in Box : call.status[b] # None

Start(asked) ==
    /\ call.pc = "batch" /\ asked # {} /\ asked \subseteq told
    /\ Swept \/ call = NoCall
    /\ call' = [pc |-> IF Roots(asked) = {} THEN "locating" ELSE "searching",
                asked |-> asked, list |-> {}, located |-> {}, unread |-> {},
                cached |-> Swept, status |-> call.status,
                at |-> [b \in Box |-> "todo"], hits |-> [b \in Box |-> {}]]
    /\ stayed' = Present
    /\ UNCHANGED mailVars

\* _search_one_mailbox: SELECT, SEARCH and FETCH, in several mailboxes at a
\* time, each on a connection of its own.  What the batch swept before is kept.
Select(b) ==
    /\ call.pc = "searching" /\ call.at[b] = "todo"
    /\ Go([call EXCEPT !.at[b] = "selected",
                       !.status[b] = IF call.cached THEN @ ELSE Status(b)])

\* Mutant: In-Reply-To is not searched.
MentionsIds(msg, roots) ==
    \/ msg.messageId \in roots
    \/ \E i \in DOMAIN msg.references : msg.references[i] \in roots

\* The nested OR of three HEADER searches for each root.
Mentions(msg, roots) ==
    \/ msg.messageId \in roots
    \/ \E i \in DOMAIN msg.references : msg.references[i] \in roots
    \/ \E i \in DOMAIN msg.inReplyTo : msg.inReplyTo[i] \in roots

Search(b) ==
    /\ call.pc = "searching" /\ call.at[b] = "selected"
    /\ Go([call EXCEPT !.at[b] = "searched",
           !.hits[b] = {x \in Present : x[1] = b /\ Mentions(folder[x], Roots(call.asked))}])

\* Mutant: the state is read after the messages.
FetchThenSelect(b) ==
    /\ call.pc = "searching" /\ call.at[b] = "searched"
    /\ Go([call EXCEPT !.at[b] = "done", !.status[b] = Status(b),
           !.list = @ \cup {[id |-> x, in |-> ThreadAt(x)] : x \in call.hits[b] \cap Present}])

\* What is gone in the meantime is not fetched.
Fetch(b) ==
    /\ call.pc = "searching" /\ call.at[b] = "searched"
    /\ Go([call EXCEPT !.at[b] = "done",
           !.list = @ \cup {[id |-> x, in |-> ThreadAt(x)] : x \in call.hits[b] \cap Present}])

\* The threads asked for, of all that were found.
Gather ==
    /\ call.pc = "searching" /\ \A b \in Box : call.at[b] = "done"
    /\ Go([call EXCEPT !.pc = "locating",
                       !.list = {l \in @ : l.in \in call.asked}])

\* _resolve_location_thread
Locate(x) ==
    /\ call.pc = "locating" /\ x \in Places(call.asked) \ call.located
    /\ LET t == [kind |-> "L", basis |-> x]
           there == x \in Present /\ ThreadAt(x) = t
       IN  Go([call EXCEPT !.located = @ \cup {x},
               !.list = IF there THEN @ \cup {[id |-> x, in |-> t]} ELSE @])

\* The ImapError of its SELECT is caught: notFound, and the call goes on.
LocateFails(x) ==
    /\ call.pc = "locating" /\ x \in Places(call.asked) \ call.located
    /\ Go([call EXCEPT !.located = @ \cup {x}, !.unread = @ \cup {x}])

\* Without a search, the state is a sweep of its own, or of an earlier call.
Sweep(b) ==
    /\ \/ call.pc = "batch"
       \/ call.pc = "locating" /\ Places(call.asked) \subseteq call.located
    /\ call.status[b] = None
    /\ Go([call EXCEPT !.status[b] = Status(b)])

Answer ==
    /\ call.pc = "locating" /\ Places(call.asked) \subseteq call.located
    /\ Swept
    /\ Go([call EXCEPT !.pc = "answered"])

\* An ImapError of any other command: serverFail.
Fail ==
    /\ call.pc \in {"searching", "locating"}
    /\ call' = [pc |-> "failed"] /\ UNCHANGED <<mailVars, stayed>>

Next ==
    \/ \E msg \in Message, b \in Box : Deliver(msg, b)
    \/ \E x \in Place : Expunge(x) \/ (\E b \in Box : Move(x, b))
                         \/ Locate(x) \/ LocateFails(x)
    \/ \E asked \in SUBSET told : Start(asked)
    \/ \E b \in Box : Select(b) \/ Search(b) \/ Fetch(b) \/ Sweep(b)
    \/ Gather \/ Answer \/ Fail

Spec == Init /\ [][Next]_threadVars
-----------------------------------------------------------------------------
Answered == call.pc = "answered"

Members(t) == {l.id : l \in {k \in call.list : k.in = t}}

\* A message without references in a mailbox that could not be selected.
Unread(t) == t.kind = "L" /\ t.basis \in call.unread

\* thread.py:20: a "coincidental substring match can't produce a wrong
\* grouping", and no member is missed.  However mailboxes change under the
\* search, every message that stays where it is is listed with its thread,
\* and with no other, unless its mailbox could not be selected.
Grouped ==
    Answered => \A x \in stayed, t \in call.asked :
        /\ x \in Members(t) => ThreadAt(x) = t
        /\ ThreadAt(x) = t => x \in Members(t) \/ Unread(t)

\* thread.py:101: the sweep done for the search is "safe to reuse as a real
\* sweep result".  If the account still has the state that an answer with a
\* searched thread says, it has the threads of that answer, but for those whose
\* mailbox could not be selected.
AsOfState ==
    Answered /\ Roots(call.asked) # {} /\ (\A b \in Box : call.status[b] = Status(b)) =>
        \A t \in call.asked :
            Unread(t) \/ Members(t) = {x \in Present : ThreadAt(x) = t}

-----------------------------------------------------------------------------
(***************************************************************************)
(* What JMAP promises and the code does not do.                            *)
(***************************************************************************)
\* Grouped without its exception: a message whose mailbox fails to be selected
\* is answered notFound, as if it were gone (thread.py:129).
AlwaysGrouped ==
    Answered => \A x \in stayed, t \in call.asked : x \in Members(t) <=> ThreadAt(x) = t

\* AsOfState of every answer: messages that are looked up where they are, and
\* nothing else, are read before the state.
AlwaysAsOfState ==
    Answered /\ (\A b \in Box : call.status[b] = Status(b)) =>
        \A t \in call.asked :
            Unread(t) \/ Members(t) = {x \in Present : ThreadAt(x) = t}
=============================================================================
