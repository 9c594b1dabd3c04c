------------------------------ MODULE Submission ------------------------------
(***************************************************************************)
(* EmailSubmission/set: each create fetches a message, hands it to SMTP,   *)
(* and then, if it was accepted, patches or destroys it as the call asks.  *)
(* Others move and destroy the messages, and a client submits again what   *)
(* was not reported as sent.                                               *)
(*                                                                         *)
(* Places are numbered in the order in which messages were put there, and  *)
(* the id of a message is its place.  The steps of a move are those of     *)
(* EmailMoves; here it is one.                                             *)
(***************************************************************************)
EXTENDS IdRedirect, FiniteSets

CONSTANTS Draft, Handler, None,
    MaxPlace,   \* bound: places ever used
    Faults,     \* what may go wrong, of AllFaults
    MaxFaults   \* bound: how many of these go wrong in one behaviour

\* A create or a patch lacks or garbles a property; an answer of SMTP is
\* lost; the bridge is restarted.
AllFaults == {"malformed", "lost", "restart"}

SubmissionAssumption ==
    /\ None \notin Draft /\ IsFiniteSet(Draft)
    /\ MaxPlace \in Nat /\ Cardinality(Draft) <= MaxPlace
    /\ Faults \subseteq AllFaults /\ MaxFaults \in Nat

Id == 1..MaxPlace

VARIABLES
    store,      \* the message at each place
    used,       \* the places used so far
    redirects,
    call,       \* each handler's EmailSubmission/set
    status,     \* what the client was told of each draft
    issued,     \* history: the message first put at each place
    sends,      \* history: how often SMTP accepted each draft
    doomed,     \* history: drafts destroyed by Email/set
    missed,     \* history: ids not found although a redirect leads on
    faults      \* history: what went wrong

mail == <<store, used, redirects, issued>>
vars == <<mail, call, status, sends, doomed, missed, faults>>

Idle == [pc |-> "idle", asked |-> {}, todo |-> {}, now |-> None, done |-> {}]

Init ==
    /\ used = Cardinality(Draft)
    /\ issued \in [Id -> Draft \cup {None}]
    /\ \A d \in Draft : \E x \in 1..used : issued[x] = d
    /\ \A x \in Id : x > used => issued[x] = None
    /\ store = issued
    /\ redirects = << >>
    /\ call = [h \in Handler |-> Idle]
    /\ status = [d \in Draft |-> "draft"]
    /\ sends = [d \in Draft |-> 0]
    /\ doomed = {} /\ missed = {} /\ faults = {}

At(h, pc) == call[h].pc = pc

Fault(f) ==
    /\ f \in Faults
    /\ faults' = faults \cup {f}
    /\ Cardinality(faults') <= MaxFaults

Become(h, c) == call' = [call EXCEPT ![h] = c]

Tell(drafts, what) ==
    status' = [d \in Draft |-> IF d \in drafts THEN what ELSE status[d]]

Drafts(ids) == {issued[x] : x \in ids}

\* Move the message that id leads to, if it is there.
Move(id) ==
    LET x == Resolve(redirects, id)
    IN  /\ store[x] # None
        /\ used < MaxPlace
        /\ used' = used + 1
        /\ store' = [store EXCEPT ![x] = None, ![used + 1] = store[x]]
        /\ issued' = [issued EXCEPT ![used + 1] = store[x]]
        /\ redirects' = Record(redirects, id, used + 1)

Remove(id) ==
    /\ store' = [store EXCEPT ![Resolve(redirects, id)] = None]
    /\ UNCHANGED <<used, redirects, issued>>

-----------------------------------------------------------------------------
\* A client submits drafts, each by one of the ids it has had, if no answer
\* for them is under way and none said that they were sent.
Submit(h, ids) ==
    /\ At(h, "idle")
    /\ ids # {} /\ None \notin Drafts(ids)
    /\ \A x, y \in ids : issued[x] = issued[y] => x = y
    /\ \A d \in Drafts(ids) : status[d] \in {"draft", "failed"}
    /\ Become(h, [Idle EXCEPT !.pc = "next", !.asked = ids, !.todo = ids])
    /\ Tell(Drafts(ids), "pending")
    /\ UNCHANGED <<mail, sends, doomed, missed, faults>>

\* The place that the id names; redirects are not looked at.
Fetch(h, id) ==
    /\ At(h, "next") /\ id \in call[h].todo
    /\ IF store[id] = None
         THEN /\ Become(h, [call[h] EXCEPT !.todo = @ \ {id}])
              /\ missed' = IF store[Resolve(redirects, id)] = None THEN missed
                           ELSE missed \cup {id}
         ELSE /\ Become(h, [call[h] EXCEPT !.pc = "send", !.todo = @ \ {id}, !.now = id])
              /\ UNCHANGED missed
    /\ UNCHANGED <<mail, status, sends, doomed, faults>>

\* Bound: counted up to two.
Accept(d) == sends' = [sends EXCEPT ![d] = IF @ = 0 THEN 1 ELSE 2]

NextCreate(h) == Become(h, [call[h] EXCEPT !.pc = "next", !.now = None])

Sent(h) ==
    Become(h, [call[h] EXCEPT !.pc = "patch", !.done = @ \cup {call[h].now}])

\* Mutant: a failure of SMTP does not end the create.
SendUnchecked(h) ==
    /\ At(h, "send")
    /\ Accept(issued[call[h].now]) \/ UNCHANGED sends
    /\ Sent(h)
    /\ UNCHANGED <<mail, status, doomed, missed, faults>>

\* SMTP accepts the message, refuses it, or accepts it and the answer is lost.
Send(h) ==
    /\ At(h, "send")
    /\ \/ Accept(issued[call[h].now]) /\ Sent(h) /\ UNCHANGED faults
       \/ UNCHANGED <<sends, faults>> /\ NextCreate(h)
       \/ /\ Fault("lost")
          /\ Accept(issued[call[h].now]) /\ NextCreate(h)
    /\ UNCHANGED <<mail, status, doomed, missed>>

\* The call is answered serverFail.
Fail(h) ==
    /\ Become(h, Idle)
    /\ Tell(Drafts(call[h].asked), "failed")
    /\ UNCHANGED <<mail, sends, doomed, missed>>

\* Mutant: a patch that fails fails the call.
PatchUncaught(h) ==
    /\ At(h, "patch")
    /\ \/ /\ UNCHANGED mail \/ Move(call[h].now)
          /\ Become(h, [call[h] EXCEPT !.pc = "purge"])
          /\ UNCHANGED <<status, sends, doomed, missed, faults>>
       \/ Fail(h) /\ UNCHANGED faults

\* onSuccessUpdateEmail, if there is one; its failure is passed over.
Patch(h) ==
    /\ At(h, "patch")
    /\ UNCHANGED mail \/ Move(call[h].now)
    /\ Become(h, [call[h] EXCEPT !.pc = "purge"])
    /\ UNCHANGED <<status, sends, doomed, missed, faults>>

\* onSuccessDestroyEmail, likewise.
Purge(h) ==
    /\ At(h, "purge")
    /\ UNCHANGED mail \/ Remove(call[h].now)
    /\ NextCreate(h)
    /\ UNCHANGED <<status, sends, doomed, missed, faults>>

\* An exception that is none of those caught: before a message is fetched
\* (the envelope lacks a property) or in its patch (mailboxIds has no id).
Crash(h) ==
    /\ Fault("malformed")
    /\ (At(h, "next") /\ call[h].todo # {}) \/ At(h, "patch")
    /\ Fail(h)

Answer(h) ==
    /\ At(h, "next") /\ call[h].todo = {}
    /\ status' = [d \in Draft |->
          IF d \in Drafts(call[h].done) THEN "sent"
          ELSE IF d \in Drafts(call[h].asked) THEN "failed" ELSE status[d]]
    /\ Become(h, Idle)
    /\ UNCHANGED <<mail, sends, doomed, missed, faults>>

\* Email/set by the same or another client.
MoveElsewhere(id) ==
    /\ Move(id)
    /\ UNCHANGED <<call, status, sends, doomed, missed, faults>>

DestroyElsewhere(id) ==
    /\ store[Resolve(redirects, id)] # None
    /\ Remove(id)
    /\ doomed' = doomed \cup {issued[id]}
    /\ UNCHANGED <<call, status, sends, missed, faults>>

\* Clients that wait for an answer get an error.
Restart ==
    /\ Fault("restart")
    /\ redirects' = << >>
    /\ call' = [h \in Handler |-> Idle]
    /\ Tell({d \in Draft : status[d] = "pending"}, "failed")
    /\ UNCHANGED <<store, used, issued, sends, doomed, missed>>

Next ==
    \/ \E h \in Handler :
          \/ \E ids \in SUBSET Id : Submit(h, ids)
          \/ \E id \in Id : Fetch(h, id)
          \/ Send(h) \/ Patch(h) \/ Purge(h) \/ Crash(h) \/ Answer(h)
    \/ \E id \in Id : MoveElsewhere(id) \/ DestroyElsewhere(id)
    \/ Restart

Spec == Init /\ [][Next]_vars
-----------------------------------------------------------------------------
\* Types; a place holds the message it was first used for or none, a message
\* is in one place at most, and a draft is in one call at most.
TypeOK ==
    /\ used \in Id \cup {0}
    /\ issued \in [Id -> Draft \cup {None}]
    /\ \A x \in Id : (issued[x] = None) <=> (x > used)
    /\ \A x \in Id : store[x] \in {issued[x], None}
    /\ \A x, y \in Id : store[x] # None /\ store[x] = store[y] => x = y
    /\ redirects \in Seq([old : Id, new : Id]) /\ IsTable(redirects)
    /\ call \in [Handler -> [pc : {"idle", "next", "send", "patch", "purge"},
                             asked : SUBSET Id, todo : SUBSET Id,
                             now : Id \cup {None}, done : SUBSET Id]]
    /\ \A h, i \in Handler :
          h = i \/ Drafts(call[h].asked) \cap Drafts(call[i].asked) = {}
    /\ status \in [Draft -> {"draft", "pending", "failed", "sent"}]
    /\ sends \in [Draft -> 0..2]
    /\ doomed \subseteq Draft /\ missed \subseteq Id
    /\ faults \subseteq Faults

\* A draft is only gone when SMTP accepted it or a client destroyed it,
\* whatever moves, fails or restarts meanwhile.
GoneIfSent ==
    \A d \in Draft : \/ \E x \in Id : store[x] = d
                     \/ sends[d] > 0 \/ d \in doomed

\* A client that only submits again what was not reported as sent does not
\* send a draft twice, unless SMTP's answer or the bridge's is lost or a
\* request is malformed.
SentOnce == faults = {} => \A d \in Draft : sends[d] <= 1

\* submission.py:126: the submission "already succeeded (mail is sent)", a
\* failure of the patch is "best-effort, not fatal to the submission".  What is reported as
\* failed was not sent, unless an answer is lost.
FailedUnsent ==
    faults \subseteq {"malformed"} =>
        \A d \in Draft : status[d] = "failed" => sends[d] = 0

\* email.py:6: "A moved message's old id is kept resolvable".
NoneMissed == missed = {}
=============================================================================
