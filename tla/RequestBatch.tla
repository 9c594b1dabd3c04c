----------------------------- MODULE RequestBatch -----------------------------
(***************************************************************************)
(* dispatch_request: the method calls of one request in order, with their  *)
(* references to earlier results and to created records, and the sweep of  *)
(* the mail that calls of one request share (context.py).                  *)
(*                                                                         *)
(* The mail is the number of changes made to it.  A state answered to a    *)
(* client is the number of changes it covers; the id of a record is the    *)
(* number of the change that created it.                                   *)
(***************************************************************************)
EXTENDS Integers, FiniteSets

CONSTANTS Tag, Creation, None,
    MaxCalls,  \* bound: calls of the request
    MaxMail    \* bound: changes

BatchAssumption ==
    /\ None \notin Tag \cup Creation \cup Nat
    /\ MaxCalls \in Nat /\ MaxMail \in Nat

VARIABLES
    mail,
    cache,     \* the request's sweep, or None
    call,      \* the call being handled
    results,   \* results_by_tag: whether the last call with a tag succeeded
    created,   \* created_ids
    begun,     \* calls so far
    made,      \* history: the record last created under each creation id
    own,       \* history: the last change of the request
    answered,  \* history: the last change of its successful sets
    states,    \* history: the states answered, with `own` when the call
               \* began and `answered`
    refused,   \* history: calls refused for an unknown creation id
    aborted    \* history: whether a set failed as a whole

vars == <<mail, cache, call, results, created, begun,
          made, own, answered, states, refused, aborted>>

Kinds == {"read", "fresh", "set"}

\* A call may take an argument from the result tagged `of`, and refer by
\* `ref` to a created record; a set creates the records `creates`.
Calls == [kind : Kinds, tag : Tag, of : Tag \cup {None},
          ref : Creation \cup {None}, creates : SUBSET Creation]

Idle == [kind |-> "none"]

Init ==
    /\ mail = 0 /\ cache = None /\ call = Idle /\ begun = 0
    /\ results = [t \in Tag |-> None]
    /\ created = [c \in Creation |-> None]
    /\ made = [c \in Creation |-> None]
    /\ own = 0 /\ answered = 0 /\ states = {} /\ refused = {}
    /\ aborted = FALSE

Error(tag) == results' = [results EXCEPT ![tag] = "error"]

Reply(state) ==
    /\ results' = [results EXCEPT ![call.tag] = "ok"]
    /\ states' = states \cup {[state |-> state, own |-> call.since, answered |-> answered]}
    /\ call' = Idle

-----------------------------------------------------------------------------
ResolveArgs(c) == c.of = None \/ results[c.of] = "ok"

SubstituteCreatedIds(c) == c.ref = None \/ created[c.ref] # None

Begin(c) ==
    /\ call = Idle
    /\ begun < MaxCalls
    /\ c.kind # "set" => c.creates = {}
    /\ begun' = begun + 1
    /\ IF ~ResolveArgs(c)
         THEN Error(c.tag) /\ UNCHANGED <<call, refused>>
       ELSE IF ~SubstituteCreatedIds(c)
         THEN /\ Error(c.tag)
              /\ refused' = refused \cup {c}
              /\ UNCHANGED call
       ELSE /\ call' = [kind |-> c.kind, tag |-> c.tag, todo |-> c.creates, since |-> own,
                        did |-> [x \in Creation |-> None]]
            /\ UNCHANGED <<results, refused>>
    /\ UNCHANGED <<mail, cache, created, made, own, answered, states, aborted>>

\* get_or_compute.
Swept == IF cache = None THEN mail ELSE cache

\* Email/get, Email/query, Mailbox/query and the changes methods.
Read ==
    /\ call.kind = "read"
    /\ cache' = Swept
    /\ Reply(Swept)
    /\ UNCHANGED <<mail, created, begun, made, own, answered, refused, aborted>>

\* Mailbox/get sweeps anew and leaves the shared sweep alone.
ReadFresh ==
    /\ call.kind = "fresh"
    /\ Reply(mail)
    /\ UNCHANGED <<mail, cache, created, begun, made, own, answered, refused, aborted>>

Changes == mail < MaxMail /\ mail' = mail + 1

\* One create of a set, done or rejected.
CreateOne(c) ==
    /\ call.kind = "set" /\ c \in call.todo
    /\ \/ /\ Changes
          /\ own' = mail'
          /\ made' = [made EXCEPT ![c] = mail']
          /\ call' = [call EXCEPT !.todo = @ \ {c}, !.did[c] = mail']
       \/ /\ call' = [call EXCEPT !.todo = @ \ {c}]
          /\ UNCHANGED <<mail, own, made>>
    /\ UNCHANGED <<cache, results, created, begun, answered, states, refused, aborted>>

\* One update or destroy of a set.
ChangeOne ==
    /\ call.kind = "set" /\ call.todo = {}
    /\ Changes
    /\ own' = mail'
    /\ UNCHANGED <<cache, call, results, created, begun, made, answered, states, refused, aborted>>

\* Mutant: the ids of a later call do not replace those of an earlier one.
RecordFirst(did) ==
    created' = [c \in Creation |-> IF created[c] = None THEN did[c] ELSE created[c]]

RecordCreatedIds(did) ==
    created' = [c \in Creation |-> IF did[c] # None THEN did[c] ELSE created[c]]

\* Mutant: the sweep is kept.
EndSetKept ==
    /\ call.kind = "set" /\ call.todo = {}
    /\ \E state \in {Swept, mail} : Reply(state)
    /\ RecordCreatedIds(call.did)
    /\ cache' = Swept
    /\ answered' = own
    /\ UNCHANGED <<mail, begun, made, own, refused, aborted>>

\* newState is the request's sweep for Email/set and Email/import, and a new
\* one for Mailbox/set.
EndSet ==
    /\ call.kind = "set" /\ call.todo = {}
    /\ \E state \in {Swept, mail} : Reply(state)
    /\ RecordCreatedIds(call.did)
    /\ cache' = None
    /\ answered' = own
    /\ UNCHANGED <<mail, begun, made, own, refused, aborted>>

\* An exception the set does not catch, or its sweep's: serverFail.
AbortSet ==
    /\ call.kind = "set"
    /\ Error(call.tag)
    /\ call' = Idle
    /\ aborted' = TRUE
    /\ UNCHANGED <<mail, cache, created, begun, made, own, answered, states, refused>>

\* A read fails, before it has a sweep.
AbortRead ==
    /\ call.kind \in {"read", "fresh"}
    /\ Error(call.tag)
    /\ call' = Idle
    /\ UNCHANGED <<mail, cache, created, begun, made, own, answered, states, refused, aborted>>

\* Other requests and other clients.
ChangeElsewhere ==
    /\ Changes
    /\ UNCHANGED <<cache, call, results, created, begun, made, own, answered, states, refused, aborted>>

Next ==
    \/ \E c \in Calls : Begin(c)
    \/ Read \/ ReadFresh
    \/ \E c \in Creation : CreateOne(c)
    \/ ChangeOne \/ EndSet \/ AbortSet \/ AbortRead
    \/ ChangeElsewhere

Spec == Init /\ [][Next]_vars
-----------------------------------------------------------------------------
Version == 0..MaxMail

\* Types; nothing is known that did not happen.
TypeOK ==
    /\ mail \in Version
    /\ cache \in (0..mail) \cup {None}
    /\ \/ call = Idle
       \/ call \in [kind : Kinds, tag : Tag, todo : SUBSET Creation,
                    since : 0..mail, did : [Creation -> (1..mail) \cup {None}]]
    /\ results \in [Tag -> {"ok", "error", None}]
    /\ created \in [Creation -> (1..mail) \cup {None}]
    /\ made \in [Creation -> (1..mail) \cup {None}]
    /\ begun \in 0..MaxCalls
    /\ own \in 0..mail /\ answered \in 0..own
    /\ states \subseteq [state : 0..mail, own : 0..mail, answered : 0..mail]
    /\ refused \subseteq Calls /\ aborted \in BOOLEAN

\* A call after a successful set is answered with a state that covers what
\* the set changed, whatever was cached before it.  The set itself may not be:
\* its newState can be a sweep of before its changes, which only makes the
\* client ask for them (email.py:1171).
Fresh == \A s \in states : s.state >= s.answered

\* dispatch.py:217: "After any `Foo/set` call, remember creationId ->
\* server-assigned id for every object it created".  False once a set failed
\* after a create.
AlwaysRemembered == call = Idle => created = made

\* Between two calls each creation id leads to the record last created under
\* it, in whichever call, as long as no set failed as a whole.
Remembered == ~aborted => AlwaysRemembered

\* dispatch.py:280: "A later call in the same batch must see state reflecting
\* this mutation".  False after a set that fails when it has changed something.
FreshAfterErrors == \A s \in states : s.state >= s.own

\* mailbox.py:296: "#creationId" may reference a record created earlier in the
\* same create batch.  False: the call is refused before its handler runs.
SameCallReferences == \A c \in refused : c.ref \notin c.creates
=============================================================================
