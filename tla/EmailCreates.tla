---------------------------- MODULE EmailCreates ----------------------------
(***************************************************************************)
(* Email/set's creates and Email/import (types/email.py), beside the       *)
(* updates and destroys of EmailMoves: a message is APPENDed to the first  *)
(* of its mailboxes, located, COPYed to the others and fetched back, while *)
(* other handlers already work on it.                                      *)
(***************************************************************************)
EXTENDS EmailMoves

CONSTANT Versions   \* messages that have the same Message-Id

VARIABLE making   \* the create each handler is at

createVars == <<vars, making>>

CreateInit == Init /\ making = [t \in Handler |-> Idle]

Make(t, c) == making' = [making EXCEPT ![t] = c]

\* The message is built, or comes from a blob, and is APPENDed.  What is
\* imported may be there already.  Without UIDPLUS the server does not say
\* where the message is.
AppendMessage(t, msg, m, others) ==
    LET c == [pc |-> "copying", msg |-> msg, primary |-> m, others |-> others,
              todo |-> others, before |-> uid, id |-> <<m, uid + 1>>]
    IN  /\ call[t] = Idle /\ making[t] = Idle
        /\ Place(msg, m)
        /\ \/ Make(t, c)
           \/ Make(t, [c EXCEPT !.pc = "locating", !.id = None])
        /\ UNCHANGED <<deleted, redirects, call, destroyed, moved>>

SameMessageId(a, b) == a = b \/ {a, b} \subseteq Versions

\* The last of the messages that have its Message-Id.
FindUidByMessageId(t) ==
    LET c == making[t]
        uids == {n \in 1..MaxUid : store[<<c.primary, n>>] # None
                                     /\ SameMessageId(store[<<c.primary, n>>], c.msg)}
    IN  /\ c.pc = "locating"
        /\ \E n \in uids :
               /\ \A k \in uids : k <= n
               /\ Make(t, [c EXCEPT !.pc = "copying", !.id = <<c.primary, n>>])
        /\ UNCHANGED vars

\* COPY to another mailbox, also of a message that is gone.
CopyToOther(t, m) ==
    LET c == making[t]
        there == store[c.id] # None
    IN  /\ c.pc = "copying" /\ m \in c.todo
        /\ IF there
             THEN /\ Place(store[c.id], m)
                  /\ deleted' = IF c.id \in deleted THEN deleted \cup {<<m, uid + 1>>}
                                                    ELSE deleted
             ELSE UNCHANGED server
        /\ Make(t, [c EXCEPT !.todo = @ \ {m}])
        /\ UNCHANGED <<redirects, call, destroyed, moved>>

\* Mutant: the answer is built without the message.
FetchUnchecked(t) ==
    /\ making[t].pc = "copying" /\ making[t].todo = {}
    /\ Make(t, [making[t] EXCEPT !.pc = "created"])
    /\ UNCHANGED vars

\* The message is read back for the answer; if it is gone, notCreated.
FetchBack(t) ==
    /\ making[t].pc = "copying" /\ making[t].todo = {}
    /\ Make(t, IF store[making[t].id] = None THEN Idle ELSE [making[t] EXCEPT !.pc = "created"])
    /\ UNCHANGED vars

\* created is answered; or a command failed, or found nothing: notCreated.
EndCreate(t) ==
    /\ making[t] # Idle
    /\ Make(t, Idle)
    /\ UNCHANGED vars

CreateStep(t) ==
    \/ \E msg \in Message, m \in Mailbox :
           \E others \in SUBSET (Mailbox \ {m}) : AppendMessage(t, msg, m, others)
    \/ FindUidByMessageId(t)
    \/ \E m \in Mailbox : CopyToOther(t, m)
    \/ FetchBack(t) \/ EndCreate(t)

CreateNext ==
    \/ (\E msg \in Message, m \in Mailbox : Deliver(msg, m)) /\ UNCHANGED making
    \/ \E t \in Handler : making[t] = Idle /\ Step(t) /\ UNCHANGED making
    \/ \E t \in Handler : CreateStep(t)
    \/ Restart /\ making' = [t \in Handler |-> Idle]

CreateSpec == CreateInit /\ [][CreateNext]_createVars
-----------------------------------------------------------------------------
\* The copies of a message that were made since a create began.
CopiedTo(msg, m, before) == \E n \in (before + 1)..MaxUid : issued[<<m, n>>] = msg

\* A client is told that a message was created only if every mailbox it asked
\* for got it, and the id of the answer is that message's, whatever other
\* handlers did to it in the meantime and wherever the server said it is.
Created ==
    \A t \in Handler : making[t].pc = "created" =>
        LET c == making[t]
        IN  /\ issued[c.id] = c.msg
            /\ \A m \in {c.primary} \cup c.others : CopiedTo(c.msg, m, c.before)

-----------------------------------------------------------------------------
(***************************************************************************)
(* What JMAP promises and the code does not do.                            *)
(***************************************************************************)
\* RFC 8620, 5.3: what is in notCreated was not created.  A step after the
\* APPEND may fail, and a client that tries again has the message twice.
NothingLeft ==
    [][\A t \in Handler :
         making[t].pc \in {"locating", "copying"} /\ making'[t] = Idle =>
             ~CopiedTo(making[t].msg, making[t].primary, making[t].before)]_createVars
=============================================================================
