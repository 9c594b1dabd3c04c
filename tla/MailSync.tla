------------------------------- MODULE MailSync -------------------------------
(***************************************************************************)
(* The mail state string and Email/changes: a client that keeps a mirror   *)
(* of the account's messages through the bridge, which stores nothing and  *)
(* answers from live IMAP commands while other clients go on changing the  *)
(* mailboxes.  A batch of method calls shares one sweep of SELECTs, the    *)
(* request cache's "mail_sweep".                                           *)
(*                                                                         *)
(* A message's content and flags are the mod-sequence of its last change.  *)
(***************************************************************************)
EXTENDS Integers, Sequences, FiniteSets

CONSTANTS Mailbox,
    Boots,       \* how the client fills its mirror: batches of calls
    Servers,     \* IMAP servers, by what they count in HIGHESTMODSEQ
    InitialMail, \* messages in each mailbox at first
    MaxChanges   \* bound: changes of other clients and lost connections

\* Mailbox/query, then Email/query and Email/get; or the last two alone.
MailboxesFirst == <<"state", "search", "state", "get", "state">>
QueryFirst     == <<"search", "state", "get", "state">>
\* Email/changes, then Email/get of the ids it reports.
ChangesPlan    == <<"state", "compare", "get", "state">>

ASSUME SyncAssumption ==
    /\ Boots \subseteq {MailboxesFirst, QueryFirst}
    /\ Servers \subseteq {"qresync", "condstore", "plain"}
    /\ InitialMail \in Nat
    /\ MaxChanges \in Nat

VARIABLES
    server,  \* one of them
    box,     \* the mailboxes that exist
    changes, \* bounds what happens from outside
    synced,  \* whether the client holds a state string
    token,   \* that state string: a cursor per mailbox
    mirror,  \* the client's copies: mailbox -> uid -> mod-sequence
    since,   \* history: the HIGHESTMODSEQ with which a mailbox came into the
             \* state string without its mail, 0 if its mail came too
    call     \* the client's batch of method calls

env    == <<server, box, changes>>
client == <<synced, token, mirror, since>>
vars   == <<server, box, changes, synced, token, mirror, since, call>>

With(f, m, v) == [x \in DOMAIN f \cup {m} |-> IF x = m THEN v ELSE f[x]]

\* A mailbox: UIDVALIDITY, UIDNEXT, HIGHESTMODSEQ, messages.
Mail(uv, next, modseq, msgs) ==
    [uv |-> uv, next |-> next, modseq |-> modseq, msgs |-> msgs]

\* A mailbox's cursor.  Of the messages only their number is compared.
Cursor(b) == [uv |-> b.uv, next |-> b.next, uids |-> DOMAIN b.msgs,
              modseq |-> IF server = "plain" THEN 0 ELSE b.modseq]

Exists(c) == Cardinality(c.uids)

\* The same cursor in the state string.
SameCursor(c, d) ==
    /\ c.uv = d.uv /\ c.modseq = d.modseq
    /\ c.next = d.next /\ Exists(c) = Exists(d)

\* No mailboxes yet.
Empty == [m \in {} |-> 0]

\* A batch about to run its call number at.
Batch(plan, at) ==
    [plan |-> plan, at |-> at, listed |-> FALSE, todo |-> {}, swept |-> FALSE,
     sweep |-> Empty, news |-> Empty, found |-> Empty, got |-> Empty]

NoCall == Batch(ChangesPlan, 0)

Init ==
    /\ server \in Servers
    /\ \E present \in SUBSET Mailbox :
          box = [m \in present |-> Mail(1, InitialMail + 1, InitialMail,
                                        [u \in 1..InitialMail |-> u])]
    /\ changes = 0
    /\ synced = FALSE /\ token = Empty /\ mirror = Empty /\ since = Empty
    /\ call = NoCall

-----------------------------------------------------------------------------
\* Other clients and deliveries.

Outside ==
    /\ changes < MaxChanges
    /\ changes' = changes + 1

Others(m, b) ==
    /\ Outside
    /\ box' = [box EXCEPT ![m] = b]
    /\ UNCHANGED <<server, client, call>>

Deliver(m) ==
    /\ m \in DOMAIN box
    /\ LET b == box[m]
       IN  Others(m, Mail(b.uv, b.next + 1, b.modseq + 1,
                          With(b.msgs, b.next, b.modseq + 1)))

SetFlags(m, u) ==
    /\ LET b == box[m]
       IN  Others(m, Mail(b.uv, b.next, b.modseq + 1,
                          With(b.msgs, u, b.modseq + 1)))

\* Only servers with QRESYNC must count an EXPUNGE in HIGHESTMODSEQ.
Expunge(m, u) ==
    /\ LET b == box[m]
       IN  Others(m, Mail(b.uv, b.next,
                          IF server = "qresync" THEN b.modseq + 1 ELSE b.modseq,
                          [v \in DOMAIN b.msgs \ {u} |-> b.msgs[v]]))

\* A mailbox created again has another UIDVALIDITY.
Create(m) ==
    /\ m \notin DOMAIN box
    /\ Outside
    /\ box' = With(box, m, Mail(changes + 2, 1, 0, Empty))
    /\ UNCHANGED <<server, client, call>>

Drop(m) ==
    /\ m \in DOMAIN box
    /\ Outside
    /\ box' = [x \in DOMAIN box \ {m} |-> box[x]]
    /\ UNCHANGED <<server, client, call>>

-----------------------------------------------------------------------------
\* The handlers.

Idle == call.at = 0
InPhase(p) == ~Idle /\ call.plan[call.at] = p

Answer(c) == call' = c /\ UNCHANGED <<env, client>>

\* Mutant: the cached sweep outlives the request.
StartCached ==
    /\ Idle
    /\ \/ synced /\ Answer([Batch(ChangesPlan, 1) EXCEPT
                              !.swept = TRUE, !.sweep = token])
       \/ ~synced /\ \E plan \in Boots : Answer(Batch(plan, 1))

Start ==
    /\ Idle
    /\ \/ synced /\ Answer(Batch(ChangesPlan, 1))
       \/ ~synced /\ \E plan \in Boots : Answer(Batch(plan, 1))

List ==
    /\ (InPhase("state") /\ ~call.swept) \/ InPhase("search")
    /\ ~call.listed
    /\ Answer([call EXCEPT !.listed = TRUE, !.todo = DOMAIN box])

\* One SELECT of _status_map's sweep.
Select(m) ==
    /\ InPhase("state") /\ m \in call.todo \cap DOMAIN box
    /\ Answer([call EXCEPT !.todo = @ \ {m},
                           !.sweep = With(@, m, Cursor(box[m]))])

\* Email/query in one mailbox.
Search(m) ==
    /\ InPhase("search") /\ m \in call.todo \cap DOMAIN box
    /\ Answer([call EXCEPT !.todo = @ \ {m},
           !.found = With(@, m, [uv |-> box[m].uv, uids |-> DOMAIN box[m].msgs])])

Comparing(m) ==
    /\ InPhase("compare") /\ m \in call.todo
    /\ DOMAIN token \subseteq DOMAIN call.sweep

\* Mutant: a mailbox without new mail is passed over.
SkipOld(m) ==
    /\ Comparing(m)
    /\ m \in DOMAIN token => /\ token[m].uv = call.sweep[m].uv
                             /\ token[m].next = call.sweep[m].next
    /\ Answer([call EXCEPT !.todo = @ \ {m}])

\* A mailbox new since sinceState, none of whose messages is reported, or one
\* with an unchanged mod-sequence.
Skip(m) ==
    /\ Comparing(m)
    /\ m \in DOMAIN token => /\ token[m].uv = call.sweep[m].uv
                             /\ token[m].modseq = call.sweep[m].modseq
    /\ Answer([call EXCEPT !.todo = @ \ {m}])

\* UID n:*, whose star is the largest UID even if it is below n.
FromUid(uids, n) == {u \in uids : u >= n \/ \A v \in uids : v <= u}

Differs(m) ==
    /\ Comparing(m) /\ m \in DOMAIN token
    /\ token[m].uv = call.sweep[m].uv
    /\ token[m].modseq # call.sweep[m].modseq

\* SELECT and SEARCH.
Find(m) ==
    /\ Differs(m) /\ DOMAIN call.news = {}
    /\ m \in DOMAIN box
    /\ Answer([call EXCEPT !.news =
           With(@, m, IF call.sweep[m].next > token[m].next
                        THEN FromUid(DOMAIN box[m].msgs, token[m].next) ELSE {})])

\* verify_no_missing_destroys
Reconciles(m) ==
    Exists(call.sweep[m]) = Exists(token[m]) + Cardinality(call.news[m])

\* Mutant: changes since the new state string.
FetchChangedLate(m) ==
    /\ Differs(m) /\ m \in DOMAIN call.news
    /\ m \in DOMAIN box
    /\ Reconciles(m)
    /\ LET b == box[m]
           changed == {u \in DOMAIN b.msgs : b.msgs[u] > call.sweep[m].modseq}
       IN  Answer([call EXCEPT !.todo = @ \ {m}, !.news = Empty,
             !.found = With(@, m, [uv |-> call.sweep[m].uv,
                                   uids |-> call.news[m] \cup changed])])

\* FETCH CHANGEDSINCE.
FetchChanged(m) ==
    /\ Differs(m) /\ m \in DOMAIN call.news
    /\ m \in DOMAIN box
    /\ Reconciles(m)
    /\ LET b == box[m]
           changed == {u \in DOMAIN b.msgs : b.msgs[u] > token[m].modseq}
       IN  Answer([call EXCEPT !.todo = @ \ {m}, !.news = Empty,
             !.found = With(@, m, [uv |-> call.sweep[m].uv,
                                   uids |-> call.news[m] \cup changed])])

\* cannotCalculateChanges: the client drops its mirror.
CannotCalculate ==
    \/ ~(DOMAIN token \subseteq DOMAIN call.sweep)
    \/ \E m \in call.todo \cap DOMAIN token : token[m].uv # call.sweep[m].uv
    \/ \E m \in DOMAIN call.news \cap DOMAIN box : ~Reconciles(m)

Refuse ==
    /\ InPhase("compare")
    /\ CannotCalculate
    /\ call' = NoCall
    /\ synced' = FALSE /\ token' = Empty /\ mirror' = Empty /\ since' = Empty
    /\ UNCHANGED env

\* Email/get in one mailbox, by id.
Get(m) ==
    /\ InPhase("get") /\ m \in call.todo
    /\ LET there == m \in DOMAIN box /\ box[m].uv = call.found[m].uv
           uids  == IF there THEN call.found[m].uids \cap DOMAIN box[m].msgs
                             ELSE {}
       IN  Answer([call EXCEPT !.todo = @ \ {m},
             !.got = With(@, m, [u \in uids |-> box[m].msgs[u]])])

\* serverFail: a mailbox is gone, or the connection is.
Missing ==
    /\ \E m \in call.todo \ DOMAIN box :
          InPhase("state") \/ InPhase("search") \/ Differs(m)
    /\ Answer(NoCall)

Lost ==
    /\ ~Idle
    /\ Outside
    /\ call' = NoCall
    /\ UNCHANGED <<server, box, client>>

\* The present call is done; a cached sweep makes "state" no work at all.
Finished ==
    /\ ~Idle
    /\ call.todo = {}
    /\ InPhase("state") => call.swept \/ call.listed
    /\ InPhase("search") => call.listed
    /\ InPhase("compare") => DOMAIN token \subseteq DOMAIN call.sweep

NextPhase ==
    /\ Finished
    /\ call.at < Len(call.plan)
    /\ LET next == call.plan[call.at + 1]
       IN  Answer([call EXCEPT !.at = @ + 1, !.listed = FALSE,
             !.swept = @ \/ InPhase("state"),
             !.todo = IF next = "compare" THEN DOMAIN call.sweep
                      ELSE IF next = "get" THEN DOMAIN call.found ELSE {}])

\* A mailbox that the client has heard of from Mailbox/changes only is empty.
Copies(m) == IF m \in DOMAIN mirror THEN mirror[m] ELSE Empty

\* The client after Email/get: notFound ids go, the others are replaced.
Refreshed(m) ==
    IF m \notin DOMAIN call.found THEN Copies(m)
    ELSE LET kept == DOMAIN Copies(m) \ call.found[m].uids
             got  == call.got[m]
         IN  [u \in kept \cup DOMAIN got |-> IF u \in DOMAIN got THEN got[u]
                                                            ELSE Copies(m)[u]]

\* The mailboxes whose mail a client that boots has.
Booted == DOMAIN call.sweep \cap DOMAIN call.got

Adopt ==
    /\ Finished
    /\ call.at = Len(call.plan)
    /\ mirror' = IF synced THEN [m \in DOMAIN call.sweep |-> Refreshed(m)]
                           ELSE [m \in Booted |-> call.got[m]]
    /\ since' = IF synced
         THEN [m \in DOMAIN call.sweep |-> IF m \in DOMAIN mirror THEN since[m]
                                                                 ELSE call.sweep[m].modseq]
         ELSE [m \in Booted |-> 0]
    /\ synced' = TRUE
    /\ token' = call.sweep
    /\ call' = NoCall
    /\ UNCHANGED env

-----------------------------------------------------------------------------
Changing ==
    \E m \in Mailbox :
        \/ Deliver(m) \/ Create(m) \/ Drop(m)
        \/ m \in DOMAIN box /\ \E u \in DOMAIN box[m].msgs :
              SetFlags(m, u) \/ Expunge(m, u)

Working ==
    \/ Start \/ List \/ Refuse \/ Missing \/ NextPhase \/ Adopt
    \/ \E m \in Mailbox :
          Select(m) \/ Search(m) \/ Skip(m) \/ Find(m) \/ FetchChanged(m) \/ Get(m)

Next == Changing \/ Working \/ Lost

Spec == Init /\ [][Next]_vars

\* The client goes on asking, and handlers go on running.
FairSpec == Spec /\ WF_vars(Working)
-----------------------------------------------------------------------------
IsMap(f, S) == DOMAIN f \subseteq S /\ f = [x \in DOMAIN f |-> f[x]]

IsMessages(f) == IsMap(f, Nat) /\ \A u \in DOMAIN f : f[u] \in Nat

IsCursor(c) ==
    c \in [uv : 1..(changes + 1), next : Nat, modseq : Nat, uids : SUBSET Nat]

\* The server hands out UIDs and mod-sequences in ascending order.
BoxOK ==
    /\ server \in Servers
    /\ changes \in 0..MaxChanges
    /\ IsMap(box, Mailbox)
    /\ \A m \in DOMAIN box :
          /\ box[m] \in [uv : 1..(changes + 1), next : Nat, modseq : Nat,
                         msgs : {box[m].msgs}]
          /\ IsMessages(box[m].msgs)
          /\ \A u \in DOMAIN box[m].msgs :
                u < box[m].next /\ box[m].msgs[u] <= box[m].modseq

ClientOK ==
    /\ synced \in BOOLEAN
    /\ IsMap(token, Mailbox) /\ \A m \in DOMAIN token : IsCursor(token[m])
    /\ IsMap(mirror, DOMAIN token)
    /\ \A m \in DOMAIN mirror : IsMessages(mirror[m])
    /\ IsMap(since, DOMAIN mirror) /\ DOMAIN since = DOMAIN mirror
    /\ \A m \in DOMAIN since : since[m] \in Nat

CallOK ==
    /\ call \in [plan : Boots \cup {ChangesPlan}, at : 0..5,
                 listed : BOOLEAN, todo : SUBSET Mailbox, swept : BOOLEAN,
                 sweep : {call.sweep}, news : {call.news},
                 found : {call.found}, got : {call.got}]
    /\ ~Idle => call.at <= Len(call.plan) /\ (synced <=> call.plan = ChangesPlan)
    /\ InPhase("get") => call.todo \subseteq DOMAIN call.found
    /\ InPhase("compare") => call.todo \subseteq DOMAIN call.sweep
    /\ IsMap(call.sweep, Mailbox)
    /\ \A m \in DOMAIN call.sweep : IsCursor(call.sweep[m])
    /\ IsMap(call.news, Mailbox)
    /\ \A m \in DOMAIN call.news : call.news[m] \subseteq Nat
    /\ IsMap(call.found, Mailbox)
    /\ \A m \in DOMAIN call.found :
          call.found[m] \in [uv : 1..(changes + 1), uids : SUBSET Nat]
    /\ IsMap(call.got, DOMAIN call.found)
    /\ \A m \in DOMAIN call.got : IsMessages(call.got[m])

\* Types, and what is filled in.
TypeOK == BoxOK /\ ClientOK /\ CallOK

\* The client has message u of mailbox m with its present content and flags.
Has(m, u) == u \in DOMAIN mirror[m] /\ mirror[m][u] = box[m].msgs[u]

\* Of a mailbox that is in the state string as the bridge would say it now, the
\* client has every message, each with its present content and flags: nothing
\* happens between two answers, or inside one, that no answer reports.
\* Excepted is what email.py:747 leaves out: the messages that were in a mailbox
\* when it came into the state string, unless its mail was searched then, or
\* they changed since.
MirrorComplete ==
    \A m \in DOMAIN token \cap DOMAIN box :
        SameCursor(token[m], Cursor(box[m])) =>
            /\ m \in DOMAIN mirror
            /\ \A u \in DOMAIN box[m].msgs : box[m].msgs[u] > since[m] => Has(m, u)

\* email.py:717 says of Email/changes that "reporting `destroyed: []`" is
\* "actually true, not just unknown": such a client has no message that is
\* gone from the server.
NoPhantom ==
    \A m \in DOMAIN mirror \cap DOMAIN box :
        SameCursor(token[m], Cursor(box[m])) =>
            DOMAIN mirror[m] \subseteq DOMAIN box[m].msgs

\* Once the mailboxes stop changing, a client that keeps asking ends up with
\* every mailbox, and every message but those that email.py:747 leaves out: no
\* refusal, failure or half-seen change keeps them away.
EventuallyComplete ==
    <>[](/\ synced /\ DOMAIN mirror = DOMAIN box
         /\ \A m \in DOMAIN mirror : \A u \in DOMAIN box[m].msgs :
                box[m].msgs[u] > since[m] => Has(m, u))

-----------------------------------------------------------------------------
(***************************************************************************)
(* What JMAP promises and the code does not do.                            *)
(***************************************************************************)
\* MirrorComplete without its exception.  Mail that was in a new mailbox before
\* the client's next Email/changes is never reported (email.py:747).
NewMailboxesToo ==
    \A m \in DOMAIN token \cap DOMAIN box :
        SameCursor(token[m], Cursor(box[m])) =>
            m \in DOMAIN mirror /\ \A u \in DOMAIN box[m].msgs : Has(m, u)
=============================================================================
