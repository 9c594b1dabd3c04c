----------------------------- MODULE EmailMoves -----------------------------
(***************************************************************************)
(* Email/set on messages that already exist (types/email.py): concurrent   *)
(* updates that replace keywords or change mailboxIds, which is a COPY     *)
(* followed by a deletion, and destroys; the ids, which name a physical    *)
(* location, and the redirects that keep them valid across a move.         *)
(*                                                                         *)
(* An id is <<mailbox, uid>>; UIDVALIDITY does not change here.  UIDs grow *)
(* across mailboxes, so that their order is the order of creation.         *)
(***************************************************************************)
EXTENDS IdRedirect, FiniteSets

CONSTANTS Message, Mailbox,
    Handler,   \* concurrent _apply_email_update and _destroy_one_email calls
    None,
    MaxUid     \* bound: copies ever made

ASSUME MovesAssumption ==
    /\ None \notin Message
    /\ MaxUid \in Nat \ {0}

Id == Mailbox \X (1..MaxUid)

ASSUME NoneIsNoId == None \notin Id

VARIABLES
    store,      \* the message at each location
    deleted,    \* locations whose message has the \Deleted flag
    uid,        \* the last UID assigned
    redirects,  \* the account's IdRedirectCache table
    call,       \* what each handler does
    issued,     \* history: the message each location was first given
    destroyed,  \* history: messages a client asked to destroy
    moved       \* history: ids left by moves with a recorded redirect

server == <<store, deleted, uid, issued>>
vars == <<server, redirects, call, destroyed, moved>>

Idle == [pc |-> "idle"]

Init ==
    /\ store = [x \in Id |-> None]
    /\ deleted = {}
    /\ uid = 0
    /\ redirects = <<>>
    /\ call = [t \in Handler |-> Idle]
    /\ issued = [x \in Id |-> None]
    /\ destroyed = {}
    /\ moved = {}

-----------------------------------------------------------------------------
\* The server gives msg the next UID in mailbox m.
Place(msg, m) ==
    /\ uid < MaxUid
    /\ uid' = uid + 1
    /\ store' = [store EXCEPT ![<<m, uid + 1>>] = msg]
    /\ issued' = [issued EXCEPT ![<<m, uid + 1>>] = msg]

\* A message arrives.
Deliver(msg, m) ==
    /\ \A x \in Id : issued[x] # msg
    /\ Place(msg, m)
    /\ UNCHANGED <<deleted, redirects, call, destroyed, moved>>

Become(t, c) == call' = [call EXCEPT ![t] = c]

\* Nothing to copy: the patch ends here, with an error if targets is empty.
Copying(id, at, targets) ==
    IF targets \subseteq {at[1]} THEN Idle
    ELSE [pc |-> "copying", asked |-> id, at |-> at,
          todo |-> targets \ {at[1]},
          only |-> Cardinality(targets \ {at[1]}) = 1,
          leaves |-> at[1] \notin targets]

\* A client knows an id; the redirect is preferred over the id's location.
Known(id) == issued[id] # None

StartMove(t, id, targets) ==
    /\ call[t] = Idle /\ Known(id)
    /\ Become(t, Copying(id, Resolve(redirects, id), targets))
    /\ call' # call
    /\ UNCHANGED <<server, redirects, destroyed, moved>>

\* A patch that replaces the keywords, and perhaps mailboxIds after it.
StartKeywords(t, id, targets) ==
    /\ call[t] = Idle /\ Known(id)
    /\ Become(t, [pc |-> "keywords", asked |-> id, targets |-> targets,
                  at |-> Resolve(redirects, id)])
    /\ UNCHANGED <<server, redirects, destroyed, moved>>

StartDestroy(t, id) ==
    /\ call[t] = Idle /\ Known(id)
    /\ Become(t, [pc |-> "flagging", asked |-> id, at |-> Resolve(redirects, id),
                  moves |-> FALSE])
    /\ destroyed' = destroyed \cup {issued[id]}
    /\ UNCHANGED <<server, redirects, moved>>

\* STORE FLAGS replaces all flags, \Deleted too.
SetKeywords(t) ==
    /\ call[t].pc = "keywords"
    /\ deleted' = deleted \ {call[t].at}
    /\ Become(t, Copying(call[t].asked, call[t].at, call[t].targets))
    /\ UNCHANGED <<store, uid, issued, redirects, destroyed, moved>>

\* After the last COPY, which reported the id `landed` or None, and before
\* the next await.
AfterCopy(t, m, landed) ==
    LET c == call[t]
        rest == c.todo \ {m}
        recorded == rest = {} /\ c.leaves /\ c.only /\ landed # None
    IN /\ redirects' = IF recorded THEN Record(redirects, c.asked, landed) ELSE redirects
       /\ Become(t, IF rest # {} THEN [c EXCEPT !.todo = rest]
                    ELSE IF ~c.leaves THEN Idle
                    ELSE [pc |-> "flagging", asked |-> c.asked, at |-> c.at,
                          moves |-> recorded])

CopyMissing(t, m) ==
    /\ store[call[t].at] = None
    /\ UNCHANGED <<store, deleted, uid, issued>>
    /\ AfterCopy(t, m, None)

CopyThere(t, m) ==
    /\ store[call[t].at] # None
    /\ Place(store[call[t].at], m)
    /\ deleted' = IF call[t].at \in deleted THEN deleted \cup {<<m, uid + 1>>} ELSE deleted
    /\ \E landed \in {<<m, uid + 1>>, None} : AfterCopy(t, m, landed)

\* Mutant: the COPYUID of an earlier command is read when this COPY has none.
CopyStale(t) ==
    /\ call[t].pc = "copying"
    /\ \E m \in call[t].todo :
        \/ CopyThere(t, m)
        \/ /\ store[call[t].at] = None
           /\ UNCHANGED <<store, deleted, uid, issued>>
           /\ \E landed \in {x \in Id : x[1] = m /\ Known(x)} : AfterCopy(t, m, landed)
    /\ UNCHANGED <<destroyed, moved>>

\* Mutant: a COPY that fails is taken for one without COPYUID.
CopyUnchecked(t) ==
    /\ call[t].pc = "copying"
    /\ \E m \in call[t].todo :
        \/ CopyThere(t, m)
        \/ UNCHANGED <<store, deleted, uid, issued>> /\ AfterCopy(t, m, None)
    /\ UNCHANGED <<destroyed, moved>>

\* UID COPY of a message that is gone succeeds and copies nothing; the copy
\* has the flags.  A server need not report COPYUID.
Copy(t) ==
    /\ call[t].pc = "copying"
    /\ \E m \in call[t].todo : CopyThere(t, m) \/ CopyMissing(t, m)
    /\ UNCHANGED <<destroyed, moved>>

Flag(t) ==
    /\ call[t].pc = "flagging"
    /\ deleted' = IF store[call[t].at] # None THEN deleted \cup {call[t].at} ELSE deleted
    /\ Become(t, [call[t] EXCEPT !.pc = "expunging"])
    /\ UNCHANGED <<store, uid, issued, redirects, destroyed, moved>>

\* UID EXPUNGE removes the message if it has the flag, which another handler
\* may have replaced.
Expunge(t) ==
    /\ call[t].pc = "expunging"
    /\ LET x == call[t].at IN
        /\ IF x \in deleted
             THEN store' = [store EXCEPT ![x] = None] /\ deleted' = deleted \ {x}
             ELSE UNCHANGED <<store, deleted>>
        /\ moved' = IF call[t].moves THEN moved \cup {call[t].asked, x} ELSE moved
    /\ Become(t, Idle)
    /\ UNCHANGED <<uid, issued, redirects, destroyed>>

\* An ImapError, or the request is cancelled.
Abort(t) ==
    /\ call[t] # Idle
    /\ Become(t, Idle)
    /\ UNCHANGED <<server, redirects, destroyed, moved>>

\* The bridge is restarted; the redirects are in memory only.
Restart ==
    /\ redirects' = <<>>
    /\ call' = [t \in Handler |-> Idle]
    /\ moved' = {}
    /\ UNCHANGED <<server, destroyed>>

Step(t) ==
    \/ \E id \in Id : \/ \E targets \in SUBSET Mailbox : StartMove(t, id, targets)
                      \/ \E targets \in SUBSET Mailbox : StartKeywords(t, id, targets)
                      \/ StartDestroy(t, id)
    \/ SetKeywords(t) \/ Copy(t) \/ Flag(t) \/ Expunge(t) \/ Abort(t)

Next ==
    \/ \E msg \in Message, m \in Mailbox : Deliver(msg, m)
    \/ \E t \in Handler : Step(t)
    \/ Restart

Spec == Init /\ [][Next]_vars

-----------------------------------------------------------------------------
Calls ==
    {Idle}
    \cup [pc : {"keywords"}, asked : Id, at : Id, targets : SUBSET Mailbox]
    \cup [pc : {"copying"}, asked : Id, at : Id, todo : SUBSET Mailbox,
          only : BOOLEAN, leaves : BOOLEAN]
    \cup [pc : {"flagging", "expunging"}, asked : Id, at : Id, moves : BOOLEAN]

\* Types; UIDs are assigned once, in order; only what is there has a flag;
\* the redirects are a table of at most MaxEntries.
TypeOK ==
    /\ store \in [Id -> Message \cup {None}]
    /\ issued \in [Id -> Message \cup {None}]
    /\ uid \in 0..MaxUid
    /\ \A x \in Id : /\ x[2] > uid => issued[x] = None
                     /\ x \in deleted => store[x] # None
    /\ deleted \subseteq Id
    /\ redirects \in Seq([old : Id, new : Id])
    /\ IsTable(redirects) /\ Len(redirects) <= MaxEntries
    /\ call \in [Handler -> Calls]
    /\ destroyed \subseteq Message
    /\ moved \subseteq Id

Clean(msg) == \E x \in Id : store[x] = msg /\ x \notin deleted

\* However moves, keyword changes, failures and restarts interleave, a
\* message no client destroyed has a copy that is not marked for deletion.
Survives ==
    \A x \in Id : Known(x) /\ issued[x] \notin destroyed => Clean(issued[x])

\* Where Email/get looks: at the id's own location, else where it resolves.
Found(id) ==
    IF store[id] # None THEN store[id] ELSE store[Resolve(redirects, id)]

\* An id never shows, and no handler that was asked for it ever works on,
\* another message than the one it was issued for.
RightMessage ==
    /\ \A x \in Id : Known(x) => Found(x) \in {issued[x], None}
    /\ \A t \in Handler : call[t] # Idle =>
            store[call[t].at] \in {issued[call[t].asked], None}

-----------------------------------------------------------------------------
(***************************************************************************)
(* What the docs claim and the code does not do.                           *)
(***************************************************************************)
\* email.py:6: "A moved message's old id is kept resolvable via an in-memory
\* redirect for the rest of this process's uptime".  False for the id between
\* two moves that were both asked for by the first id.
OldIdsResolve ==
    (\A t \in Handler : call[t] = Idle) =>
        \A x \in moved : Clean(issued[x]) => Found(x) # None
=============================================================================
