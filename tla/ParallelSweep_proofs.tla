------------------------ MODULE ParallelSweep_proofs ------------------------
(***************************************************************************)
(* Proofs about what a request shares (context.py): that ParallelSweep     *)
(* cannot deadlock while fewer requests than max_per_user run at a time,   *)
(* that the calls of RequestBatch see what earlier ones did, and that what *)
(* Thread/get finds in parallel is whole.  The three have no state in      *)
(* common.                                                                 *)
(***************************************************************************)
EXTENDS ParallelSweep, MCRequestBatch, FiniteSetTheorems, TLAPS

USE SweepAssumption

\* The pool's bound, and who holds its connections.
Within ==
    /\ IsFiniteSet(granted)
    /\ Cardinality(granted) <= MaxPerUser

IInv == TypeOK /\ HoldersAreActive /\ Within

LEMMA InitIInv == Init => IInv
<1> SUFFICES ASSUME Init PROVE IInv
  OBVIOUS
<1>1. granted = {}
  BY DEF Init, Pool!Init
<1>2. TypeOK /\ HoldersAreActive
  BY <1>1 DEF Init, TypeOK, HoldersAreActive
<1>3. Within
  BY <1>1, FS_EmptySet DEF Within
<1> QED
  BY <1>2, <1>3 DEF IInv

-----------------------------------------------------------------------------
\* What the pool's two operations do to the set of holders.
LEMMA PoolCardinality == \A S : Pool!Cardinality(S) = Cardinality(S)
BY DEF Pool!Cardinality, Cardinality

LEMMA GrantStep ==
  ASSUME NEW t, Within, Pool!Grant(t)
  PROVE  granted' = granted \cup {t} /\ Within'
<1>1. /\ t \notin granted
      /\ Cardinality(granted) < MaxPerUser
      /\ granted' = granted \cup {t}
  BY PoolCardinality DEF Pool!Grant
<1>2. /\ IsFiniteSet(granted \cup {t})
      /\ Cardinality(granted \cup {t}) = Cardinality(granted) + 1
  BY <1>1, FS_AddElement DEF Within
<1>3. Cardinality(granted) \in Nat
  BY FS_CardinalityType DEF Within
<1> QED
  BY <1>1, <1>2, <1>3 DEF Within

LEMMA ReturnStep ==
  ASSUME NEW t, Within, granted' = granted \ {t}
  PROVE  Within'
<1>1. /\ IsFiniteSet(granted \ {t})
      /\ Cardinality(granted \ {t}) <= Cardinality(granted)
  BY FS_Subset, FS_CardinalityType DEF Within
<1>2. Cardinality(granted) \in Nat /\ Cardinality(granted \ {t}) \in Nat
  BY <1>1, FS_CardinalityType DEF Within
<1> QED
  BY <1>1, <1>2 DEF Within

LEMMA ReleaseStep ==
  ASSUME NEW t, Within, Pool!Release(t)
  PROVE  t \in granted /\ granted' = granted \ {t} /\ Within'
<1>1. t \in granted /\ granted' = granted \ {t}
  BY DEF Pool!Release
<1> QED
  BY <1>1, ReturnStep

-----------------------------------------------------------------------------
LEMMA LeaveStep ==
  ASSUME IInv, NEW r \in Request, Leave(r),
         phase[r] \in {"listing", "sweeping", "cancelling"}
  PROVE  IInv'
<1> USE DEF IInv
<1>1. granted' = granted \ {r} /\ Within'
  BY ReleaseStep DEF Leave
<1>2. TypeOK'
  BY <1>1 DEF Leave, TypeOK
<1>3. HoldersAreActive'
  BY <1>1 DEF Leave, TypeOK, HoldersAreActive
<1> QED
  BY <1>1, <1>2, <1>3

LEMMA ForkStep ==
  ASSUME IInv, NEW r \in Request, Fork(r)
  PROVE  IInv'
<1> USE DEF IInv
<1>1. PICK team \in SUBSET Unused :
        /\ job' = [w \in Worker |-> IF w \in team THEN "waiting" ELSE job[w]]
        /\ owner' = [w \in Worker |-> IF w \in team THEN r ELSE owner[w]]
  BY DEF Fork
<1>2. /\ phase[r] = "listing"
      /\ phase' = [phase EXCEPT ![r] = "sweeping"]
      /\ granted' = granted
  BY DEF Fork
<1>3. \A w \in team : w \in Worker /\ job[w] = "none"
  BY DEF Unused
<1>4. TypeOK'
  BY <1>1, <1>2, <1>3 DEF TypeOK
<1>5. HoldersAreActive'
  BY <1>1, <1>2, <1>3 DEF TypeOK, HoldersAreActive
<1> QED
  BY <1>2, <1>4, <1>5 DEF Within

LEMMA RequestPreserves ==
  ASSUME IInv, NEW r \in Request, RequestStep(r)
  PROVE  IInv'
<1> USE DEF IInv
<1>1. CASE Arrive(r) \/ OpenFails(r)
  BY <1>1 DEF Arrive, OpenFails, TypeOK, HoldersAreActive, Within
<1>2. CASE Open(r)
  <2>1. granted' = granted \cup {r} /\ Within'
    BY <1>2, GrantStep DEF Open
  <2>2. TypeOK' /\ HoldersAreActive'
    BY <1>2, <2>1 DEF Open, TypeOK, HoldersAreActive
  <2> QED
    BY <2>1, <2>2
<1>3. CASE Fork(r)
  BY <1>3, ForkStep
<1>4. CASE ListOnly(r) \/ Join(r) \/ JoinRaises(r) \/ Cancelled(r)
  BY <1>4, LeaveStep DEF ListOnly, Join, JoinRaises, Cancelled
<1>5. CASE Cancel(r)
  BY <1>5 DEF Cancel, TypeOK, HoldersAreActive, Within
<1> QED
  BY <1>1, <1>2, <1>3, <1>4, <1>5 DEF RequestStep

LEMMA WorkerPreserves ==
  ASSUME IInv, NEW w \in Worker, WorkerStep(w)
  PROVE  IInv'
<1> USE DEF IInv
<1>1. CASE OpenChunk(w)
  <2>1. granted' = granted \cup {w} /\ Within'
    BY <1>1, GrantStep DEF OpenChunk
  <2>2. TypeOK' /\ HoldersAreActive'
    BY <1>1, <2>1 DEF OpenChunk, TypeOK, HoldersAreActive
  <2> QED
    BY <2>1, <2>2
<1>2. CASE ChunkWaitFails(w)
  BY <1>2 DEF ChunkWaitFails, End, TypeOK, HoldersAreActive, Within
<1>3. CASE ChunkDone(w) \/ ChunkFails(w)
  <2>1. granted' = granted \ {w} /\ Within'
    BY <1>3, ReleaseStep DEF ChunkDone, ChunkFails
  <2>2. TypeOK' /\ HoldersAreActive'
    BY <1>3, <2>1 DEF ChunkDone, ChunkFails, End, TypeOK, HoldersAreActive
  <2> QED
    BY <2>1, <2>2
<1>4. CASE ChunkCancelled(w)
  <2>1. granted' = granted \ {w} /\ Within'
    BY <1>4, ReturnStep DEF ChunkCancelled
  <2>2. TypeOK' /\ HoldersAreActive'
    BY <1>4, <2>1 DEF ChunkCancelled, End, TypeOK, HoldersAreActive
  <2> QED
    BY <2>1, <2>2
<1> QED
  BY <1>1, <1>2, <1>3, <1>4 DEF WorkerStep

\* The inductive invariant.
THEOREM SweepInvariance == Spec => []IInv
<1>1. IInv /\ [Next]_vars => IInv'
  <2>1. CASE UNCHANGED vars
    BY <2>1 DEF vars, IInv, TypeOK, HoldersAreActive, Within
  <2>2. ASSUME IInv, Next PROVE IInv'
    BY <2>2, RequestPreserves, WorkerPreserves DEF Next
  <2> QED
    BY <2>1, <2>2
<1> QED
  BY InitIInv, <1>1, PTL DEF Spec

\* The handlers' and tasks' states keep their types, and gather() awaits
\* only tasks it created (context.py:150).
THEOREM SweepTypes == Spec => []TypeOK
BY SweepInvariance, PTL DEF IInv

\* Connections are held by exactly the handlers and chunks that are inside
\* their `async with` (context.py:143-148).
THEOREM NoneKept == Spec => []HoldersAreActive
BY SweepInvariance, PTL DEF IInv

-----------------------------------------------------------------------------
LEMMA FewRequests ==
  ASSUME IInv, Cardinality(Request) < MaxPerUser
  PROVE  SomebodyCanProceed
<1> SUFFICES ASSUME ~(Cardinality(granted) < MaxPerUser)
             PROVE  \E t \in granted : CanGoOn(t)
  BY DEF SomebodyCanProceed
<1>1. granted \subseteq Request => Cardinality(granted) <= Cardinality(Request)
  BY FS_Subset
<1>2. Cardinality(granted) \in Nat /\ Cardinality(Request) \in Nat
  BY FS_CardinalityType DEF IInv, Within
<1>3. PICK w \in granted : w \notin Request
  BY <1>1, <1>2
<1>4. w \in Worker /\ job[w] = "working"
  BY <1>3 DEF IInv, TypeOK, HoldersAreActive
<1> QED
  BY <1>4 DEF CanGoOn

\* The sweep holds a connection while it waits for others, which is safe as
\* long as fewer requests than max_per_user are in it (context.py:112-126):
\* then somebody who waits can always be served.
THEOREM NoHoldAndWait ==
  Cardinality(Request) < MaxPerUser => (Spec => []SomebodyCanProceed)
<1> SUFFICES ASSUME Cardinality(Request) < MaxPerUser
             PROVE  Spec => []SomebodyCanProceed
  OBVIOUS
<1>1. IInv => SomebodyCanProceed
  BY FewRequests
<1> QED
  BY SweepInvariance, <1>1, PTL

\* A step of a sweep does to the pool what a lease's holder may do, or nothing.
LEMMA SweepUsesPool ==
  ASSUME IInv, [Next]_vars
  PROVE  [Pool!Next]_<<granted, [t \in Request \cup Worker |-> None]>>
<1> SUFFICES (\E t \in Request \cup Worker : Pool!Grant(t) \/ Pool!Release(t))
             \/ UNCHANGED granted
  BY DEF Pool!Next
<1>1. CASE UNCHANGED vars
  BY <1>1 DEF vars
<1>2. ASSUME NEW r \in Request, RequestStep(r)
      PROVE  Pool!Grant(r) \/ Pool!Release(r) \/ UNCHANGED granted
  BY <1>2 DEF RequestStep, Arrive, Open, OpenFails, Fork, ListOnly, Join, JoinRaises,
              Cancel, Cancelled, Leave
<1>3. ASSUME NEW w \in Worker, WorkerStep(w)
      PROVE  Pool!Grant(w) \/ Pool!Release(w) \/ UNCHANGED granted
  <2>1. CASE ChunkCancelled(w)
    <3>1. granted' = granted \ {w}
      BY <2>1 DEF ChunkCancelled
    <3>2. w \in granted => Pool!Release(w)
      BY <3>1 DEF Pool!Release
    <3>3. w \notin granted => UNCHANGED granted
      BY <3>1
    <3> QED
      BY <3>2, <3>3
  <2>2. CASE OpenChunk(w) \/ ChunkWaitFails(w) \/ ChunkDone(w) \/ ChunkFails(w)
    BY <2>2 DEF OpenChunk, ChunkWaitFails, ChunkDone, ChunkFails
  <2> QED
    BY <1>3, <2>1, <2>2 DEF WorkerStep
<1> QED
  BY <1>1, <1>2, <1>3 DEF Next

\* Handlers and chunks, cancelled and orphaned ones too, use the pool only as
\* a BoundedLease may be used (context.py:143-150), which ConnectionPool
\* implements.
THEOREM SweepsLease == Spec => Pool!Spec
<1>1. Init => Pool!Init
  BY DEF Init
<1>2. IInv /\ [Next]_vars =>
        [Pool!Next]_<<granted, [t \in Request \cup Worker |-> None]>>
  BY SweepUsesPool
<1> QED
  BY <1>1, <1>2, SweepInvariance, PTL DEF Spec, Pool!Spec

-----------------------------------------------------------------------------
(* The calls of one request and the sweep they share.                      *)

USE BatchConstants DEF Batch!BatchAssumption

\* The shared sweep covers what the successful sets changed.
Versions ==
    /\ mail \in Nat /\ own \in Nat /\ answered \in Nat
    /\ answered <= own /\ own <= mail
    /\ cache = Absent \/ (cache \in Nat /\ answered <= cache)

\* What the call at hand will have remembered is all that was made.
WillRemember ==
    /\ created \in [Creation -> Nat \cup {Absent}] /\ made \in [Creation -> Nat \cup {Absent}]
    /\ \/ call = Batch!Idle
       \/ /\ call.kind \in Batch!Kinds
          /\ call = [kind |-> call.kind, tag |-> call.tag, todo |-> call.todo,
                     since |-> call.since, did |-> call.did]
          /\ call.did \in [Creation -> Nat \cup {Absent}]
    /\ ~aborted =>
          \A c \in Creation :
             made[c] = IF call.kind = "set" /\ call.did[c] # Absent THEN call.did[c]
                       ELSE created[c]

BatchIInv == Versions /\ Batch!Fresh /\ WillRemember

LEMMA RepliesFresh ==
  ASSUME Versions, Batch!Fresh, NEW state \in {Batch!Swept, mail}, Batch!Reply(state)
  PROVE  Batch!Fresh'
<1>1. state \in Nat /\ state >= answered
  BY DEF Versions, Batch!Swept
<1>2. states' = states \cup {[state |-> state, own |-> call.since, answered |-> answered]}
  BY DEF Batch!Reply
<1> QED BY <1>1, <1>2 DEF Batch!Fresh

LEMMA InitBatch == Batch!Init => BatchIInv
BY DEF Batch!Init, BatchIInv, Versions, Batch!Fresh, WillRemember, Batch!Idle

LEMMA NextVersions ==
  ASSUME Versions, Batch!Fresh, [Batch!Next]_batchVars
  PROVE  Versions' /\ Batch!Fresh'
<1>1. CASE UNCHANGED <<mail, own, answered, cache, states>>
  BY <1>1 DEF Versions, Batch!Fresh
<1>2. CASE Batch!Read
  <2>1. Batch!Swept \in Nat /\ Batch!Swept >= answered
    BY DEF Versions, Batch!Swept
  <2> QED BY <1>2, <2>1, RepliesFresh DEF Batch!Read, Versions
<1>3. CASE Batch!ReadFresh
  BY <1>3, RepliesFresh DEF Batch!ReadFresh, Versions
<1>4. CASE Batch!EndSet
  BY <1>4, RepliesFresh DEF Batch!EndSet, Versions
<1>5. CASE Batch!Changes /\ own' \in {own, mail'} /\ UNCHANGED <<cache, answered, states>>
  BY <1>5 DEF Batch!Changes, Versions, Batch!Fresh
<1>6. ASSUME NEW c \in Batch!Calls, Batch!Begin(c)
      PROVE  UNCHANGED <<mail, own, answered, cache, states>>
  BY <1>6 DEF Batch!Begin
<1>7. ASSUME NEW c \in Creation, Batch!CreateOne(c)
      PROVE  \/ Batch!Changes /\ own' \in {own, mail'} /\ UNCHANGED <<cache, answered, states>>
             \/ UNCHANGED <<mail, own, answered, cache, states>>
  BY <1>7 DEF Batch!CreateOne
<1> QED BY <1>1, <1>2, <1>3, <1>4, <1>5, <1>6, <1>7
        DEF Batch!Next, Batch!ChangeOne, Batch!AbortSet, Batch!AbortRead,
            Batch!ChangeElsewhere, batchVars

LEMMA NextWillRemember ==
  ASSUME Versions, WillRemember, [Batch!Next]_batchVars
  PROVE  WillRemember'
<1>1. ASSUME UNCHANGED <<created, made, aborted>>,
             call' = Batch!Idle, call # Batch!Idle, call.kind # "set"
      PROVE  WillRemember'
  BY <1>1 DEF WillRemember, Batch!Idle
<1>2. CASE UNCHANGED <<created, made, call, aborted>>
  BY <1>2 DEF WillRemember
<1>3. ASSUME NEW c \in Batch!Calls, Batch!Begin(c) PROVE WillRemember'
  <2>1. CASE UNCHANGED call
    BY <1>3, <2>1, <1>2 DEF Batch!Begin
  <2>2. CASE call' = [kind |-> c.kind, tag |-> c.tag, todo |-> c.creates, since |-> own,
                      did |-> [x \in Creation |-> Absent]]
    <3>1. call = Batch!Idle /\ UNCHANGED <<created, made, aborted>> /\ c.kind \in Batch!Kinds
      BY <1>3 DEF Batch!Begin, Batch!Calls
    <3>2. /\ call'.kind \in Batch!Kinds /\ call'.did \in [Creation -> Nat \cup {Absent}]
          /\ call' = [kind |-> call'.kind, tag |-> call'.tag, todo |-> call'.todo,
                      since |-> call'.since, did |-> call'.did]
          /\ \A x \in Creation : call'.did[x] = Absent
      BY <2>2, <3>1
    <3>3. ~aborted => \A x \in Creation : made[x] = created[x]
      BY <3>1 DEF WillRemember, Batch!Idle
    <3> QED BY <3>1, <3>2, <3>3 DEF WillRemember
  <2> QED BY <1>3, <2>1, <2>2 DEF Batch!Begin
<1>4. CASE Batch!Read \/ Batch!ReadFresh \/ Batch!AbortRead
  BY <1>4, <1>1 DEF Batch!Read, Batch!ReadFresh, Batch!AbortRead, Batch!Reply, Batch!Idle
<1>5. ASSUME NEW c \in Creation, Batch!CreateOne(c) PROVE WillRemember'
  <2>1. /\ call.kind = "set" /\ UNCHANGED <<created, aborted>>
        /\ call = [kind |-> call.kind, tag |-> call.tag, todo |-> call.todo,
                   since |-> call.since, did |-> call.did]
        /\ call.did \in [Creation -> Nat \cup {Absent}]
    BY <1>5 DEF Batch!CreateOne, WillRemember, Batch!Idle
  <2>2. CASE /\ Batch!Changes
             /\ made' = [made EXCEPT ![c] = mail']
             /\ call' = [call EXCEPT !.todo = @ \ {c}, !.did[c] = mail']
    <3>1. mail' \in Nat /\ mail' # Absent
      BY <2>2 DEF Batch!Changes, Versions
    <3>2. /\ call'.kind = "set" /\ call'.did = [call.did EXCEPT ![c] = mail']
          /\ call' = [kind |-> call'.kind, tag |-> call'.tag, todo |-> call'.todo,
                      since |-> call'.since, did |-> call'.did]
      BY <2>1, <2>2
    <3>3. /\ call'.did \in [Creation -> Nat \cup {Absent}]
          /\ made' \in [Creation -> Nat \cup {Absent}]
      BY <2>1, <2>2, <3>1, <3>2 DEF WillRemember
    <3>4. \A x \in Creation : /\ made'[x] = IF x = c THEN mail' ELSE made[x]
                              /\ call'.did[x] = IF x = c THEN mail' ELSE call.did[x]
      BY <2>1, <2>2, <3>2 DEF WillRemember
    <3>5. ASSUME ~aborted', NEW x \in Creation
          PROVE  made'[x] = IF call'.kind = "set" /\ call'.did[x] # Absent THEN call'.did[x]
                            ELSE created'[x]
      <4>1. ~aborted /\ created' = created
        BY <2>1, <3>5
      <4>2. made[x] = IF call.did[x] # Absent THEN call.did[x] ELSE created[x]
        BY <4>1, <2>1 DEF WillRemember
      <4> QED BY <4>1, <4>2, <3>1, <3>2, <3>4
    <3>6. created' \in [Creation -> Nat \cup {Absent}] /\ call'.kind \in Batch!Kinds
      BY <2>1, <3>2 DEF WillRemember, Batch!Kinds
    <3> QED BY <3>2, <3>3, <3>5, <3>6 DEF WillRemember
  <2>3. CASE call' = [call EXCEPT !.todo = @ \ {c}] /\ UNCHANGED made
    <3>1. /\ call'.kind = "set" /\ call'.did = call.did
          /\ call' = [kind |-> call'.kind, tag |-> call'.tag, todo |-> call'.todo,
                      since |-> call'.since, did |-> call'.did]
      BY <2>1, <2>3
    <3>2. created' = created /\ made' = made /\ aborted' = aborted
      BY <2>1, <2>3
    <3>3. ASSUME ~aborted', NEW x \in Creation
          PROVE  made'[x] = IF call'.kind = "set" /\ call'.did[x] # Absent THEN call'.did[x]
                            ELSE created'[x]
      <4>1. made[x] = IF call.did[x] # Absent THEN call.did[x] ELSE created[x]
        BY <2>1, <3>2, <3>3 DEF WillRemember
      <4> QED BY <4>1, <3>1, <3>2
    <3>4. /\ call'.kind \in Batch!Kinds /\ call'.did \in [Creation -> Nat \cup {Absent}]
          /\ created' \in [Creation -> Nat \cup {Absent}]
          /\ made' \in [Creation -> Nat \cup {Absent}]
      BY <2>1, <3>1, <3>2 DEF WillRemember, Batch!Kinds
    <3> QED BY <3>1, <3>3, <3>4 DEF WillRemember
  <2> QED BY <1>5, <2>2, <2>3 DEF Batch!CreateOne
<1>6. CASE Batch!EndSet
  <2>1. /\ call.kind = "set" /\ call' = Batch!Idle /\ UNCHANGED <<made, aborted>>
        /\ created' = [c \in Creation |->
                         IF call.did[c] # Absent THEN call.did[c] ELSE created[c]]
    BY <1>6 DEF Batch!EndSet, Batch!Reply, Batch!RecordCreatedIds
  <2>2. call.did \in [Creation -> Nat \cup {Absent}]
    BY <2>1 DEF WillRemember, Batch!Idle
  <2>3. created' \in [Creation -> Nat \cup {Absent}]
    BY <2>1, <2>2 DEF WillRemember
  <2> QED BY <2>1, <2>3 DEF WillRemember, Batch!Idle
<1>7. CASE Batch!AbortSet
  BY <1>7 DEF Batch!AbortSet, WillRemember, Batch!Idle
<1>8. CASE Batch!ChangeOne \/ Batch!ChangeElsewhere
  BY <1>8, <1>2 DEF Batch!ChangeOne, Batch!ChangeElsewhere
<1> QED BY <1>2, <1>3, <1>4, <1>5, <1>6, <1>7, <1>8 DEF Batch!Next, batchVars

LEMMA RemembersAll == WillRemember => Batch!Remembered
<1> SUFFICES ASSUME WillRemember, ~aborted, call = Batch!Idle PROVE created = made
  BY DEF Batch!Remembered, Batch!AlwaysRemembered
<1>1. \A c \in Creation : made[c] = created[c]
  BY DEF WillRemember, Batch!Idle
<1> QED BY <1>1 DEF WillRemember

LEMMA RestsRemembers == BatchRests => BatchIInv
<1> SUFFICES ASSUME BatchRests PROVE BatchIInv
  OBVIOUS
<1>1. Versions /\ Batch!Fresh
  BY DEF BatchRests, Versions, Batch!Fresh
<1>2. WillRemember
  BY DEF BatchRests, WillRemember, Batch!Idle
<1> QED BY <1>1, <1>2 DEF BatchIInv

LEMMA BatchInvariance == RequestSpec => []BatchIInv
<1>1. RequestInit => BatchIInv
  BY InitBatch, RestsRemembers DEF RequestInit
<1>2. BatchIInv /\ [RequestNext]_<<batchVars, threadVars>> => BatchIInv'
  <2>1. BatchIInv /\ [Batch!Next]_batchVars => BatchIInv'
    BY NextVersions, NextWillRemember DEF BatchIInv
  <2> QED BY <2>1 DEF RequestNext
<1> QED BY <1>1, <1>2, PTL DEF RequestSpec

\* dispatch.py drops the request's cached sweep after every set that succeeds,
\* so what a later call answers covers it, however sets that fail, other calls
\* and other clients' changes come in between.
THEOREM SweepsAreFresh == RequestSpec => []Fresh
<1>1. BatchIInv => Fresh
  BY DEF BatchIInv, Fresh
<1> QED BY <1>1, BatchInvariance, PTL

\* A creation id used again, by the same or a later call of the request, leads
\* to the record it created last.
THEOREM CreationIdsLead == RequestSpec => []Remembered
<1>1. BatchIInv => Remembered
  BY RemembersAll DEF BatchIInv, Remembered
<1> QED BY <1>1, BatchInvariance, PTL
-----------------------------------------------------------------------------
(* What Thread/get finds.                                                  *)

USE ThreadConstants DEF Thread!ThreadAssumption

LEMMA SameSets ==
  \A S : /\ Thread!Cardinality(S) = Cardinality(S)
         /\ Thread!IsFiniteSet(S) <=> IsFiniteSet(S)
BY DEF Thread!Cardinality, Cardinality, Thread!IsFiniteSet, IsFiniteSet

IsId(t) == t = [kind |-> t.kind, basis |-> t.basis]

\* UIDs are given in ascending order.
Boxes ==
    /\ folder \in [Thread!Place -> Message \cup {Absent}]
    /\ next \in [Box -> Nat]
    /\ \A x \in Thread!Present : x[2] < next[x[1]]
    /\ stayed \subseteq Thread!Present
    /\ \A t \in told : IsId(t)

\* What a Thread/get that has not failed holds.
InShape ==
    \/ /\ get.pc = "batch"
       /\ get = [pc |-> "batch", status |-> get.status]
       /\ stayed = {}
    \/ /\ get.pc \in {"searching", "locating", "answered"}
       /\ get = [pc |-> get.pc, asked |-> get.asked, list |-> get.list,
                  located |-> get.located, unread |-> get.unread,
                  cached |-> get.cached, status |-> get.status,
                  at |-> get.at, hits |-> get.hits]
       /\ get.at \in [Box -> {"todo", "selected", "searched", "done"}]
       /\ get.hits \in [Box -> SUBSET Thread!Place]
       /\ get.cached \in BOOLEAN
       /\ \A t \in get.asked : IsId(t)

\* A SELECT's answer counts what was there: the mailbox has no more messages
\* until its UIDNEXT grows.
Counted ==
    /\ get.status \in [Box -> [uidnext : Nat, exists : Nat] \cup {Absent}]
    /\ \A b \in Box : get.status[b] # Absent =>
          /\ get.status[b].uidnext <= next[b]
          /\ get.status[b].uidnext = next[b] =>
                Thread!Status(b).exists <= get.status[b].exists

\* A mailbox that is as its status says.
Settled(b) == Thread!Roots(get.asked) # {} /\ get.status[b] = Thread!Status(b)

\* The messages that the answer must have.
Kept == stayed \cup {x \in Thread!Present : Settled(x[1])}

Entry(x) == [id |-> x, in |-> Thread!ThreadAt(x)]

\* Nothing else is on the list.
Listed ==
    \A l \in get.list :
        /\ l.id \in Thread!Place /\ l = [id |-> l.id, in |-> l.in]
        /\ l.id[2] < next[l.id[1]]
        /\ folder[l.id] # Absent => l.in = Thread!ThreadAt(l.id)
        /\ Settled(l.id[1]) => l.id \in Thread!Present

Searched ==
    get.pc = "searching" =>
        /\ Thread!Roots(get.asked) # {} /\ get.located = {}
        /\ \A b \in Box :
              /\ get.cached \/ get.at[b] # "todo" => get.status[b] # Absent
              /\ get.at[b] # "done" => \A l \in get.list : l.id[1] # b
              /\ \A x \in get.hits[b] : x[1] = b
        /\ \A x \in Kept : Thread!Mentions(folder[x], Thread!Roots(get.asked)) =>
              /\ get.at[x[1]] = "searched" => x \in get.hits[x[1]]
              /\ get.at[x[1]] = "done" => Entry(x) \in get.list

Sorted ==
    get.pc \in {"locating", "answered"} =>
        /\ Thread!Roots(get.asked) # {} => Thread!Swept
        /\ \A l \in get.list : l.in \in get.asked
        /\ \A x \in Kept : Thread!ThreadAt(x) \in get.asked =>
              \/ Entry(x) \in get.list
              \/ /\ get.pc = "locating" /\ Thread!ThreadAt(x).kind = "L"
                 /\ x \in Thread!Places(get.asked) \ get.located
              \/ Thread!Unread(Thread!ThreadAt(x))

Reported == get.pc \notin {"batch", "failed"} => Listed /\ Searched /\ Sorted

ThreadsIInv == Boxes /\ (get.pc # "failed" => InShape /\ Counted /\ Reported)

-----------------------------------------------------------------------------
PresentIn(b) == {x \in Thread!Present : x[1] = b}

LEMMA PlacesAreFinite ==
  /\ IsFiniteSet(Thread!Place)
  /\ \A S \in SUBSET Thread!Place : IsFiniteSet(S) /\ Cardinality(S) \in Nat
  /\ \A b \in Box : IsFiniteSet(PresentIn(b))
<1>1. IsFiniteSet(Thread!Place)
  <2>1. IsFiniteSet(1..MaxUid)
    <3>1. 1 \in Int /\ MaxUid \in Int
      OBVIOUS
    <3> QED BY <3>1, FS_Interval
  <2> QED BY <2>1, FS_Product, SameSets DEF Thread!Place
<1>2. \A b \in Box : PresentIn(b) \in SUBSET Thread!Place
  BY DEF PresentIn, Thread!Present
<1>3. \A S \in SUBSET Thread!Place : IsFiniteSet(S)
  BY <1>1, FS_Subset
<1> QED BY <1>1, <1>2, <1>3, FS_CardinalityType

LEMMA StatusType ==
  ASSUME next \in [Box -> Nat], NEW b \in Box
  PROVE  /\ Thread!Status(b) = [uidnext |-> next[b], exists |-> Cardinality(PresentIn(b))]
         /\ Thread!Status(b) \in [uidnext : Nat, exists : Nat]
         /\ Thread!Status(b) # Absent
<1>1. Cardinality(PresentIn(b)) \in Nat
  BY PlacesAreFinite, FS_CardinalityType
<1>2. Thread!Status(b) = [uidnext |-> next[b], exists |-> Cardinality(PresentIn(b))]
  BY SameSets DEF Thread!Status, PresentIn
<1> QED BY <1>1, <1>2

\* Messages come and go, and none comes where one was.
Later ==
    /\ UNCHANGED get /\ stayed' \subseteq stayed
    /\ \A b \in Box : next[b] <= next'[b]
    /\ \A x \in Thread!Place : x[2] < next[x[1]] => folder'[x] \in {folder[x], Absent}

Moves ==
    \/ \E msg \in Message, b \in Box : Thread!Deliver(msg, b)
    \/ \E x \in Thread!Place : Thread!Expunge(x) \/ \E b \in Box : Thread!Move(x, b)

LEMMA PlaceParts ==
  /\ \A x \in Thread!Place : x[1] \in Box /\ x[2] \in 1..MaxUid /\ x = <<x[1], x[2]>>
  /\ \A b \in Box : \A u \in 1..MaxUid : <<b, u>> \in Thread!Place
BY DEF Thread!Place

LEMMA IdsAreIds == \A msg, x : IsId(Thread!ThreadId(msg, x))
BY DEF Thread!ThreadId, IsId

LEMMA ArrivalsLead ==
  ASSUME Boxes, NEW msg, NEW b \in Box, Thread!Arrives(msg, b), UNCHANGED get,
         folder' \in [Thread!Place -> Message \cup {Absent}],
         \A x \in Thread!Place : x # <<b, next[b]>> => folder'[x] \in {folder[x], Absent},
         stayed' \subseteq stayed, \A x \in stayed' : folder'[x] # Absent
  PROVE  Boxes' /\ Later
<1>1. next' = [next EXCEPT ![b] = next[b] + 1] /\ next[b] <= MaxUid
  BY DEF Thread!Arrives
<1>2. next' \in [Box -> Nat] /\ \A c \in Box : next[c] <= next'[c]
  BY <1>1 DEF Boxes
<1>3. \A x \in Thread!Place : x[2] < next[x[1]] => folder'[x] \in {folder[x], Absent}
  BY PlaceParts DEF Boxes
<1>4. ASSUME NEW x \in Thread!Present' PROVE x[2] < next'[x[1]]
  <2>1. CASE x = <<b, next[b]>>
    BY <2>1, <1>1 DEF Boxes
  <2>2. CASE x # <<b, next[b]>>
    <3>1. x \in Thread!Present
      BY <1>4, <2>2 DEF Thread!Present
    <3> QED BY <3>1, <1>1, <1>2, PlaceParts DEF Boxes, Thread!Present
  <2> QED BY <2>1, <2>2
<1>5. stayed' \subseteq Thread!Present'
  BY DEF Boxes, Thread!Present
<1>6. \A t \in told' : IsId(t)
  BY IdsAreIds DEF Thread!Arrives, Boxes
<1> QED BY <1>2, <1>3, <1>4, <1>5, <1>6 DEF Boxes, Later

LEMMA MovesLead == ASSUME Boxes, Moves PROVE Boxes' /\ Later
<1>1. ASSUME NEW msg \in Message, NEW b \in Box, Thread!Deliver(msg, b) PROVE Boxes' /\ Later
  <2>1. /\ Thread!Arrives(msg, b) /\ UNCHANGED get /\ stayed' \subseteq stayed
        /\ folder' = [folder EXCEPT ![<<b, next[b]>>] = msg]
    BY <1>1 DEF Thread!Deliver, Thread!Others
  <2>2. folder' \in [Thread!Place -> Message \cup {Absent}]
    BY <2>1 DEF Boxes
  <2>3. \A x \in Thread!Place : x # <<b, next[b]>> => folder'[x] \in {folder[x], Absent}
    BY <2>1 DEF Boxes
  <2>4. \A x \in stayed' : folder'[x] # Absent
    BY <2>1 DEF Boxes, Thread!Present
  <2> QED BY <2>1, <2>2, <2>3, <2>4, ArrivalsLead
<1>2. ASSUME NEW x \in Thread!Place, Thread!Expunge(x) PROVE Boxes' /\ Later
  BY <1>2 DEF Thread!Expunge, Thread!Others, Boxes, Later, Thread!Present
<1>3. ASSUME NEW x \in Thread!Place, NEW b \in Box, Thread!Move(x, b) PROVE Boxes' /\ Later
  <2>1. /\ Thread!Arrives(folder[x], b) /\ UNCHANGED get /\ stayed' = stayed \ {x}
        /\ folder' = [folder EXCEPT ![x] = Absent, ![<<b, next[b]>>] = folder[x]]
        /\ folder[x] \in Message
    BY <1>3 DEF Thread!Move, Thread!Others, Boxes, Thread!Present
  <2>2. folder' \in [Thread!Place -> Message \cup {Absent}]
    BY <2>1 DEF Boxes
  <2>3. \A y \in Thread!Place : y # <<b, next[b]>> => folder'[y] \in {folder[y], Absent}
    BY <2>1 DEF Boxes
  <2>4. \A y \in stayed' : folder'[y] # Absent
    BY <2>1 DEF Boxes, Thread!Present
  <2> QED BY <2>1, <2>2, <2>3, <2>4, ArrivalsLead
<1> QED BY <1>1, <1>2, <1>3 DEF Moves

LEMMA Fewer ==
  ASSUME Boxes, Boxes', Later, NEW b \in Box, next'[b] = next[b]
  PROVE  /\ PresentIn(b)' \subseteq PresentIn(b)
         /\ Thread!Status(b)'.exists <= Thread!Status(b).exists
         /\ Thread!Status(b)'.exists = Thread!Status(b).exists => PresentIn(b)' = PresentIn(b)
<1>1. PresentIn(b)' \in SUBSET PresentIn(b)
  <2> SUFFICES ASSUME NEW x \in Thread!Place, folder'[x] # Absent, x[1] = b
               PROVE  folder[x] # Absent
    BY DEF PresentIn, Thread!Present
  <2>1. x[2] < next[b]
    BY DEF Boxes, Thread!Present
  <2> QED BY <2>1 DEF Later
<1>2. /\ Thread!Status(b).exists = Cardinality(PresentIn(b))
      /\ Thread!Status(b)'.exists = Cardinality(PresentIn(b)')
  BY SameSets DEF Thread!Status, PresentIn
<1> HIDE DEF PresentIn
<1>3. /\ IsFiniteSet(PresentIn(b))
      /\ Cardinality(PresentIn(b)') <= Cardinality(PresentIn(b))
      /\ Cardinality(PresentIn(b)') = Cardinality(PresentIn(b)) => PresentIn(b)' = PresentIn(b)
  BY <1>1, PlacesAreFinite, FS_Subset
<1> QED BY <1>1, <1>2, <1>3

LEMMA LaterCounted == ASSUME Boxes, Boxes', Later, Counted PROVE Counted'
<1> SUFFICES ASSUME NEW b \in Box, get.status[b] # Absent
             PROVE  /\ get.status[b].uidnext <= next'[b]
                    /\ get.status[b].uidnext = next'[b] =>
                          Thread!Status(b)'.exists <= get.status[b].exists
  BY DEF Counted, Later
<1>1. /\ next[b] \in Nat /\ next'[b] \in Nat /\ next[b] <= next'[b]
      /\ get.status[b].uidnext \in Nat /\ get.status[b].exists \in Nat
      /\ get.status[b].uidnext <= next[b]
  BY DEF Boxes, Later, Counted
<1>2. ASSUME get.status[b].uidnext = next'[b]
      PROVE  Thread!Status(b)'.exists <= get.status[b].exists
  <2>1. next'[b] = next[b] /\ Thread!Status(b).exists <= get.status[b].exists
    BY <1>1, <1>2 DEF Counted
  <2>2. Thread!Status(b).exists \in Nat /\ Thread!Status(b)'.exists \in Nat
    <3>1. next \in [Box -> Nat] /\ next' \in [Box -> Nat]
      BY DEF Boxes
    <3>2. Cardinality(PresentIn(b)) \in Nat
      BY PlacesAreFinite, FS_CardinalityType
    <3>3. PresentIn(b)' \in SUBSET PresentIn(b)
      BY <2>1, Fewer
    <3>4. Cardinality(PresentIn(b)') \in Nat
      BY <3>3, PlacesAreFinite, FS_Subset, FS_CardinalityType
    <3> QED BY <3>2, <3>4, SameSets DEF Thread!Status, PresentIn
  <2> QED BY <1>1, <2>1, <2>2, Fewer
<1> QED BY <1>1, <1>2

LEMMA StaySettled ==
  ASSUME Boxes, Boxes', Later, Counted, NEW b \in Box, get.status[b] = Thread!Status(b)'
  PROVE  PresentIn(b)' = PresentIn(b) /\ get.status[b] = Thread!Status(b)
<1>1. /\ next \in [Box -> Nat] /\ next' \in [Box -> Nat] /\ next[b] <= next'[b]
  BY DEF Boxes, Later
<1>2. /\ Thread!Status(b) = [uidnext |-> next[b], exists |-> Thread!Status(b).exists]
      /\ Thread!Status(b)' = [uidnext |-> next'[b], exists |-> Thread!Status(b)'.exists]
  BY DEF Thread!Status
<1>3. /\ Thread!Status(b).exists \in Nat
      /\ next'[b] = next[b] => Thread!Status(b)'.exists \in Nat
  <2>1. Cardinality(PresentIn(b)) \in Nat
    BY PlacesAreFinite, FS_CardinalityType
  <2>2. ASSUME next'[b] = next[b] PROVE Cardinality(PresentIn(b)') \in Nat
    BY <2>2, Fewer, PlacesAreFinite, FS_Subset, FS_CardinalityType
  <2> QED BY <2>1, <2>2, SameSets DEF Thread!Status, PresentIn
<1>4. get.status[b] # Absent
  <2>1. Cardinality(PresentIn(b)') \in Nat
    BY PlacesAreFinite DEF PresentIn, Thread!Present
  <2>2. Thread!Status(b)' \in [uidnext : Nat, exists : Nat]
    BY <1>1, <2>1, SameSets DEF Thread!Status, PresentIn
  <2> QED BY <2>2
<1>5. /\ get.status[b].uidnext = next'[b] /\ get.status[b].exists = Thread!Status(b)'.exists
      /\ get.status[b].uidnext <= next[b]
      /\ get.status[b].uidnext = next[b] => Thread!Status(b).exists <= get.status[b].exists
  BY <1>2, <1>4 DEF Counted
<1>6. next'[b] = next[b]
  BY <1>1, <1>5
<1>7. Thread!Status(b)'.exists = Thread!Status(b).exists
  BY <1>3, <1>5, <1>6, Fewer
<1> QED BY <1>2, <1>6, <1>7, Fewer

LEMMA LaterKept ==
  ASSUME Boxes, Boxes', Later, Counted, NEW x \in Kept'
  PROVE  x \in Kept /\ x \in Thread!Present /\ x \in Thread!Present' /\ folder'[x] = folder[x]
<1>1. CASE x \in stayed'
  <2>1. x \in stayed /\ x \in Thread!Present /\ x \in Thread!Present'
    BY <1>1 DEF Boxes, Later
  <2> QED BY <2>1 DEF Kept, Boxes, Later, Thread!Present
<1>2. CASE x \notin stayed'
  <2>1. x \in Thread!Present' /\ Settled(x[1])'
    BY <1>2 DEF Kept
  <2>2. x \in Thread!Place /\ x[1] \in Box /\ get' = get
    BY <2>1, PlaceParts DEF Thread!Present, Later
  <2>3. PresentIn(x[1])' = PresentIn(x[1]) /\ get.status[x[1]] = Thread!Status(x[1])
    BY <2>1, <2>2, StaySettled DEF Settled
  <2>4. x \in Thread!Present /\ Settled(x[1])
    BY <2>1, <2>2, <2>3 DEF PresentIn, Settled
  <2>5. x[2] < next[x[1]]
    BY <2>4 DEF Boxes
  <2> QED BY <2>1, <2>2, <2>4, <2>5 DEF Kept, Later, Thread!Present
<1> QED BY <1>1, <1>2

LEMMA LaterTold ==
  ASSUME Boxes, Boxes', Later, Counted, Reported
  PROVE  Reported'
<1> SUFFICES ASSUME get.pc \notin {"batch", "failed"} PROVE Listed' /\ Searched' /\ Sorted'
  BY DEF Reported, Later
<1>1. get' = get /\ Listed /\ Searched /\ Sorted
  BY DEF Reported, Later
<1>2. Listed'
  <2> SUFFICES ASSUME NEW l \in get.list
               PROVE  /\ l.id[2] < next'[l.id[1]]
                      /\ folder'[l.id] # Absent => l.in = Thread!ThreadAt(l.id)'
                      /\ Settled(l.id[1])' => l.id \in Thread!Present'
    BY <1>1 DEF Listed
  <2>1. /\ l.id \in Thread!Place /\ l.id[2] < next[l.id[1]]
        /\ folder[l.id] # Absent => l.in = Thread!ThreadAt(l.id)
        /\ Settled(l.id[1]) => l.id \in Thread!Present
    BY <1>1 DEF Listed
  <2>2. l.id[1] \in Box /\ l.id[2] \in Nat
    BY <2>1, PlaceParts
  <2>3. l.id[2] < next'[l.id[1]]
    BY <2>1, <2>2 DEF Later, Boxes
  <2>4. folder'[l.id] \in {folder[l.id], Absent}
    BY <2>1 DEF Later
  <2>5. ASSUME Settled(l.id[1])' PROVE l.id \in Thread!Present'
    <3>1. PresentIn(l.id[1])' = PresentIn(l.id[1]) /\ Settled(l.id[1])
      BY <2>5, <2>2, <1>1, StaySettled DEF Settled
    <3> QED BY <2>1, <3>1 DEF PresentIn
  <2> QED BY <2>1, <2>3, <2>4, <2>5 DEF Thread!ThreadAt
<1>3. \A x \in Kept' : /\ x \in Kept /\ folder'[x] = folder[x]
                       /\ Thread!ThreadAt(x)' = Thread!ThreadAt(x)
  BY LaterKept DEF Thread!ThreadAt
<1>4. Searched'
  BY <1>1, <1>3 DEF Searched, Entry
<1>5. Sorted'
  BY <1>1, <1>3 DEF Sorted, Entry, Thread!Swept, Thread!Unread
<1> QED BY <1>2, <1>4, <1>5

-----------------------------------------------------------------------------
LEMMA RootsAreMentioned ==
  ASSUME NEW msg \in Message, NEW x
  PROVE  LET t == Thread!ThreadId(msg, x)
         IN  \/ t = [kind |-> "L", basis |-> x]
             \/ /\ t.kind = "H"
                /\ \A roots : t.basis \in roots => Thread!Mentions(msg, roots)
<1>1. /\ msg.references \in Seq(Id) /\ msg.inReplyTo \in Seq(Id)
  OBVIOUS
<1>2. ASSUME NEW q \in Seq(Id), q # << >>
      PROVE  1 \in DOMAIN q /\ Head(q) = q[1]
  BY <1>2
<1>3. CASE ~Thread!HasRoot(msg)
  BY <1>3 DEF Thread!ThreadId
<1>4. CASE Thread!HasRoot(msg) /\ msg.references # << >>
  BY <1>1, <1>2, <1>4 DEF Thread!ThreadId, Thread!Mentions
<1>5. CASE Thread!HasRoot(msg) /\ msg.references = << >> /\ msg.inReplyTo # << >>
  BY <1>1, <1>2, <1>5 DEF Thread!ThreadId, Thread!Mentions
<1>6. CASE Thread!HasRoot(msg) /\ msg.references = << >> /\ msg.inReplyTo = << >>
  BY <1>6 DEF Thread!ThreadId, Thread!Mentions
<1> QED BY <1>3, <1>4, <1>5, <1>6

\* No mailbox has a colon in its name.
NoColons == Colon \cap Box = {}

\* A thread that is asked for is searched for, or looked up.
LEMMA AskedIsSought ==
  ASSUME NoColons, Boxes, NEW x \in Thread!Present, NEW asked, Thread!ThreadAt(x) \in asked
  PROVE  \/ Thread!Mentions(folder[x], Thread!Roots(asked)) /\ Thread!Roots(asked) # {}
         \/ Thread!ThreadAt(x).kind = "L" /\ x \in Thread!Places(asked)
<1>1. folder[x] \in Message /\ x[1] \in Box
  BY PlaceParts DEF Boxes, Thread!Present
<1>2. CASE Thread!ThreadAt(x) = [kind |-> "L", basis |-> x]
  BY <1>1, <1>2 DEF Thread!Places, NoColons
<1>3. CASE Thread!ThreadAt(x).kind = "H"
  <2>1. Thread!ThreadAt(x).basis \in Thread!Roots(asked)
    BY <1>3 DEF Thread!Roots
  <2> QED BY <1>1, <1>2, <2>1, RootsAreMentioned DEF Thread!ThreadAt
<1> QED BY <1>1, <1>2, <1>3, RootsAreMentioned DEF Thread!ThreadAt

SameMail == UNCHANGED <<folder, next, told>> /\ Boxes

LEMMA SameMailStays ==
  ASSUME SameMail, NEW S, stayed' = S, S \in {stayed, Thread!Present}
  PROVE  /\ Boxes'
         /\ \A b \in Box : Thread!Status(b)' = Thread!Status(b)
         /\ Thread!Present' = Thread!Present
         /\ \A x \in Thread!Place :
               Thread!ThreadAt(x)' = Thread!ThreadAt(x) /\ Entry(x)' = Entry(x)
BY DEF SameMail, Boxes, Thread!Status, Thread!Present, Thread!ThreadAt, Entry

Shape(c) ==
    c = [pc |-> c.pc, asked |-> c.asked, list |-> c.list,
         located |-> c.located, unread |-> c.unread, cached |-> c.cached,
         status |-> c.status, at |-> c.at, hits |-> c.hits]

LEMMA StartsTold ==
  ASSUME NoColons, ThreadsIInv, NEW asked, Thread!Start(asked)
  PROVE  ThreadsIInv'
<1>1. get.pc = "batch" /\ InShape /\ Counted /\ SameMail /\ stayed' = Thread!Present
  BY DEF Thread!Start, ThreadsIInv, SameMail, Thread!mailVars
<1>2. /\ Boxes' /\ Thread!Present' = Thread!Present
      /\ \A b \in Box : Thread!Status(b)' = Thread!Status(b)
      /\ \A x \in Thread!Place : Thread!ThreadAt(x)' = Thread!ThreadAt(x)
  BY <1>1, SameMailStays
<1>3. /\ get'.pc \in {"searching", "locating"} /\ Shape(get')
      /\ get'.pc = "locating" <=> Thread!Roots(asked) = {}
      /\ get'.asked = asked /\ get'.list = {} /\ get'.located = {}
      /\ get'.cached = Thread!Swept /\ get'.status = get.status
      /\ get'.at = [b \in Box |-> "todo"] /\ get'.hits = [b \in Box |-> {}]
  BY DEF Thread!Start, Shape
<1>4. InShape'
  <2>1. \A t \in asked : IsId(t)
    BY <1>1 DEF Thread!Start, SameMail, Boxes
  <2> QED BY <1>3, <2>1 DEF InShape, Shape, Thread!Swept
<1>5. Counted'
  BY <1>1, <1>2, <1>3 DEF Counted, SameMail
<1>6. Listed'
  BY <1>3 DEF Listed
<1>7. Searched'
  <2>1. \A x \in Kept' : x[1] \in Box
    BY <1>1, <1>2, PlaceParts DEF Kept, Thread!Present
  <2> QED BY <1>3, <2>1 DEF Searched, Thread!Swept
<1>8. Sorted'
  <2> SUFFICES ASSUME Thread!Roots(asked) = {},
                      NEW x \in Thread!Present, Thread!ThreadAt(x) \in asked
               PROVE  Thread!ThreadAt(x).kind = "L" /\ x \in Thread!Places(asked)
    <3>1. \A x \in Kept' : x \in Thread!Present /\ x \in Thread!Place
      BY <1>1, <1>2 DEF Kept, Thread!Present
    <3> QED BY <1>2, <1>3, <3>1 DEF Sorted
  <2> QED BY <1>1, AskedIsSought DEF SameMail
<1> QED BY <1>2, <1>3, <1>4, <1>5, <1>6, <1>7, <1>8 DEF ThreadsIInv, Reported

\* What a step of the search finds.
LEMMA Searching ==
  ASSUME ThreadsIInv, get.pc = "searching" \/ get.pc = "locating"
  PROVE  /\ Boxes /\ InShape /\ Counted /\ Listed /\ Searched /\ Sorted /\ Shape(get)
         /\ get.at \in [Box -> {"todo", "selected", "searched", "done"}]
         /\ get.hits \in [Box -> SUBSET Thread!Place]
         /\ get.cached \in BOOLEAN
         /\ get.status \in [Box -> [uidnext : Nat, exists : Nat] \cup {Absent}]
         /\ Kept \subseteq Thread!Present
BY DEF ThreadsIInv, Reported, InShape, Shape, Counted, Kept, Boxes

LEMMA SelectsTold ==
  ASSUME ThreadsIInv, NEW b \in Box, Thread!Select(b) PROVE ThreadsIInv'
<1>1. get.pc = "searching" /\ get.at[b] = "todo" /\ SameMail /\ stayed' = stayed
  BY DEF Thread!Select, Thread!Go, ThreadsIInv, SameMail, Thread!mailVars
<1>2. /\ Boxes' /\ Thread!Present' = Thread!Present
      /\ \A c \in Box : Thread!Status(c)' = Thread!Status(c)
      /\ \A x \in Thread!Place :
            Thread!ThreadAt(x)' = Thread!ThreadAt(x) /\ Entry(x)' = Entry(x)
  BY <1>1, SameMailStays
<1>3. /\ get'.pc = "searching" /\ Shape(get')
      /\ get'.asked = get.asked /\ get'.list = get.list
      /\ get'.located = get.located /\ get'.unread = get.unread
      /\ get'.cached = get.cached /\ get'.hits = get.hits
      /\ get'.at = [get.at EXCEPT ![b] = "selected"]
      /\ get'.status = [get.status EXCEPT ![b] = IF get.cached THEN @ ELSE Thread!Status(b)]
  BY <1>1, Searching DEF Thread!Select, Thread!Go, Shape
<1>4. /\ Thread!Status(b) \in [uidnext : Nat, exists : Nat] /\ Thread!Status(b) # Absent
      /\ next[b] \in Nat /\ Thread!Status(b).uidnext = next[b]
  BY <1>1, StatusType DEF SameMail, Boxes
<1>5. InShape'
  BY <1>1, <1>3, Searching DEF InShape, Shape
<1>6. Counted'
  <2>1. get'.status \in [Box -> [uidnext : Nat, exists : Nat] \cup {Absent}]
    BY <1>1, <1>3, <1>4, Searching
  <2>2. \A c \in Box : next'[c] = next[c] /\ Thread!Status(c)' = Thread!Status(c)
    BY <1>1, <1>2 DEF SameMail
  <2>3. \A c \in Box : \/ get'.status[c] = get.status[c]
                       \/ (c = b /\ get'.status[c] = Thread!Status(b))
    <3>1. DOMAIN get.status = Box
      BY <1>1, Searching
    <3>2. get'.status = [c \in Box |-> IF c = b /\ ~get.cached THEN Thread!Status(b)
                                       ELSE get.status[c]]
      BY <1>3, <3>1
    <3> QED BY <3>2
  <2>4. Counted /\ Thread!Status(b).exists \in Nat
    BY <1>1, <1>4, Searching
  <2> QED BY <2>1, <2>2, <2>3, <2>4, <1>4 DEF Counted
<1>7. \A c \in Box : c # b => get'.at[c] = get.at[c] /\ get'.status[c] = get.status[c]
                            /\ Settled(c)' = Settled(c)
  BY <1>1, <1>2, <1>3, Searching DEF Settled
<1>8. Listed'
  <2> SUFFICES ASSUME NEW l \in get.list
               PROVE  /\ l.id \in Thread!Place /\ l = [id |-> l.id, in |-> l.in]
                      /\ l.id[2] < next'[l.id[1]]
                      /\ folder'[l.id] # Absent => l.in = Thread!ThreadAt(l.id)'
                      /\ Settled(l.id[1])' => l.id \in Thread!Present'
    BY <1>3 DEF Listed
  <2>1. /\ l.id \in Thread!Place /\ l = [id |-> l.id, in |-> l.in]
        /\ l.id[2] < next[l.id[1]]
        /\ folder[l.id] # Absent => l.in = Thread!ThreadAt(l.id)
        /\ Settled(l.id[1]) => l.id \in Thread!Present
    BY <1>1, Searching DEF Listed
  <2>2. l.id[1] # b /\ l.id[1] \in Box
    BY <1>1, <2>1, Searching, PlaceParts DEF Searched
  <2> QED BY <2>1, <2>2, <1>1, <1>2, <1>7 DEF SameMail
<1>9. Searched'
  <2>1. \A x \in Kept' : x \in Thread!Place /\ (x \in Kept \/ x[1] = b)
    <3>1. \A x \in Thread!Present : x \in Thread!Place /\ x[1] \in Box
      BY PlaceParts DEF Thread!Present
    <3>2. stayed \subseteq Thread!Present
      BY <1>1 DEF SameMail, Boxes
    <3> QED BY <1>1, <1>2, <1>7, <3>1, <3>2 DEF Kept
  <2>2. get'.at[b] = "selected" /\ get'.status[b] # Absent
    BY <1>1, <1>3, <1>4, Searching DEF Searched
  <2>3. Searched /\ folder' = folder
    BY <1>1, Searching DEF SameMail
  <2>4. \A x \in Thread!Place : x[1] \in Box
    BY PlaceParts
  <2> QED BY <1>1, <1>2, <1>3, <1>7, <2>1, <2>2, <2>3, <2>4 DEF Searched
<1> QED BY <1>2, <1>3, <1>5, <1>6, <1>8, <1>9 DEF ThreadsIInv, Reported, Sorted

\* What a search finds.
Hits(b) == {x \in Thread!Present :
              x[1] = b /\ Thread!Mentions(folder[x], Thread!Roots(get.asked))}

LEMMA SearchesTold ==
  ASSUME ThreadsIInv, NEW b \in Box, Thread!Search(b) PROVE ThreadsIInv'
<1>1. get.pc = "searching" /\ get.at[b] = "selected" /\ SameMail /\ stayed' = stayed
  BY DEF Thread!Search, Thread!Go, ThreadsIInv, SameMail, Thread!mailVars
<1>2. /\ Boxes' /\ Thread!Present' = Thread!Present
      /\ \A c \in Box : Thread!Status(c)' = Thread!Status(c)
      /\ \A x \in Thread!Place :
            Thread!ThreadAt(x)' = Thread!ThreadAt(x) /\ Entry(x)' = Entry(x)
  BY <1>1, SameMailStays
<1>3. /\ get'.pc = "searching" /\ Shape(get')
      /\ get'.asked = get.asked /\ get'.list = get.list
      /\ get'.located = get.located /\ get'.unread = get.unread
      /\ get'.cached = get.cached /\ get'.status = get.status
      /\ get'.at = [get.at EXCEPT ![b] = "searched"]
      /\ get'.hits = [get.hits EXCEPT ![b] = Hits(b)]
  BY <1>1, Searching DEF Thread!Search, Thread!Go, Shape, Hits
<1>4. InShape'
  <2>1. Hits(b) \in SUBSET Thread!Place
    BY DEF Thread!Present, Hits
  <2>2. get'.hits \in [Box -> SUBSET Thread!Place]
    BY <1>1, <1>3, <2>1, Searching
  <2> QED BY <1>1, <1>3, <2>2, Searching DEF InShape, Shape
<1>5. Counted' /\ Kept' = Kept /\ \A c \in Box : Settled(c)' = Settled(c)
  BY <1>1, <1>2, <1>3, Searching, PlaceParts DEF Counted, SameMail, Kept, Settled, Thread!Present
<1>6. Listed'
  BY <1>1, <1>2, <1>3, <1>5, Searching, PlaceParts DEF Listed, SameMail
<1>7. Searched'
  <2>1. \A x \in Kept : x \in Thread!Present /\ x \in Thread!Place /\ x[1] \in Box
    BY <1>1, Searching, PlaceParts DEF Thread!Present
  <2>2. get'.hits[b] = Hits(b)
    BY <1>1, <1>3, Searching
  <2>3. get'.at[b] = "searched"
        /\ \A c \in Box : c # b => get'.at[c] = get.at[c] /\ get'.hits[c] = get.hits[c]
    BY <1>1, <1>3, Searching
  <2>4. Searched /\ folder' = folder
    BY <1>1, Searching DEF SameMail
  <2> QED BY <1>1, <1>2, <1>3, <1>5, <2>1, <2>2, <2>3, <2>4 DEF Searched, Hits
<1> QED BY <1>2, <1>3, <1>4, <1>5, <1>6, <1>7 DEF ThreadsIInv, Reported, Sorted

LEMMA FetchesTold ==
  ASSUME ThreadsIInv, NEW b \in Box, Thread!Fetch(b) PROVE ThreadsIInv'
<1> DEFINE new == {[id |-> x, in |-> Thread!ThreadAt(x)] : x \in get.hits[b] \cap Thread!Present}
<1>1. get.pc = "searching" /\ get.at[b] = "searched" /\ SameMail /\ stayed' = stayed
  BY DEF Thread!Fetch, Thread!Go, ThreadsIInv, SameMail, Thread!mailVars
<1>2. /\ Boxes' /\ Thread!Present' = Thread!Present
      /\ \A c \in Box : Thread!Status(c)' = Thread!Status(c)
      /\ \A x \in Thread!Place :
            Thread!ThreadAt(x)' = Thread!ThreadAt(x) /\ Entry(x)' = Entry(x)
  BY <1>1, SameMailStays
<1>3. /\ get'.pc = "searching" /\ Shape(get')
      /\ get'.asked = get.asked /\ get'.list = get.list \cup new
      /\ get'.located = get.located /\ get'.unread = get.unread
      /\ get'.cached = get.cached /\ get'.status = get.status
      /\ get'.at = [get.at EXCEPT ![b] = "done"]
      /\ get'.hits = get.hits
  BY <1>1, Searching DEF Thread!Fetch, Thread!Go, Shape
<1>4. InShape'
  BY <1>1, <1>3, Searching DEF InShape, Shape
<1>5. Counted' /\ Kept' = Kept /\ \A c \in Box : Settled(c)' = Settled(c)
  BY <1>1, <1>2, <1>3, Searching, PlaceParts DEF Counted, SameMail, Kept, Settled, Thread!Present
<1>6. \A l \in new : /\ l.id \in Thread!Present /\ l.id \in Thread!Place /\ l.id[1] = b
                     /\ l = [id |-> l.id, in |-> l.in] /\ l.in = Thread!ThreadAt(l.id)
  BY <1>1, Searching DEF Searched, Thread!Present
<1>7. \A x \in get.hits[b] \cap Thread!Present : Entry(x) \in new
  BY DEF Entry
<1> HIDE DEF new
<1>8. Listed'
  <2> SUFFICES ASSUME NEW l \in get.list \cup new
               PROVE  /\ l.id \in Thread!Place /\ l = [id |-> l.id, in |-> l.in]
                      /\ l.id[2] < next'[l.id[1]]
                      /\ folder'[l.id] # Absent => l.in = Thread!ThreadAt(l.id)'
                      /\ Settled(l.id[1])' => l.id \in Thread!Present'
    BY <1>3 DEF Listed
  <2>1. CASE l \in get.list
    BY <2>1, <1>1, <1>2, <1>5, Searching, PlaceParts DEF Listed, SameMail
  <2>2. CASE l \in new
    BY <2>2, <1>1, <1>2, <1>6 DEF SameMail, Boxes
  <2> QED BY <2>1, <2>2
<1>9. Searched'
  <2>1. \A x \in Kept : x \in Thread!Present /\ x \in Thread!Place /\ x[1] \in Box
    BY <1>1, Searching, PlaceParts DEF Thread!Present
  <2>2. get'.at[b] = "done" /\ \A c \in Box : c # b => get'.at[c] = get.at[c]
    BY <1>1, <1>3, Searching
  <2>3. Searched /\ folder' = folder
    BY <1>1, Searching DEF SameMail
  <2>4. \A c \in Box : get'.at[c] # "done" => \A l \in get'.list : l.id[1] # c
    BY <1>1, <1>3, <1>6, <2>2, <2>3 DEF Searched
  <2>5. \A x \in Kept : Thread!Mentions(folder[x], Thread!Roots(get.asked)) =>
              /\ get'.at[x[1]] = "searched" => x \in get.hits[x[1]]
              /\ get'.at[x[1]] = "done" => Entry(x) \in get'.list
    BY <1>1, <1>3, <1>7, <2>1, <2>2, <2>3 DEF Searched
  <2> QED BY <1>1, <1>2, <1>3, <1>5, <2>1, <2>2, <2>3, <2>4, <2>5 DEF Searched
<1> QED BY <1>2, <1>3, <1>4, <1>5, <1>8, <1>9 DEF ThreadsIInv, Reported, Sorted

LEMMA GathersTold ==
  ASSUME NoColons, ThreadsIInv, Thread!Gather PROVE ThreadsIInv'
<1>1. /\ get.pc = "searching" /\ \A b \in Box : get.at[b] = "done"
      /\ SameMail /\ stayed' = stayed
  BY DEF Thread!Gather, Thread!Go, ThreadsIInv, SameMail, Thread!mailVars
<1>2. /\ Boxes' /\ Thread!Present' = Thread!Present
      /\ \A c \in Box : Thread!Status(c)' = Thread!Status(c)
      /\ \A x \in Thread!Place :
            Thread!ThreadAt(x)' = Thread!ThreadAt(x) /\ Entry(x)' = Entry(x)
  BY <1>1, SameMailStays
<1>3. /\ get'.pc = "locating" /\ Shape(get')
      /\ get'.asked = get.asked /\ get'.list = {l \in get.list : l.in \in get.asked}
      /\ get'.located = get.located /\ get'.unread = get.unread
      /\ get'.cached = get.cached
      /\ get'.status = get.status /\ get'.at = get.at /\ get'.hits = get.hits
  BY <1>1, Searching DEF Thread!Gather, Thread!Go, Shape
<1>4. InShape'
  BY <1>1, <1>3, Searching DEF InShape, Shape
<1>5. Counted' /\ Kept' = Kept /\ \A c \in Box : Settled(c)' = Settled(c)
  BY <1>1, <1>2, <1>3, Searching, PlaceParts DEF Counted, SameMail, Kept, Settled, Thread!Present
<1>6. Listed'
  BY <1>1, <1>2, <1>3, <1>5, Searching, PlaceParts DEF Listed, SameMail
<1>7. Sorted'
  <2>1. Thread!Swept'
    BY <1>1, <1>3, Searching DEF Searched, Thread!Swept
  <2>2. ASSUME NEW x \in Kept, Thread!ThreadAt(x) \in get.asked
        PROVE  \/ Entry(x) \in get'.list
               \/ Thread!ThreadAt(x).kind = "L" /\ x \in Thread!Places(get.asked) \ get.located
    <3>1. x \in Thread!Present /\ x \in Thread!Place /\ x[1] \in Box
      BY <1>1, Searching, PlaceParts DEF Thread!Present
    <3>2. CASE Thread!Mentions(folder[x], Thread!Roots(get.asked))
      <4>1. Entry(x) \in get.list /\ Entry(x).in = Thread!ThreadAt(x)
        BY <1>1, <3>1, <3>2, Searching DEF Searched, Entry
      <4> QED BY <1>3, <2>2, <4>1
    <3>3. CASE Thread!ThreadAt(x).kind = "L" /\ x \in Thread!Places(get.asked)
      BY <1>1, <3>3, Searching DEF Searched
    <3> QED BY <1>1, <2>2, <3>1, <3>2, <3>3, AskedIsSought DEF SameMail
  <2>3. \A x \in Kept : x \in Thread!Place
    BY <1>1, Searching DEF Thread!Present
  <2> QED BY <1>2, <1>3, <1>5, <2>1, <2>2, <2>3 DEF Sorted
<1> QED BY <1>2, <1>3, <1>4, <1>5, <1>6, <1>7 DEF ThreadsIInv, Reported, Searched

LEMMA LocatesTold ==
  ASSUME ThreadsIInv, NEW x \in Thread!Place, Thread!Locate(x) PROVE ThreadsIInv'
<1> DEFINE t == [kind |-> "L", basis |-> x]
           there == x \in Thread!Present /\ Thread!ThreadAt(x) = t
<1>1. /\ get.pc = "locating" /\ SameMail /\ stayed' = stayed
      /\ x \in Thread!Places(get.asked) \ get.located
  BY DEF Thread!Locate, Thread!Go, ThreadsIInv, SameMail, Thread!mailVars
<1>2. /\ Boxes' /\ Thread!Present' = Thread!Present
      /\ \A c \in Box : Thread!Status(c)' = Thread!Status(c)
      /\ \A y \in Thread!Place : Thread!ThreadAt(y)' = Thread!ThreadAt(y) /\ Entry(y)' = Entry(y)
  BY <1>1, SameMailStays
<1>3. /\ get'.pc = "locating" /\ Shape(get')
      /\ get'.asked = get.asked /\ get'.cached = get.cached
      /\ get'.list = IF there THEN get.list \cup {[id |-> x, in |-> t]} ELSE get.list
      /\ get'.located = get.located \cup {x} /\ get'.unread = get.unread
      /\ get'.status = get.status /\ get'.at = get.at /\ get'.hits = get.hits
  BY <1>1, Searching DEF Thread!Locate, Thread!Go, Shape
<1>4. InShape'
  BY <1>1, <1>3, Searching DEF InShape, Shape
<1>5. Counted' /\ Kept' = Kept /\ \A c \in Box : Settled(c)' = Settled(c)
  BY <1>1, <1>2, <1>3, Searching, PlaceParts DEF Counted, SameMail, Kept, Settled, Thread!Present
<1>6. get'.list = IF there THEN get.list \cup {Entry(x)} ELSE get.list
  BY <1>3 DEF Entry
<1>7. Listed'
  <2> SUFFICES ASSUME NEW l \in get'.list
               PROVE  /\ l.id \in Thread!Place /\ l = [id |-> l.id, in |-> l.in]
                      /\ l.id[2] < next'[l.id[1]]
                      /\ folder'[l.id] # Absent => l.in = Thread!ThreadAt(l.id)'
                      /\ Settled(l.id[1])' => l.id \in Thread!Present'
    BY DEF Listed
  <2>1. CASE l \in get.list
    BY <2>1, <1>1, <1>2, <1>5, Searching, PlaceParts DEF Listed, SameMail
  <2>2. CASE x \in Thread!Present /\ l = Entry(x)
    BY <2>2, <1>1, <1>2 DEF SameMail, Boxes, Entry
  <2> QED BY <1>6, <2>1, <2>2
<1>8. Sorted'
  <2>1. /\ Thread!Roots(get.asked) # {} => Thread!Swept
        /\ \A l \in get.list : l.in \in get.asked
    BY <1>1, Searching DEF Sorted
  <2>2. ASSUME there PROVE Entry(x).in \in get.asked
    <3>1. t \in get.asked
      BY <1>1, Searching DEF Thread!Places, IsId, InShape
    <3> QED BY <2>2, <3>1 DEF Entry
  <2>3. ASSUME NEW y \in Kept, Thread!ThreadAt(y) \in get.asked, Entry(y) \notin get'.list,
               ~Thread!Unread(Thread!ThreadAt(y))
        PROVE  Thread!ThreadAt(y).kind = "L" /\ y \in Thread!Places(get.asked) \ get'.located
    <3>1. /\ Thread!ThreadAt(y).kind = "L" /\ y \in Thread!Places(get.asked) \ get.located
          /\ y \in Thread!Present
      BY <1>1, <1>6, <2>3, Searching DEF Sorted
    <3>2. Thread!ThreadAt(y) = [kind |-> "L", basis |-> y]
      <4>1. folder[y] \in Message
        BY <1>1, <3>1 DEF SameMail, Boxes, Thread!Present
      <4> QED BY <3>1, <4>1, RootsAreMentioned DEF Thread!ThreadAt
    <3>3. y # x
      BY <1>6, <2>3, <3>1, <3>2
    <3> QED BY <1>3, <3>1, <3>3
  <2>4. \A y \in Kept : y \in Thread!Place
    BY <1>1, Searching DEF Thread!Present
  <2>5. \A l \in get'.list : l.in \in get.asked
    BY <1>6, <2>1, <2>2
  <2> QED BY <1>2, <1>3, <1>5, <2>1, <2>3, <2>4, <2>5 DEF Sorted, Thread!Swept, Thread!Unread
<1> QED BY <1>2, <1>3, <1>4, <1>5, <1>7, <1>8 DEF ThreadsIInv, Reported, Searched

LEMMA LocateFailuresTold ==
  ASSUME ThreadsIInv, NEW x \in Thread!Place, Thread!LocateFails(x) PROVE ThreadsIInv'
<1>1. get.pc = "locating" /\ SameMail /\ stayed' = stayed
  BY DEF Thread!LocateFails, Thread!Go, ThreadsIInv, SameMail, Thread!mailVars
<1>2. /\ Boxes' /\ Thread!Present' = Thread!Present
      /\ \A c \in Box : Thread!Status(c)' = Thread!Status(c)
      /\ \A y \in Thread!Place : Thread!ThreadAt(y)' = Thread!ThreadAt(y) /\ Entry(y)' = Entry(y)
  BY <1>1, SameMailStays
<1>3. /\ get'.pc = "locating" /\ Shape(get')
      /\ get'.asked = get.asked /\ get'.cached = get.cached /\ get'.list = get.list
      /\ get'.located = get.located \cup {x} /\ get'.unread = get.unread \cup {x}
      /\ get'.status = get.status /\ get'.at = get.at /\ get'.hits = get.hits
  BY <1>1, Searching DEF Thread!LocateFails, Thread!Go, Shape
<1>4. InShape'
  BY <1>1, <1>3, Searching DEF InShape, Shape
<1>5. Counted' /\ Kept' = Kept /\ \A c \in Box : Settled(c)' = Settled(c)
  BY <1>1, <1>2, <1>3, Searching, PlaceParts DEF Counted, SameMail, Kept, Settled, Thread!Present
<1>6. Listed'
  BY <1>1, <1>2, <1>3, <1>5, Searching, PlaceParts DEF Listed, SameMail
<1>7. Sorted'
  <2>1. /\ Thread!Roots(get.asked) # {} => Thread!Swept
        /\ \A l \in get.list : l.in \in get.asked
    BY <1>1, Searching DEF Sorted
  <2>2. ASSUME NEW y \in Kept, Thread!ThreadAt(y) \in get.asked, Entry(y) \notin get.list,
               ~(/\ Thread!ThreadAt(y).kind = "L"
                 /\ Thread!ThreadAt(y).basis \in get.unread \cup {x})
        PROVE  Thread!ThreadAt(y).kind = "L" /\ y \in Thread!Places(get.asked) \ get'.located
    <3>1. /\ Thread!ThreadAt(y).kind = "L" /\ y \in Thread!Places(get.asked) \ get.located
          /\ y \in Thread!Present
      BY <1>1, <2>2, Searching DEF Sorted, Thread!Unread
    <3>2. Thread!ThreadAt(y) = [kind |-> "L", basis |-> y]
      <4>1. folder[y] \in Message
        BY <1>1, <3>1 DEF SameMail, Boxes, Thread!Present
      <4> QED BY <3>1, <4>1, RootsAreMentioned DEF Thread!ThreadAt
    <3> QED BY <1>3, <2>2, <3>1, <3>2
  <2>3. \A y \in Kept : y \in Thread!Place
    BY <1>1, Searching DEF Thread!Present
  <2> QED BY <1>2, <1>3, <1>5, <2>1, <2>2, <2>3 DEF Sorted, Thread!Swept, Thread!Unread
<1> QED BY <1>2, <1>3, <1>4, <1>5, <1>6, <1>7 DEF ThreadsIInv, Reported, Searched

LEMMA SweepsTold ==
  ASSUME ThreadsIInv, NEW b \in Box, Thread!Sweep(b) PROVE ThreadsIInv'
<1>1. /\ get.pc \in {"batch", "locating"} /\ SameMail /\ stayed' = stayed
      /\ get.status[b] = Absent
      /\ get' = [get EXCEPT !.status[b] = Thread!Status(b)]
  BY DEF Thread!Sweep, Thread!Go, ThreadsIInv, SameMail, Thread!mailVars
<1>2. /\ Boxes' /\ Thread!Present' = Thread!Present
      /\ \A c \in Box : Thread!Status(c)' = Thread!Status(c)
      /\ \A y \in Thread!Place : Thread!ThreadAt(y)' = Thread!ThreadAt(y) /\ Entry(y)' = Entry(y)
  BY <1>1, SameMailStays
<1>3. Thread!Status(b) \in [uidnext : Nat, exists : Nat] /\ next[b] \in Nat
      /\ Thread!Status(b).uidnext = next[b]
  BY <1>1, StatusType DEF SameMail, Boxes
<1>4. InShape /\ Counted
  BY <1>1 DEF ThreadsIInv
<1>5. get'.status = [get.status EXCEPT ![b] = Thread!Status(b)] /\ get'.pc = get.pc
  BY <1>1, <1>4 DEF InShape
<1>6. Counted'
  <2>1. get'.status \in [Box -> [uidnext : Nat, exists : Nat] \cup {Absent}]
    BY <1>3, <1>4, <1>5 DEF Counted
  <2>2. \A c \in Box : next'[c] = next[c] /\ Thread!Status(c)' = Thread!Status(c)
    BY <1>1, <1>2 DEF SameMail
  <2>3. /\ get'.status[b] = Thread!Status(b)
        /\ \A c \in Box : c # b => get'.status[c] = get.status[c]
    BY <1>4, <1>5 DEF Counted
  <2> QED BY <1>3, <1>4, <2>1, <2>2, <2>3 DEF Counted
<1>7. CASE get.pc = "batch"
  <2>1. InShape'
    BY <1>1, <1>4, <1>5, <1>7 DEF InShape
  <2> QED BY <1>2, <1>5, <1>6, <1>7, <2>1 DEF ThreadsIInv, Reported
<1>8. CASE get.pc = "locating"
  <2>1. /\ Shape(get') /\ get'.asked = get.asked /\ get'.cached = get.cached
        /\ get'.list = get.list /\ get'.located = get.located
        /\ get'.unread = get.unread
        /\ get'.at = get.at /\ get'.hits = get.hits
    BY <1>1, <1>8, Searching DEF Shape
  <2>2. InShape'
    BY <1>1, <1>5, <1>8, <2>1, Searching DEF InShape, Shape
  <2>3. Thread!Roots(get.asked) = {}
    BY <1>1, <1>8, Searching DEF Sorted, Thread!Swept
  <2>4. Kept' = Kept /\ \A c : ~Settled(c)'
    BY <1>1, <2>1, <2>3 DEF Kept, Settled
  <2>5. Listed'
    BY <1>1, <1>2, <1>8, <2>1, <2>4, Searching, PlaceParts DEF Listed, SameMail
  <2>6. Sorted'
    <3>1. \A y \in Kept : y \in Thread!Place
      BY <1>8, Searching DEF Thread!Present
    <3> QED BY <1>2, <1>5, <1>8, <2>1, <2>3, <2>4, <3>1, Searching DEF Sorted, Thread!Unread
  <2> QED BY <1>2, <1>5, <1>6, <1>8, <2>2, <2>5, <2>6 DEF ThreadsIInv, Reported, Searched
<1> QED BY <1>1, <1>7, <1>8

LEMMA AnswersTold ==
  ASSUME ThreadsIInv, Thread!Answer PROVE ThreadsIInv'
<1>1. /\ get.pc = "locating" /\ SameMail /\ stayed' = stayed
      /\ Thread!Places(get.asked) \subseteq get.located /\ Thread!Swept
  BY DEF Thread!Answer, Thread!Go, ThreadsIInv, SameMail, Thread!mailVars
<1>2. /\ Boxes' /\ Thread!Present' = Thread!Present
      /\ \A c \in Box : Thread!Status(c)' = Thread!Status(c)
      /\ \A y \in Thread!Place : Thread!ThreadAt(y)' = Thread!ThreadAt(y) /\ Entry(y)' = Entry(y)
  BY <1>1, SameMailStays
<1>3. /\ get'.pc = "answered" /\ Shape(get')
      /\ get'.asked = get.asked /\ get'.cached = get.cached
      /\ get'.list = get.list /\ get'.located = get.located
      /\ get'.unread = get.unread
      /\ get'.status = get.status /\ get'.at = get.at /\ get'.hits = get.hits
  BY <1>1, Searching DEF Thread!Answer, Thread!Go, Shape
<1>4. InShape'
  BY <1>1, <1>3, Searching DEF InShape, Shape
<1>5. Counted' /\ Kept' = Kept /\ \A c \in Box : Settled(c)' = Settled(c)
  BY <1>1, <1>2, <1>3, Searching, PlaceParts DEF Counted, SameMail, Kept, Settled, Thread!Present
<1>6. Listed'
  BY <1>1, <1>2, <1>3, <1>5, Searching, PlaceParts DEF Listed, SameMail
<1>7. Sorted'
  <2>1. \A y \in Kept : y \in Thread!Place
    BY <1>1, Searching DEF Thread!Present
  <2> QED BY <1>1, <1>2, <1>3, <1>5, <2>1, Searching DEF Sorted, Thread!Swept, Thread!Unread
<1> QED BY <1>2, <1>3, <1>4, <1>5, <1>6, <1>7 DEF ThreadsIInv, Reported, Searched

LEMMA InitThreads == Thread!Init => ThreadsIInv
<1> SUFFICES ASSUME Thread!Init PROVE ThreadsIInv
  OBVIOUS
<1>1. Boxes
  BY PlaceParts, IdsAreIds DEF Thread!Init, Boxes, Thread!Present, Thread!ThreadAt
<1>2. InShape /\ Counted /\ Reported
  BY DEF Thread!Init, Thread!NoCall, InShape, Counted, Reported
<1> QED BY <1>1, <1>2 DEF ThreadsIInv

LEMMA NextThreads == NoColons /\ ThreadsIInv /\ [Thread!Next]_threadVars => ThreadsIInv'
<1> SUFFICES ASSUME NoColons, ThreadsIInv, [Thread!Next]_threadVars PROVE ThreadsIInv'
  OBVIOUS
<1>1. CASE UNCHANGED threadVars
  <2>1. UNCHANGED get /\ stayed' = stayed /\ SameMail
    BY <1>1 DEF threadVars, Thread!mailVars, ThreadsIInv, SameMail
  <2>2. /\ Boxes' /\ Thread!Present' = Thread!Present
        /\ \A b \in Box : Thread!Status(b)' = Thread!Status(b)
        /\ \A x \in Thread!Place :
              Thread!ThreadAt(x)' = Thread!ThreadAt(x) /\ Entry(x)' = Entry(x)
    BY <2>1, SameMailStays
  <2>3. /\ \A x \in Thread!Present : x \in Thread!Place /\ x[1] \in Box
        /\ stayed \subseteq Thread!Present
    BY <2>1, PlaceParts DEF Thread!Present, SameMail, Boxes
  <2>4. Kept' = Kept /\ (\A b \in Box : Settled(b)' = Settled(b)) /\ Kept \subseteq Thread!Place
    BY <2>1, <2>2, <2>3 DEF Kept, Settled
  <2>5. Counted => Counted'
    BY <2>1, <2>2 DEF Counted, SameMail
  <2>6. Listed => Listed'
    BY <2>1, <2>2, <2>4, PlaceParts DEF Listed, SameMail
  <2>7. Searched => Searched'
    BY <2>1, <2>2, <2>4 DEF Searched, SameMail
  <2>8. Sorted => Sorted'
    BY <2>1, <2>2, <2>4 DEF Sorted, Thread!Swept, Thread!Unread
  <2> QED BY <2>1, <2>2, <2>5, <2>6, <2>7, <2>8 DEF ThreadsIInv, InShape, Reported
<1>2. CASE Moves
  <2>1. Boxes' /\ Later
    BY <1>2, MovesLead DEF ThreadsIInv
  <2>2. InShape => InShape'
    BY <2>1 DEF Later, InShape
  <2> QED BY <2>1, <2>2, LaterCounted, LaterTold DEF ThreadsIInv, Later
<1>3. CASE Thread!Fail
  <2>1. get'.pc = "failed" /\ SameMail /\ stayed' = stayed
    BY <1>3 DEF Thread!Fail, SameMail, Thread!mailVars, ThreadsIInv
  <2> QED BY <2>1, SameMailStays DEF ThreadsIInv
<1> QED BY <1>1, <1>2, <1>3, StartsTold, SelectsTold, SearchesTold, FetchesTold, GathersTold,
           LocatesTold, LocateFailuresTold, SweepsTold, AnswersTold DEF Thread!Next, Moves

-----------------------------------------------------------------------------
\* A message of the answer that stays is with its thread.
LEMMA StayingIsGrouped == ThreadsIInv => Thread!Grouped
<1> SUFFICES ASSUME ThreadsIInv, Thread!Answered, NEW x \in stayed, NEW t \in get.asked
             PROVE  /\ x \in Thread!Members(t) => Thread!ThreadAt(x) = t
                    /\ Thread!ThreadAt(x) = t => x \in Thread!Members(t) \/ Thread!Unread(t)
  BY DEF Thread!Grouped
<1>1. Listed /\ Sorted /\ get.pc = "answered" /\ x \in Kept /\ x \in Thread!Present
  BY DEF Thread!Answered, ThreadsIInv, Reported, Kept, Boxes
<1>2. ASSUME Thread!ThreadAt(x) = t, ~Thread!Unread(t) PROVE x \in Thread!Members(t)
  <2>1. Entry(x) \in get.list
    BY <1>1, <1>2 DEF Sorted
  <2> QED BY <1>2, <2>1 DEF Thread!Members, Entry
<1>3. ASSUME x \in Thread!Members(t) PROVE Thread!ThreadAt(x) = t
  BY <1>1, <1>3 DEF Thread!Members, Listed, Thread!Present
<1> QED BY <1>2, <1>3

LEMMA AnswerIsAsItsState == ThreadsIInv => Thread!AsOfState
<1> SUFFICES ASSUME ThreadsIInv, Thread!Answered, Thread!Roots(get.asked) # {},
                    \A b \in Box : get.status[b] = Thread!Status(b), NEW t \in get.asked,
                    ~Thread!Unread(t)
             PROVE  Thread!Members(t) = {x \in Thread!Present : Thread!ThreadAt(x) = t}
  BY DEF Thread!AsOfState
<1>1. Listed /\ Sorted /\ get.pc = "answered" /\ \A b \in Box : Settled(b)
  BY DEF Thread!Answered, ThreadsIInv, Reported, Settled
<1>2. ASSUME NEW x \in Thread!Present, Thread!ThreadAt(x) = t PROVE x \in Thread!Members(t)
  <2>1. x \in Kept
    BY <1>1, PlaceParts DEF Kept, Thread!Present
  <2>2. Entry(x) \in get.list
    BY <1>1, <1>2, <2>1 DEF Sorted
  <2> QED BY <1>2, <2>2 DEF Thread!Members, Entry
<1>3. ASSUME NEW x \in Thread!Members(t) PROVE x \in Thread!Present /\ Thread!ThreadAt(x) = t
  BY <1>1, PlaceParts DEF Thread!Members, Listed, Thread!Present
<1> QED BY <1>2, <1>3

LEMMA ThreadsInvariance == NoColons => (RequestSpec => [](folder # << >> => ThreadsIInv))
<1> SUFFICES ASSUME NoColons PROVE RequestSpec => [](folder # << >> => ThreadsIInv)
  OBVIOUS
<1>1. RequestInit => (folder # << >> => ThreadsIInv)
  BY InitThreads DEF RequestInit, ThreadRests
<1>2. (folder # << >> => ThreadsIInv) /\ [RequestNext]_<<batchVars, threadVars>>
         => (folder # << >> => ThreadsIInv)'
  BY NextThreads DEF RequestNext, threadVars
<1> QED BY <1>1, <1>2, PTL DEF RequestSpec

\* Every message that is in its mailbox from the beginning of a Thread/get to
\* its end is listed with its thread, and with no other, however many mailboxes
\* are searched at a time and whatever else comes, goes and is moved meanwhile
\* (thread.py:20).  A message without References is looked up by its mailbox's
\* name, which must not have a colon (thread.py:165), and is not listed if the
\* SELECT of that lookup fails (thread.py:129).
THEOREM ThreadsAreWhole == NoColons => (RequestSpec => []Grouped)
<1> SUFFICES ASSUME NoColons PROVE RequestSpec => []Grouped
  OBVIOUS
<1>1. (folder # << >> => ThreadsIInv) => Grouped
  BY StayingIsGrouped DEF Grouped
<1> QED BY <1>1, ThreadsInvariance, PTL

\* The SELECTs of the search, or what the batch swept before it, are the state
\* of the answer: as long as the account has that state, its threads are those
\* of the answer (thread.py:101), but for those of a lookup whose SELECT failed.
THEOREM ThreadsAreAsTheirState == NoColons => (RequestSpec => []AsOfState)
<1> SUFFICES ASSUME NoColons PROVE RequestSpec => []AsOfState
  OBVIOUS
<1>1. (folder # << >> => ThreadsIInv) => AsOfState
  BY AnswerIsAsItsState DEF AsOfState
<1> QED BY <1>1, ThreadsInvariance, PTL
=============================================================================
