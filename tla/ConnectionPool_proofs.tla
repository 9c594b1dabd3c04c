------------------------ MODULE ConnectionPool_proofs ------------------------
(***************************************************************************)
(* Proofs about ConnectionPool, for every number of tasks, connections and *)
(* passwords, every cap and every timer value, and about Reading, what a   *)
(* client gets over the connections of the pool: for every mail, filter,   *)
(* sort, MIME tree, size and lifetime. The two have no variable in common. *)
(*                                                                         *)
(* IInv is inductive for the pool: the types, who owns which connection    *)
(* (Ownership) and the count of the slots (Slots). Reading's invariants    *)
(* are OrderedInv and TrustedInv, PartsInv and StagedInv.                  *)
(***************************************************************************)
EXTENDS ConnectionPool, Reading, SequenceTheorems, FiniteSetTheorems, FunctionTheorems,
    TLAPS

Ownership ==
    /\ \A t \in Task : held[t] # None <=> pc[t] \in {"using", "closing"}
    /\ \A t \in Task : pc[t] # "out" => pw[t] # None
    /\ \A t \in Task : pc[t] = "closing" => held[t] \in closing
    /\ \A c \in closing : entry[c] = None
    /\ \A c \in Conn : entry[c] # None => auth[c] = entry[c]
    /\ ExclusiveUse
    /\ IdleQuiescent
    /\ OwnSession

Slots ==
    /\ SlotAccounting
    /\ open <= MaxPerUser
    /\ NoLostWakeup

IInv == TypeOK /\ Ownership /\ Slots

-----------------------------------------------------------------------------
(***************************************************************************)
(* Facts about the sets that are counted.                                  *)
(***************************************************************************)
\* The counted sets are finite.
LEMMA FiniteCounts ==
    /\ IsFiniteSet(Idle) /\ Cardinality(Idle) \in Nat
    /\ IsFiniteSet(Holders) /\ Cardinality(Holders) \in Nat
    /\ IsFiniteSet(Expired) /\ Cardinality(Expired) \in Nat
    /\ IsFiniteSet(Idle') /\ Cardinality(Idle') \in Nat
    /\ IsFiniteSet(Holders') /\ Cardinality(Holders') \in Nat
<1>1. /\ Idle \in SUBSET Conn /\ Idle' \in SUBSET Conn
      /\ Holders \in SUBSET Task /\ Holders' \in SUBSET Task
      /\ Expired \in SUBSET Conn
  BY DEF Idle, Holders, Expired
<1>2. IsFiniteSet(Conn) /\ IsFiniteSet(Task)
  BY PoolAssumption
<1>. QED
  BY <1>1, <1>2, FS_Subset, FS_CardinalityType

\* Where the tasks are once t goes to q and everybody who waits is notified.
Moved(t, q) == [u \in Task |-> IF u = t THEN q
                               ELSE IF pc[u] = "waiting" THEN "notified"
                               ELSE pc[u]]

\* The three steps that notify, action by action and without nested EXCEPTs.
LEMMA ConnectFailedFacts ==
    ASSUME NEW t \in Task, ConnectFailed(t)
    PROVE  /\ pc[t] = "connecting"
           /\ pc' = Moved(t, "out")
           /\ pw' = [pw EXCEPT ![t] = None]
           /\ timer' = [timer EXCEPT ![t] = 0]
           /\ open' = open - 1
           /\ UNCHANGED <<held, entry, age, auth, closing, running, leaked,
                          sweeper, sweepIn>>
BY DEF ConnectFailed, Leave, Notified, Moved, connVars, sweepVars

LEMMA ReturnOkFacts ==
    ASSUME NEW t \in Task, ReturnOk(t)
    PROVE  /\ pc[t] = "using"
           /\ held[t] \notin running
           /\ pc' = Moved(t, "out")
           /\ pw' = [pw EXCEPT ![t] = None]
           /\ held' = [held EXCEPT ![t] = None]
           /\ timer' = [timer EXCEPT ![t] = 0]
           /\ entry' = [entry EXCEPT ![held[t]] = pw[t]]
           /\ age' = [age EXCEPT ![held[t]] = 0]
           /\ UNCHANGED <<auth, closing, running, open, leaked, sweeper, sweepIn>>
BY DEF ReturnOk, Leave, Notified, Moved, slotVars, sweepVars

LEMMA GiveUpFacts ==
    ASSUME NEW t \in Task, BodyFailed(t) \/ BodyCancelled(t)
    PROVE  /\ pc[t] = "using"
           /\ pc' = Moved(t, "closing")
           /\ open' = open - 1
           /\ closing' = closing \cup {held[t]}
           /\ UNCHANGED <<pw, held, timer, entry, age, auth, running, leaked,
                          sweeper, sweepIn>>
BY DEF BodyFailed, BodyCancelled, GiveUp, Notified, Moved, sweepVars

-----------------------------------------------------------------------------
(***************************************************************************)
(* Types.                                                                  *)
(***************************************************************************)
LEMMA InitType == Init => TypeOK
BY PoolAssumption DEF Init, TypeOK

\* One pass of the loop of _acquire preserves the types.
LEMMA AttemptType ==
    ASSUME NEW t \in Task, NEW p \in Password \cup {None},
           TypeOK, Attempt(t, p),
           pw' = [pw EXCEPT ![t] = p] \/ UNCHANGED pw
    PROVE  TypeOK'
<1>. USE PoolAssumption, FiniteCounts
<1>1. CASE Reuse(t, p)
  BY <1>1 DEF TypeOK, Reuse, Matching, Idle, slotVars, sweepVars
<1>2. CASE TakeSlot(t, p)
  <2>1. closing' \subseteq Conn
    BY <1>2 DEF TypeOK, TakeSlot, Idle
  <2>2. open' \in Int
    BY <1>2 DEF TypeOK, TakeSlot
  <2>. QED
    BY <1>2, <2>1, <2>2 DEF TypeOK, TakeSlot, EvictStale, sweepVars
<1>3. CASE WaitForSlot(t, p)
  BY <1>3 DEF TypeOK, WaitForSlot, EvictStale, sweepVars
<1>. QED
  BY <1>1, <1>2, <1>3 DEF Attempt

\* The other steps of a task preserve them too.
LEMMA TaskStepType ==
    ASSUME NEW t \in Task, TypeOK, Ownership, TaskStep(t)
    PROVE  TypeOK'
<1>. USE PoolAssumption DEF TypeOK, connVars, slotVars, sweepVars, taskVars
<1>1. ASSUME NEW p \in Password, Checkout(t, p)
      PROVE  TypeOK'
  BY <1>1, AttemptType DEF Checkout
<1>2. CASE Retry(t)
  BY <1>2, AttemptType DEF Retry
<1>3. CASE AcquireTimedOut(t) \/ WaitCancelled(t)
  BY <1>3 DEF AcquireTimedOut, WaitCancelled, Leave
<1>4. CASE Connected(t)
  BY <1>4 DEF Connected, Fresh
<1>5. CASE ConnectFailed(t)
  BY <1>5, ConnectFailedFacts DEF Moved
<1>9. CASE ConnectCancelled(t)
  BY <1>9 DEF ConnectCancelled, Leave
<1>6. CASE StartCommand(t)
  BY <1>6 DEF StartCommand, Ownership
<1>7. CASE ReturnOk(t)
  BY <1>7, ReturnOkFacts DEF Moved, Ownership
<1>8. CASE BodyFailed(t) \/ BodyCancelled(t)
  BY <1>8, GiveUpFacts DEF Moved, Ownership
<1>. QED
  BY <1>1, <1>2, <1>3, <1>4, <1>5, <1>6, <1>7, <1>8, <1>9 DEF TaskStep

\* So does every step.
LEMMA NextType ==
    ASSUME TypeOK, Ownership, [Next]_vars
    PROVE  TypeOK'
<1>. USE PoolAssumption DEF TypeOK, connVars, slotVars, sweepVars, taskVars
<1>1. ASSUME NEW t \in Task, TaskStep(t)
      PROVE  TypeOK'
  BY <1>1, TaskStepType
<1>2. ASSUME NEW c \in Conn, EndCommand(c)
      PROVE  TypeOK'
  BY <1>2 DEF EndCommand
<1>3. ASSUME NEW c \in Conn, Logout(c)
      PROVE  TypeOK'
  BY <1>3 DEF Logout
<1>4. CASE OtherAccountNotifies
  BY <1>4 DEF OtherAccountNotifies, Notified
<1>5. CASE Sweep
  BY <1>5, FiniteCounts DEF Sweep, Notified, Expired, Idle
<1>6. CASE SweepDone \/ Start
  BY <1>6 DEF SweepDone, Start
<1>7. CASE Tick
  BY <1>7 DEF Tick
<1>8. CASE Stop
  BY <1>8 DEF Stop
<1>9. CASE UNCHANGED vars
  BY <1>9 DEF vars
<1>. QED
  BY <1>1, <1>2, <1>3, <1>4, <1>5, <1>6, <1>7, <1>8, <1>9 DEF Next

-----------------------------------------------------------------------------
(***************************************************************************)
(* Who owns which connection.                                              *)
(***************************************************************************)
LEMMA InitOwnership == Init => Ownership
BY PoolAssumption
   DEF Init, Ownership, ExclusiveUse, IdleQuiescent, OwnSession, Idle

LEMMA AttemptOwnership ==
    ASSUME NEW t \in Task, NEW p \in Password,
           TypeOK, Ownership, Attempt(t, p),
           pc[t] \in {"out", "notified"},
           pw' = [pw EXCEPT ![t] = p] \/ (UNCHANGED pw /\ pw[t] = p)
    PROVE  Ownership'
<1>. USE PoolAssumption
     DEF TypeOK, Ownership, ExclusiveUse, IdleQuiescent, OwnSession, Idle
<1>1. CASE Reuse(t, p)
  BY <1>1 DEF Reuse, Matching, slotVars, sweepVars
<1>2. CASE TakeSlot(t, p)
  BY <1>2 DEF TakeSlot, EvictStale, Matching, sweepVars
<1>3. CASE WaitForSlot(t, p)
  BY <1>3 DEF WaitForSlot, EvictStale, Matching, sweepVars
<1>. QED
  BY <1>1, <1>2, <1>3 DEF Attempt

LEMMA TaskStepOwnership ==
    ASSUME NEW t \in Task, TypeOK, Ownership, TaskStep(t)
    PROVE  Ownership'
<1>. USE PoolAssumption
     DEF TypeOK, Ownership, ExclusiveUse, IdleQuiescent, OwnSession, Idle,
         connVars, slotVars, sweepVars, taskVars
<1>1. ASSUME NEW p \in Password, Checkout(t, p)
      PROVE  Ownership'
  BY <1>1, AttemptOwnership DEF Checkout
<1>2. CASE Retry(t)
  BY <1>2, AttemptOwnership DEF Retry
<1>3. CASE AcquireTimedOut(t) \/ WaitCancelled(t)
  BY <1>3 DEF AcquireTimedOut, WaitCancelled, Leave
<1>4. CASE Connected(t)
  BY <1>4 DEF Connected, Fresh, Live
<1>5. CASE ConnectFailed(t)
  BY <1>5, ConnectFailedFacts DEF Moved
<1>9. CASE ConnectCancelled(t)
  BY <1>9 DEF ConnectCancelled, Leave
<1>6. CASE StartCommand(t)
  BY <1>6 DEF StartCommand
<1>7. CASE ReturnOk(t)
  BY <1>7, ReturnOkFacts DEF Moved
<1>8. CASE BodyFailed(t) \/ BodyCancelled(t)
  BY <1>8, GiveUpFacts DEF Moved
<1>. QED
  BY <1>1, <1>2, <1>3, <1>4, <1>5, <1>6, <1>7, <1>8, <1>9 DEF TaskStep

LEMMA NextOwnership ==
    ASSUME TypeOK, Ownership, [Next]_vars
    PROVE  Ownership'
<1>. USE PoolAssumption
     DEF TypeOK, Ownership, ExclusiveUse, IdleQuiescent, OwnSession, Idle,
         connVars, slotVars, sweepVars, taskVars
<1>1. ASSUME NEW t \in Task, TaskStep(t)
      PROVE  Ownership'
  BY <1>1, TaskStepOwnership
<1>2. ASSUME NEW c \in Conn, EndCommand(c)
      PROVE  Ownership'
  BY <1>2 DEF EndCommand
<1>3. ASSUME NEW c \in Conn, Logout(c)
      PROVE  Ownership'
  BY <1>3 DEF Logout
<1>4. CASE OtherAccountNotifies
  BY <1>4 DEF OtherAccountNotifies, Notified
<1>5. CASE Sweep
  BY <1>5 DEF Sweep, Notified, Expired
<1>6. CASE SweepDone \/ Start
  BY <1>6 DEF SweepDone, Start
<1>7. CASE Tick
  BY <1>7 DEF Tick
<1>8. CASE Stop
  BY <1>8 DEF Stop
<1>9. CASE UNCHANGED vars
  BY <1>9 DEF vars
<1>. QED
  BY <1>1, <1>2, <1>3, <1>4, <1>5, <1>6, <1>7, <1>8, <1>9 DEF Next

-----------------------------------------------------------------------------
(***************************************************************************)
(* The count of the slots.                                                 *)
(***************************************************************************)
LEMMA InitSlots == Init => Slots
<1>. SUFFICES ASSUME Init PROVE Slots
  OBVIOUS
<1>1. Idle = {} /\ Holders = {} /\ Waiting = {}
  BY DEF Init, Idle, Holders, Waiting
<1>2. Cardinality({}) = 0
  BY FS_EmptySet
<1>. QED
  BY <1>1, <1>2, PoolAssumption
     DEF Init, Slots, SlotAccounting, NoLostWakeup

\* A step that leaves the counted sets and the count alone, and adds nobody
\* to those who wait.
LEMMA SlotsUnchanged ==
    ASSUME Slots, Idle' = Idle, Holders' = Holders, open' = open,
           leaked' = leaked, Waiting' \subseteq Waiting
    PROVE  Slots'
BY DEF Slots, SlotAccounting, NoLostWakeup

\* One pass of the loop of _acquire.
LEMMA AttemptSlots ==
    ASSUME NEW t \in Task, NEW p \in Password,
           TypeOK, Ownership, Slots, Attempt(t, p),
           pc[t] \in {"out", "notified"}
    PROVE  Slots'
<1>. USE PoolAssumption, FiniteCounts
<1>1. t \notin Holders
  BY DEF Holders
<1>2. Cardinality({}) = 0 /\ (Cardinality(Idle) = 0 <=> Idle = {})
  BY FS_EmptySet
<1>3. Cardinality(Holders \cup {t}) = Cardinality(Holders) + 1
  BY <1>1, FS_AddElement
<1>4. CASE Reuse(t, p)
  <2>. PICK c \in Matching(p) : /\ pc' = [pc EXCEPT ![t] = "using"]
                                /\ entry' = [entry EXCEPT ![c] = None]
                                /\ UNCHANGED slotVars
    BY <1>4 DEF Reuse
  <2>1. c \in Idle /\ Idle' = Idle \ {c}
    BY DEF TypeOK, Matching, Idle
  <2>2. Holders' = Holders \cup {t} /\ Waiting' \subseteq Waiting
    BY DEF TypeOK, Holders, Waiting
  <2>3. Cardinality(Idle') = Cardinality(Idle) - 1
    BY <2>1, FS_RemoveElement
  <2>. QED
    BY <1>3, <2>1, <2>2, <2>3
       DEF Slots, SlotAccounting, NoLostWakeup, slotVars, TypeOK
<1>5. CASE TakeSlot(t, p)
  <2>1. Idle' = {}
    BY <1>5 DEF TakeSlot, EvictStale, Idle
  <2>2. Holders' = Holders \cup {t} /\ Waiting' \subseteq Waiting
    BY <1>5 DEF TakeSlot, TypeOK, Holders, Waiting
  <2>3. open' = open - Cardinality(Idle) + 1 /\ leaked' = leaked
    BY <1>5 DEF TakeSlot
  <2>4. open - Cardinality(Idle) < MaxPerUser
    BY <1>5 DEF TakeSlot
  <2>5. SlotAccounting'
    BY <1>2, <1>3, <2>1, <2>2, <2>3 DEF Slots, SlotAccounting, TypeOK
  <2>6. open' <= MaxPerUser
    BY <2>3, <2>4 DEF TypeOK
  <2>7. Waiting' = {}
    BY <1>2, <2>2, <2>4 DEF Slots, NoLostWakeup, TypeOK
  <2>. QED
    BY <2>5, <2>6, <2>7 DEF Slots, NoLostWakeup
<1>6. CASE WaitForSlot(t, p)
  <2>1. open - Cardinality(Idle) >= MaxPerUser
    BY <1>6 DEF WaitForSlot
  <2>2. Idle = {} /\ open >= MaxPerUser
    BY <1>2, <2>1 DEF Slots, TypeOK
  <2>3. Idle' = {} /\ Holders' = Holders
    BY <1>1, <1>6 DEF WaitForSlot, EvictStale, Idle, Holders, TypeOK
  <2>4. open' = open /\ leaked' = leaked
    BY <1>2, <1>6, <2>2 DEF WaitForSlot, TypeOK
  <2>. QED
    BY <2>2, <2>3, <2>4 DEF Slots, SlotAccounting, NoLostWakeup
<1>. QED
  BY <1>4, <1>5, <1>6 DEF Attempt

\* Somebody gives a slot up, or a connection back, and notifies.
LEMMA ReleaseSlots ==
    ASSUME NEW t \in Task, NEW q, q \notin {"connecting", "using", "waiting"},
           TypeOK, Slots, t \in Holders, pc' = Moved(t, q), leaked' = leaked,
           \/ Idle' = Idle /\ open' = open - 1
           \/ /\ \E c \in Conn \ Idle : Idle' = Idle \cup {c}
              /\ open' = open
    PROVE  Slots'
<1>. USE FiniteCounts
<1>1. Holders' = Holders \ {t}
  BY DEF Holders, Moved
<1>2. Waiting' = {}
  BY DEF Waiting, Moved
<1>3. Cardinality(Holders') = Cardinality(Holders) - 1
  BY <1>1, FS_RemoveElement
<1>4. CASE Idle' = Idle /\ open' = open - 1
  BY <1>2, <1>3, <1>4, PoolAssumption
     DEF Slots, SlotAccounting, NoLostWakeup, TypeOK
<1>5. ASSUME NEW c \in Conn \ Idle, Idle' = Idle \cup {c}, open' = open
      PROVE  Slots'
  <2>1. Cardinality(Idle') = Cardinality(Idle) + 1
    BY <1>5, FS_AddElement
  <2>. QED
    BY <1>2, <1>3, <1>5, <2>1
       DEF Slots, SlotAccounting, NoLostWakeup, TypeOK
<1>. QED
  BY <1>4, <1>5

LEMMA TaskStepSlots ==
    ASSUME NEW t \in Task, TypeOK, Ownership, Slots, TaskStep(t)
    PROVE  Slots'
<1>. USE PoolAssumption DEF connVars, slotVars, sweepVars, taskVars
<1>1. ASSUME NEW p \in Password, Checkout(t, p)
      PROVE  Slots'
  BY <1>1, AttemptSlots DEF Checkout
<1>2. CASE Retry(t)
  <2>1. pw[t] \in Password
    BY <1>2 DEF Retry, TypeOK, Ownership
  <2>. QED
    BY <1>2, <2>1, AttemptSlots DEF Retry
<1>3. CASE AcquireTimedOut(t) \/ WaitCancelled(t)
  <2>1. Idle' = Idle /\ Holders' = Holders /\ Waiting' \subseteq Waiting
    BY <1>3 DEF AcquireTimedOut, WaitCancelled, Leave, TypeOK, Idle, Holders, Waiting
  <2>. QED
    BY <1>3, <2>1, SlotsUnchanged DEF AcquireTimedOut, WaitCancelled
<1>4. CASE Connected(t)
  <2>1. Idle' = Idle /\ Holders' = Holders /\ Waiting' \subseteq Waiting
    BY <1>4 DEF Connected, TypeOK, Idle, Holders, Waiting
  <2>. QED
    BY <1>4, <2>1, SlotsUnchanged DEF Connected
<1>5. CASE ConnectFailed(t)
  <2>1. t \in Holders /\ Idle' = Idle
    BY <1>5, ConnectFailedFacts DEF Holders, Idle
  <2>. QED
    BY <1>5, <2>1, ConnectFailedFacts, ReleaseSlots
<1>6. CASE ConnectCancelled(t)
  <2>1. Idle' = Idle /\ t \in Holders
    BY <1>6 DEF ConnectCancelled, Idle, Holders
  <2>2. Holders' = Holders \ {t} /\ Waiting' \subseteq Waiting
    BY <1>6 DEF ConnectCancelled, Leave, TypeOK, Holders, Waiting
  <2>3. Cardinality(Holders') = Cardinality(Holders) - 1
    BY <2>1, <2>2, FiniteCounts, FS_RemoveElement
  <2>4. open' = open /\ leaked' = leaked + 1
    BY <1>6 DEF ConnectCancelled
  <2>. QED
    BY <2>1, <2>2, <2>3, <2>4, FiniteCounts
       DEF Slots, SlotAccounting, NoLostWakeup, TypeOK
<1>7. CASE StartCommand(t)
  <2>1. Idle' = Idle /\ Holders' = Holders /\ Waiting' = Waiting
    BY <1>7 DEF StartCommand, Idle, Holders, Waiting
  <2>. QED
    BY <1>7, <2>1, SlotsUnchanged DEF StartCommand
<1>8. CASE ReturnOk(t)
  <2>1. t \in Holders
    BY <1>8 DEF ReturnOk, Holders
  <2>2. held[t] \in Conn \ Idle /\ pw[t] # None
    BY <1>8 DEF ReturnOk, Ownership, ExclusiveUse, TypeOK
  <2>3. Idle' = Idle \cup {held[t]}
    BY <1>8, <2>2, ReturnOkFacts DEF TypeOK, Idle
  <2>. QED
    BY <1>8, <2>1, <2>2, <2>3, ReturnOkFacts, ReleaseSlots
<1>9. CASE BodyFailed(t) \/ BodyCancelled(t)
  <2>1. t \in Holders /\ Idle' = Idle
    BY <1>9, GiveUpFacts DEF Holders, Idle
  <2>. QED
    BY <1>9, <2>1, GiveUpFacts, ReleaseSlots
<1>. QED
  BY <1>1, <1>2, <1>3, <1>4, <1>5, <1>6, <1>7, <1>8, <1>9 DEF TaskStep

LEMMA NextSlots ==
    ASSUME TypeOK, Ownership, Slots, [Next]_vars
    PROVE  Slots'
<1>. USE PoolAssumption DEF connVars, slotVars, sweepVars, taskVars
<1>1. ASSUME NEW t \in Task, TaskStep(t)
      PROVE  Slots'
  BY <1>1, TaskStepSlots
<1>2. ASSUME NEW c \in Conn, EndCommand(c)
      PROVE  Slots'
  <2>1. Idle' = Idle /\ Holders' = Holders /\ Waiting' = Waiting
    BY <1>2 DEF EndCommand, Idle, Holders, Waiting
  <2>. QED
    BY <1>2, <2>1, SlotsUnchanged DEF EndCommand
<1>3. ASSUME NEW c \in Conn, Logout(c)
      PROVE  Slots'
  <2>1. \A t \in Task : held[t] = c => pc[t] = "closing"
    BY <1>3 DEF Logout, Ownership, ExclusiveUse
  <2>2. Idle' = Idle /\ Holders' = Holders /\ Waiting' \subseteq Waiting
    BY <1>3, <2>1 DEF Logout, Idle, Holders, Waiting
  <2>. QED
    BY <1>3, <2>2, SlotsUnchanged DEF Logout
<1>4. CASE OtherAccountNotifies
  <2>1. Idle' = Idle /\ Holders' = Holders /\ Waiting' \subseteq Waiting
    BY <1>4 DEF OtherAccountNotifies, Notified, Idle, Holders, Waiting
  <2>. QED
    BY <1>4, <2>1, SlotsUnchanged DEF OtherAccountNotifies
<1>5. CASE Sweep
  <2>1. Holders' = Holders /\ Waiting' = {}
    BY <1>5 DEF Sweep, Notified, Holders, Waiting
  <2>2. Idle' = Idle \ Expired /\ Expired \subseteq Idle
    BY <1>5 DEF Sweep, Idle, Expired
  <2>3. /\ Idle' \cup Expired = Idle
        /\ Idle' \cap Expired = {}
    BY <2>2
  <2>4. Cardinality(Idle') + Cardinality(Expired) = Cardinality(Idle)
    <3>1. Cardinality(Idle' \cap Expired) = 0
      BY <2>3, FS_EmptySet
    <3>2. Cardinality(Idle' \cup Expired)
            = Cardinality(Idle') + Cardinality(Expired) - Cardinality(Idle' \cap Expired)
      <4>. HIDE DEF Idle, Expired
      <4>. QED
        BY FiniteCounts, FS_Union
    <3>3. Cardinality(Idle' \cup Expired) = Cardinality(Idle)
      BY <2>3, Zenon
    <3>. QED
      BY <3>1, <3>2, <3>3, FiniteCounts
  <2>5. open' = open - Cardinality(Expired) /\ leaked' = leaked
    BY <1>5 DEF Sweep
  <2>. QED
    BY <2>1, <2>4, <2>5, FiniteCounts
       DEF Slots, SlotAccounting, NoLostWakeup, TypeOK
<1>6. CASE SweepDone \/ Start
  <2>1. Idle' = Idle /\ Holders' = Holders /\ Waiting' = Waiting
    BY <1>6 DEF SweepDone, Start, Idle, Holders, Waiting
  <2>. QED
    BY <1>6, <2>1, SlotsUnchanged DEF SweepDone, Start
<1>7. CASE Tick
  <2>1. Idle' = Idle /\ Holders' = Holders /\ Waiting' = Waiting
    BY <1>7 DEF Tick, Idle, Holders, Waiting
  <2>. QED
    BY <1>7, <2>1, SlotsUnchanged DEF Tick
<1>8. CASE Stop
  <2>1. Idle' = {} /\ Holders' = {} /\ Waiting' = {}
    BY <1>8 DEF Stop, Idle, Holders, Waiting
  <2>2. open' = 0 /\ leaked' = 0
    BY <1>8 DEF Stop
  <2>. QED
    BY <2>1, <2>2, FS_EmptySet DEF Slots, SlotAccounting, NoLostWakeup
<1>9. CASE UNCHANGED vars
  <2>1. Idle' = Idle /\ Holders' = Holders /\ Waiting' = Waiting
    BY <1>9 DEF vars, Idle, Holders, Waiting
  <2>. QED
    BY <1>9, <2>1, SlotsUnchanged DEF vars
<1>. QED
  BY <1>1, <1>2, <1>3, <1>4, <1>5, <1>6, <1>7, <1>8, <1>9 DEF Next

-----------------------------------------------------------------------------
(***************************************************************************)
(* The theorems.                                                           *)
(***************************************************************************)
\* The strengthening of every invariant below is inductive.
THEOREM Invariance == Spec => []IInv
<1>1. Init => IInv
  BY InitType, InitOwnership, InitSlots DEF IInv
<1>2. IInv /\ [Next]_vars => IInv'
  BY NextType, NextOwnership, NextSlots DEF IInv
<1>. QED
  BY <1>1, <1>2, PTL DEF Spec

\* The variables keep their types.
THEOREM TypeCorrect == Spec => []TypeOK
<1>1. IInv => TypeOK
  BY DEF IInv
<1>. QED
  BY <1>1, Invariance, PTL

\* No two tasks share a connection, and a connection in use is neither idle
\* nor being closed, whatever was rotated, cancelled, swept or evicted.
THEOREM Exclusive == Spec => []ExclusiveUse
<1>1. IInv => ExclusiveUse
  BY DEF IInv, Ownership
<1>. QED
  BY <1>1, Invariance, PTL

\* No command of an earlier request is in flight on a pooled connection.
THEOREM PooledQuiescent == Spec => []IdleQuiescent
<1>1. IInv => IdleQuiescent
  BY DEF IInv, Ownership
<1>. QED
  BY <1>1, Invariance, PTL

\* A body never runs on a session another password opened.
THEOREM NoMaskedRotation == Spec => []OwnSession
<1>1. IInv => OwnSession
  BY DEF IInv, Ownership
<1>. QED
  BY <1>1, Invariance, PTL

\* _open_count is exact up to the slots of cancelled connects.
THEOREM CountIsExact == Spec => []SlotAccounting
<1>1. IInv => SlotAccounting
  BY DEF IInv, Slots
<1>. QED
  BY <1>1, Invariance, PTL

\* The pool never hands out or keeps more than max_per_user connections.
THEOREM Bounded == Spec => []Capacity
<1>1. IInv => Capacity
  BY FiniteCounts, PoolAssumption
     DEF IInv, TypeOK, Slots, SlotAccounting, Capacity
<1>. QED
  BY <1>1, Invariance, PTL

\* A task left waiting has nothing it could take.
THEOREM WakeupsSuffice == Spec => []NoLostWakeup
<1>1. IInv => NoLostWakeup
  BY DEF IInv, Slots
<1>. QED
  BY <1>1, Invariance, PTL

-----------------------------------------------------------------------------
(***************************************************************************)
(* The pool implements BoundedLease: a step of a task that takes a slot or *)
(* gives one up is a step of the lease, the others do not change it.       *)
(***************************************************************************)
LeaseOf == [t \in Task |-> IF pc[t] = "using" THEN held[t] ELSE None]

\* The Cardinality of BoundedLease is that of FiniteSets.
LEMMA LeaseCardinality == \A S : Lease!Cardinality(S) = Cardinality(S)
BY DEF Lease!Cardinality, Cardinality

\* A connection no body uses is unleased.
LEMMA NotLeased ==
    ASSUME TypeOK, NEW c \in Conn, \A t \in Task : pc[t] = "using" => held[t] # c
    PROVE  \A t \in Task : LeaseOf[t] # c
BY PoolAssumption DEF LeaseOf

\* Steps that move no task in or out of "connecting" and "using" and take no
\* connection from a body are invisible.
LEMMA LeaseStutter ==
    ASSUME \A t \in Task : \/ pc'[t] = pc[t] /\ held'[t] = held[t]
                           \/ /\ pc[t] \notin {"connecting", "using"}
                              /\ pc'[t] \notin {"connecting", "using"}
    PROVE  UNCHANGED <<Holders, LeaseOf>>
BY DEF Holders, LeaseOf

\* A task that leaves "connecting" or "using" releases its lease.
LEMMA LeaseReleased ==
    ASSUME NEW t \in Task, NEW q, q \notin {"connecting", "using"},
           TypeOK, t \in Holders,
           pc' = Moved(t, q) \/ pc' = [pc EXCEPT ![t] = q],
           \A u \in Task : u # t => held'[u] = held[u]
    PROVE  Lease!Release(t)
<1>1. /\ pc'[t] = q
      /\ \A u \in Task : u # t /\ pc[u] \in {"connecting", "using"} => pc'[u] = pc[u]
      /\ \A u \in Task : u # t /\ pc[u] \notin {"connecting", "using"}
                            => pc'[u] \notin {"connecting", "using"}
  BY DEF TypeOK, Moved
<1>2. Holders' = Holders \ {t}
  BY <1>1 DEF Holders
<1>3. LeaseOf' = [LeaseOf EXCEPT ![t] = None]
  BY <1>1 DEF LeaseOf
<1>. QED
  BY <1>2, <1>3 DEF Lease!Release, LeaseOf

\* One pass of the loop of _acquire grants a lease, or changes none.
LEMMA LeaseAttempt ==
    ASSUME NEW t \in Task, NEW p \in Password, IInv, Attempt(t, p),
           pc[t] \in {"out", "notified"}
    PROVE  Lease!Grant(t) \/ UNCHANGED <<Holders, LeaseOf>>
<1>. USE PoolAssumption, FiniteCounts DEF IInv
<1>1. t \notin Holders
  BY DEF Holders
<1>2. CASE Reuse(t, p)
  <2>. PICK c \in Matching(p) : /\ pc' = [pc EXCEPT ![t] = "using"]
                                /\ held' = [held EXCEPT ![t] = c]
    BY <1>2 DEF Reuse
  <2>1. c \in Idle
    BY DEF Matching
  <2>2. Holders' = Holders \cup {t}
    BY DEF TypeOK, Holders
  <2>3. LeaseOf' = [LeaseOf EXCEPT ![t] = c]
    BY DEF TypeOK, LeaseOf
  <2>4. c \in Lease!Unleased
    BY <2>1, NotLeased DEF Ownership, ExclusiveUse, Lease!Unleased, LeaseOf, Idle
  <2>5. Cardinality(Holders) < MaxPerUser
    BY <2>1, FS_EmptySet DEF Slots, SlotAccounting, TypeOK
  <2>. QED
    <3>1. \E x \in Lease!Unleased \cup {None} : LeaseOf' = [LeaseOf EXCEPT ![t] = x]
      BY <2>3, <2>4
    <3>2. Lease!Cardinality(Holders) < MaxPerUser
      BY <2>5, LeaseCardinality
    <3>. QED
      BY ONLY <1>1, <2>2, <3>1, <3>2, Zenon DEF Lease!Grant, LeaseOf
<1>3. CASE TakeSlot(t, p)
  <2>1. pc' = [pc EXCEPT ![t] = "connecting"] /\ held' = held
    BY <1>3 DEF TakeSlot
  <2>2. Holders' = Holders \cup {t}
    BY <2>1 DEF TypeOK, Holders
  <2>3. LeaseOf' = [LeaseOf EXCEPT ![t] = None]
    BY <2>1 DEF TypeOK, LeaseOf
  <2>4. Cardinality(Holders) < MaxPerUser
    BY <1>3 DEF TakeSlot, Slots, SlotAccounting, TypeOK
  <2>. QED
    <3>1. \E x \in Lease!Unleased \cup {None} : LeaseOf' = [LeaseOf EXCEPT ![t] = x]
      BY <2>3
    <3>2. Lease!Cardinality(Holders) < MaxPerUser
      BY <2>4, LeaseCardinality
    <3>. QED
      BY ONLY <1>1, <2>2, <3>1, <3>2, Zenon DEF Lease!Grant, LeaseOf
<1>4. CASE WaitForSlot(t, p)
  BY <1>4, LeaseStutter DEF WaitForSlot, TypeOK
<1>. QED
  BY <1>2, <1>3, <1>4 DEF Attempt

LEMMA LeaseTaskStep ==
    ASSUME NEW t \in Task, IInv, TaskStep(t)
    PROVE  Lease!Next \/ UNCHANGED <<Holders, LeaseOf>>
<1>. USE PoolAssumption DEF IInv
<1>1. ASSUME NEW p \in Password, Checkout(t, p)
      PROVE  Lease!Next \/ UNCHANGED <<Holders, LeaseOf>>
  BY <1>1, LeaseAttempt DEF Checkout, Lease!Next
<1>2. CASE Retry(t)
  <2>1. pw[t] \in Password
    BY <1>2 DEF Retry, TypeOK, Ownership
  <2>. QED
    BY <1>2, <2>1, LeaseAttempt DEF Retry, Lease!Next
<1>3. CASE AcquireTimedOut(t) \/ WaitCancelled(t)
  BY <1>3, LeaseStutter DEF AcquireTimedOut, WaitCancelled, Leave, TypeOK
<1>4. CASE Connected(t)
  <2>. PICK c \in Fresh : held' = [held EXCEPT ![t] = c]
    BY <1>4 DEF Connected
  <2>1. pc[t] = "connecting" /\ pc' = [pc EXCEPT ![t] = "using"]
    BY <1>4 DEF Connected
  <2>2. Holders' = Holders /\ t \in Holders
    BY <2>1 DEF TypeOK, Holders
  <2>3. LeaseOf' = [LeaseOf EXCEPT ![t] = c] /\ LeaseOf[t] = None
    BY <2>1 DEF TypeOK, LeaseOf
  <2>4. c \in Lease!Unleased
    BY NotLeased DEF Fresh, Live, Lease!Unleased, LeaseOf
  <2>. QED
    BY <2>2, <2>3, <2>4 DEF Lease!Next, Lease!Provide, LeaseOf
<1>5. CASE ConnectFailed(t)
  <2>1. t \in Holders
    BY <1>5 DEF ConnectFailed, Holders
  <2>. QED
    BY <1>5, <2>1, ConnectFailedFacts, LeaseReleased DEF Lease!Next
<1>6. CASE ConnectCancelled(t)
  <2>1. t \in Holders
    BY <1>6 DEF ConnectCancelled, Holders
  <2>. QED
    <3>1. pc' = [pc EXCEPT ![t] = "out"] /\ held' = held
      BY <1>6 DEF ConnectCancelled, Leave
    <3>2. TypeOK /\ \A u \in Task : u # t => held'[u] = held[u]
      BY <3>1
    <3>3. "out" \notin {"connecting", "using"}
      OBVIOUS
    <3>4. pc' = Moved(t, "out") \/ pc' = [pc EXCEPT ![t] = "out"]
      BY <3>1
    <3>5. Lease!Release(t)
      BY ONLY <2>1, <3>2, <3>3, <3>4, LeaseReleased
    <3>. QED
      BY <3>5 DEF Lease!Next
<1>7. CASE StartCommand(t)
  BY <1>7, LeaseStutter DEF StartCommand, taskVars
<1>8. CASE ReturnOk(t)
  <2>1. t \in Holders
    BY <1>8 DEF ReturnOk, Holders
  <2>2. \A u \in Task : u # t => held'[u] = held[u]
    BY <1>8 DEF ReturnOk, TypeOK
  <2>. QED
    BY <1>8, <2>1, <2>2, ReturnOkFacts, LeaseReleased DEF Lease!Next
<1>9. CASE BodyFailed(t) \/ BodyCancelled(t)
  <2>1. t \in Holders
    BY <1>9, GiveUpFacts DEF Holders
  <2>. QED
    BY <1>9, <2>1, GiveUpFacts, LeaseReleased DEF Lease!Next
<1>. QED
  BY <1>1, <1>2, <1>3, <1>4, <1>5, <1>6, <1>7, <1>8, <1>9 DEF TaskStep

\* Every step of the pool is a step of the lease or leaves it alone.
LEMMA LeaseStep ==
    ASSUME IInv, [Next]_vars
    PROVE  Lease!Next \/ UNCHANGED <<Holders, LeaseOf>>
<1>. USE PoolAssumption DEF IInv
<1>1. ASSUME NEW t \in Task, TaskStep(t)
      PROVE  Lease!Next \/ UNCHANGED <<Holders, LeaseOf>>
  BY <1>1, LeaseTaskStep
<1>2. ASSUME NEW c \in Conn, EndCommand(c)
      PROVE  UNCHANGED <<Holders, LeaseOf>>
  BY <1>2, LeaseStutter DEF EndCommand, taskVars
<1>3. ASSUME NEW c \in Conn, Logout(c)
      PROVE  UNCHANGED <<Holders, LeaseOf>>
  <2>1. \A t \in Task : held[t] = c => pc[t] = "closing"
    BY <1>3 DEF Logout, Ownership, ExclusiveUse
  <2>. QED
    BY <1>3, <2>1, LeaseStutter DEF Logout
<1>4. CASE OtherAccountNotifies
  BY <1>4, LeaseStutter DEF OtherAccountNotifies, Notified
<1>5. CASE Sweep
  BY <1>5, LeaseStutter DEF Sweep, Notified
<1>6. CASE SweepDone \/ Start \/ Tick \/ Stop \/ UNCHANGED vars
  BY <1>6, LeaseStutter DEF SweepDone, Start, Tick, Stop, vars, taskVars
<1>. QED
  BY <1>1, <1>2, <1>3, <1>4, <1>5, <1>6 DEF Next

\* checkout() implements a bounded, exclusive lease: every behaviour of the
\* pool is, to its callers, one of BoundedLease.
THEOREM Implementation == Spec => ImplementsLease
<1>1. Init => Lease!Init
  <2>. SUFFICES ASSUME Init PROVE Lease!Init
    OBVIOUS
  <2>1. Holders = {}
    BY DEF Init, Holders
  <2>2. LeaseOf = [t \in Task |-> None]
    BY DEF Init, LeaseOf
  <2>. QED
    BY <2>1, <2>2 DEF Lease!Init, LeaseOf
<1>2. IInv /\ [Next]_vars => [Lease!Next]_<<Holders, LeaseOf>>
  BY LeaseStep
<1>. QED
  BY <1>1, <1>2, Invariance, PTL DEF Spec, ImplementsLease, Lease!Spec, LeaseOf

-----------------------------------------------------------------------------
(***************************************************************************)
(* Induction, and functions defined by recursion.                          *)
(***************************************************************************)
\* A property of 0 that n + 1 inherits from n is one of every natural number:
\* otherwise moving every number below the one it fails for, and no other, would
\* be an injection of 0..n into itself that is not onto.
LEMMA Induction ==
    ASSUME NEW S, 0 \in S, \A n \in Nat : n \in S => n + 1 \in S
    PROVE  Nat \subseteq S
<1>1. SUFFICES ASSUME NEW k \in Nat, k \notin S PROVE FALSE
  OBVIOUS
<1> DEFINE T == {n \in 0..k : n \notin S}
           f == [n \in T |-> n - 1]
<1>2. IsFiniteSet(T)
  <2>1. IsFiniteSet(0..k)
    <3>1. 0 \in Int /\ k \in Int
      BY <1>1
    <3> QED BY <3>1, FS_Interval
  <2> QED BY <2>1, FS_Subset
<1>3. \A n \in T : n - 1 \in T
  <2>1. SUFFICES ASSUME NEW n \in T PROVE n - 1 \in T
    OBVIOUS
  <2>2. n \in Nat /\ n <= k /\ n \notin S
    BY <1>1
  <2>3. n # 0
    BY <2>2
  <2>4. n - 1 \in Nat /\ n - 1 + 1 = n
    BY <2>2, <2>3
  <2>5. n - 1 \notin S
    BY <2>2, <2>4
  <2> QED BY <2>2, <2>4, <2>5
<1>4. f \in Injection(T, T)
  BY <1>1, <1>3 DEF Injection, IsInjective
<1>5. f \in Surjection(T, T)
  BY <1>2, <1>4, FS_Injection
<1>6. k \in T
  BY <1>1
<1>7. PICK n \in T : f[n] = k
  BY <1>5, <1>6 DEF Surjection
<1> QED BY <1>1, <1>7

\* The same from n down, each number with all that are above it.
LEMMA InductionDown ==
    ASSUME NEW n \in Nat, NEW S,
           \A i \in 1..n : (\A j \in (i + 1)..n : j \in S) => i \in S
    PROVE  1..n \subseteq S
<1> DEFINE T == {m \in Nat : \A i \in 1..n : i > n - m => i \in S}
<1>1. 0 \in T
  OBVIOUS
<1>2. ASSUME NEW m \in Nat, m \in T PROVE m + 1 \in T
  <2>1. SUFFICES ASSUME NEW i \in 1..n, i > n - (m + 1) PROVE i \in S
    BY <1>2
  <2>2. \A j \in (i + 1)..n : j \in S
    BY <1>2, <2>1
  <2> QED BY <2>2
<1>3. Nat \subseteq T
  <2> HIDE DEF T
  <2> QED BY <1>1, <1>2, Induction
<1>4. n \in T
  BY <1>3
<1> QED BY <1>4

\* A set of natural numbers that has a member has a least one.
LEMMA Least ==
    ASSUME NEW T \in SUBSET Nat, T # {}
    PROVE  \E m \in T : \A k \in T : m <= k
<1> DEFINE S == {n \in Nat : \A k \in 0..n : k \notin T}
<1>1. SUFFICES ASSUME \A m \in T : \E k \in T : ~(m <= k) PROVE FALSE
  OBVIOUS
<1>2. 0 \in S
  BY <1>1
<1>3. ASSUME NEW n \in Nat, n \in S PROVE n + 1 \in S
  <2>1. n + 1 \notin T
    <3>1. SUFFICES ASSUME n + 1 \in T PROVE FALSE
      OBVIOUS
    <3>2. PICK k \in T : ~(n + 1 <= k)
      BY <1>1, <3>1
    <3>3. k \in 0..n
      BY <3>2
    <3> QED BY <1>3, <3>3
  <2> QED BY <1>3, <2>1
<1>4. Nat \subseteq S
  <2> HIDE DEF S
  <2> QED BY <1>2, <1>3, Induction
<1>5. PICK t \in T : TRUE
  OBVIOUS
<1>6. t \in S
  BY <1>4
<1> QED BY <1>6

\* B[i][g] is a value in R that depends only on what g has above i.
IsStepDown(n, R, B) ==
    /\ \A i \in 1..n, g \in [1..n -> R] : B[i][g] \in R
    /\ \A i \in 1..n : \A g, h \in [1..n -> R] :
           (\A j \in (i + 1)..n : g[j] = h[j]) => B[i][g] = B[i][h]

DefinedDown(n, R, B) == \E g \in [1..n -> R] : \A i \in 1..n : g[i] = B[i][g]

\* A recursive function that looks at what it has above i is defined: CHOOSE
\* finds it.
LEMMA RecursionDown ==
    ASSUME NEW n \in Nat, NEW R, R # {}, NEW B, IsStepDown(n, R, B)
    PROVE  DefinedDown(n, R, B)
<1> USE DEF IsStepDown
<1> DEFINE T == {m \in Nat : m <= n =>
                   \E g \in [1..n -> R] : \A i \in 1..n : i > n - m => g[i] = B[i][g]}
<1>1. 0 \in T
  <2>1. PICK r \in R : TRUE
    OBVIOUS
  <2> DEFINE g == [i \in 1..n |-> r]
  <2>2. g \in [1..n -> R] /\ \A i \in 1..n : ~(i > n - 0)
    OBVIOUS
  <2> HIDE DEF g
  <2> QED BY <2>2
<1>2. ASSUME NEW m \in Nat, m \in T PROVE m + 1 \in T
  <2>1. SUFFICES ASSUME m + 1 <= n
                 PROVE  \E g \in [1..n -> R] : \A i \in 1..n : i > n - (m + 1) => g[i] = B[i][g]
    OBVIOUS
  <2>2. PICK g \in [1..n -> R] : \A i \in 1..n : i > n - m => g[i] = B[i][g]
    BY <1>2, <2>1
  <2> DEFINE l == n - m
             h == [i \in 1..n |-> IF i = l THEN B[l][g] ELSE g[i]]
  <2>3. l \in 1..n
    BY <2>1
  <2>4. h \in [1..n -> R]
    BY <2>3
  <2>5. ASSUME NEW i \in 1..n, i > n - (m + 1) PROVE h[i] = B[i][h]
    <3>1. \A j \in (i + 1)..n : h[j] = g[j]
      BY <2>5
    <3>2. B[i][h] = B[i][g]
      BY <2>4, <3>1
    <3>3. CASE i = l
      BY <3>2, <3>3
    <3>4. CASE i # l
      <4>1. i > n - m
        BY <2>5, <3>4
      <4> QED BY <2>2, <3>2, <3>4, <4>1
    <3> QED BY <3>3, <3>4
  <2> QED BY <2>4, <2>5
<1>3. Nat \subseteq T
  <2> HIDE DEF T
  <2> QED BY <1>1, <1>2, Induction
<1>4. n \in T
  BY <1>3
<1>5. PICK g \in [1..n -> R] : \A i \in 1..n : i > n - n => g[i] = B[i][g]
  BY <1>4
<1> QED BY <1>5 DEF DefinedDown

\* B[k][x] is the k-th value after x.
IsStepUp(n, R, B) == \A k \in 1..n, x \in R : B[k][x] \in R

DefinedUp(n, R, r, B) ==
    \E g \in [0..n -> R] : \A k \in 0..n : g[k] = IF k = 0 THEN r ELSE B[k][g[k - 1]]

\* So is one that looks at what it has for k - 1.
LEMMA RecursionUp ==
    ASSUME NEW n \in Nat, NEW R, NEW r \in R, NEW B, IsStepUp(n, R, B)
    PROVE  DefinedUp(n, R, r, B)
<1> USE DEF IsStepUp
<1> DEFINE T == {m \in Nat : \E g \in [0..n -> R] :
                   \A k \in 0..n : k <= m => g[k] = IF k = 0 THEN r ELSE B[k][g[k - 1]]}
<1>1. 0 \in T
  <2> DEFINE g == [i \in 0..n |-> r]
  <2>1. g \in [0..n -> R] /\ g[0] = r /\ \A k \in 0..n : k <= 0 => k = 0
    OBVIOUS
  <2> HIDE DEF g
  <2> QED BY <2>1
<1>2. ASSUME NEW m \in Nat, m \in T PROVE m + 1 \in T
  <2>1. PICK g \in [0..n -> R] :
          \A k \in 0..n : k <= m => g[k] = IF k = 0 THEN r ELSE B[k][g[k - 1]]
    BY <1>2
  <2> DEFINE h == [k \in 0..n |-> IF k = m + 1 THEN B[k][g[k - 1]] ELSE g[k]]
  <2>2. h \in [0..n -> R]
    <3>1. SUFFICES ASSUME NEW k \in 0..n, k = m + 1 PROVE B[k][g[k - 1]] \in R
      OBVIOUS
    <3>2. k \in 1..n /\ k - 1 \in 0..n
      BY <3>1
    <3> QED BY <3>2
  <2>3. ASSUME NEW k \in 0..n, k <= m + 1 PROVE h[k] = IF k = 0 THEN r ELSE B[k][h[k - 1]]
    <3>1. CASE k = m + 1
      <4>1. k # 0 /\ k - 1 \in 0..n /\ k - 1 # m + 1
        BY <3>1
      <4> QED BY <3>1, <4>1
    <3>2. CASE k = 0
      BY <2>1, <3>2
    <3>3. CASE k # m + 1 /\ k # 0
      <4>1. k <= m /\ k - 1 \in 0..n /\ k - 1 # m + 1
        BY <2>3, <3>3
      <4> QED BY <2>1, <3>3, <4>1
    <3> QED BY <3>1, <3>2, <3>3
  <2> HIDE DEF h
  <2> QED BY <2>2, <2>3
<1>3. Nat \subseteq T
  <2> HIDE DEF T
  <2> QED BY <1>1, <1>2, Induction
<1>4. n \in T
  BY <1>3
<1>5. PICK g \in [0..n -> R] :
        \A k \in 0..n : k <= n => g[k] = IF k = 0 THEN r ELSE B[k][g[k - 1]]
  BY <1>4
<1> QED BY <1>5 DEF DefinedUp

\* The Cardinality of the instances is that of FiniteSets.
LEMMA SameSets ==
    \A S : /\ Queries!Cardinality(S) = Cardinality(S)
           /\ Blobs!Cardinality(S) = Cardinality(S)
BY DEF Queries!Cardinality, Blobs!Cardinality, Cardinality

-----------------------------------------------------------------------------
(***************************************************************************)
(* Email/query.                                                            *)
(***************************************************************************)
\* before is a strict total order of S.
IsOrder(S, before) ==
    /\ before \subseteq S \X S
    /\ \A x \in S : <<x, x>> \notin before
    /\ \A x, y \in S : x # y => <<x, y>> \in before \/ <<y, x>> \in before
    /\ \A x, y, z \in S : <<x, y>> \in before /\ <<y, z>> \in before => <<x, z>> \in before

\* r enumerates S in that order.
IsRanking(r, S, before) ==
    /\ r \in [1..Cardinality(S) -> S]
    /\ \A k, l \in 1..Cardinality(S) : k < l => <<r[k], r[l]>> \in before
    /\ \A j \in S : \E k \in 1..Cardinality(S) : r[k] = j

\* Ranked enumerates a finite set in its order.
LEMMA RankedIs ==
    ASSUME NEW S, IsFiniteSet(S), NEW before, IsOrder(S, before)
    PROVE  IsRanking(Queries!Ranked(S, before), S, before)
<1> DEFINE Earlier(j) == {i \in S : <<i, j>> \in before}
           n == Cardinality(S)
           rank == [j \in S |-> Cardinality(Earlier(j)) + 1]
           r == Queries!Ranked(S, before)
<1>1. n \in Nat /\ IsFiniteSet(1..n) /\ Cardinality(1..n) = n
  <2>1. n \in Nat
    BY FS_CardinalityType
  <2>2. 1 \in Int /\ n \in Int
    BY <2>1
  <2>3. IsFiniteSet(1..n) /\ Cardinality(1..n) = IF 1 > n THEN 0 ELSE n - 1 + 1
    BY <2>2, FS_Interval
  <2> QED BY <2>1, <2>3
<1>2. \A j \in S : IsFiniteSet(Earlier(j)) /\ Cardinality(Earlier(j)) \in Nat
  BY FS_Subset, FS_CardinalityType
<1>3. ASSUME NEW i \in S, NEW j \in S, <<i, j>> \in before
      PROVE  Cardinality(Earlier(i)) < Cardinality(Earlier(j))
  <2>1. Earlier(i) \in SUBSET (Earlier(j) \ {i})
    BY <1>3 DEF IsOrder
  <2>2. i \in Earlier(j)
    BY <1>3
  <2>3. /\ IsFiniteSet(Earlier(j) \ {i})
        /\ Cardinality(Earlier(j) \ {i}) = Cardinality(Earlier(j)) - 1
    BY <1>2, <2>2, FS_RemoveElement
  <2>4. Cardinality(Earlier(i)) <= Cardinality(Earlier(j) \ {i})
    BY <2>1, <2>3, FS_Subset
  <2> QED BY <1>2, <2>3, <2>4
<1>4. \A j \in S : Cardinality(Earlier(j)) + 1 \in 1..n
  <2>1. SUFFICES ASSUME NEW j \in S PROVE Cardinality(Earlier(j)) + 1 \in 1..n
    OBVIOUS
  <2>2. Earlier(j) \in SUBSET (S \ {j})
    BY DEF IsOrder
  <2>3. IsFiniteSet(S \ {j}) /\ Cardinality(S \ {j}) = n - 1
    BY FS_RemoveElement
  <2>4. Cardinality(Earlier(j)) <= Cardinality(S \ {j})
    BY <2>2, <2>3, FS_Subset
  <2>5. Cardinality(Earlier(j)) \in Nat
    BY <1>2
  <2> HIDE DEF Earlier, n
  <2> QED BY <1>1, <2>3, <2>4, <2>5
<1>5. \A i, j \in S : Cardinality(Earlier(i)) = Cardinality(Earlier(j)) => i = j
  <2>1. SUFFICES ASSUME NEW i \in S, NEW j \in S, i # j
                 PROVE  Cardinality(Earlier(i)) # Cardinality(Earlier(j))
    OBVIOUS
  <2>2. <<i, j>> \in before \/ <<j, i>> \in before
    BY <2>1 DEF IsOrder
  <2> HIDE DEF Earlier
  <2> QED BY <1>2, <1>3, <2>2
<1> HIDE DEF Earlier
<1>6. rank \in Surjection(S, 1..n)
  <2>1. rank \in Injection(S, 1..n)
    <3>1. rank \in [S -> 1..n]
      BY <1>4
    <3>2. \A i, j \in S : rank[i] = rank[j] => i = j
      BY <1>2, <1>5
    <3> QED BY <3>1, <3>2 DEF Injection, IsInjective
  <2> HIDE DEF rank
  <2> QED BY <1>1, <2>1, FS_Injection
<1>7. \A k \in 1..n : \E j \in S : Cardinality(Earlier(j)) = k - 1
  <2>1. SUFFICES ASSUME NEW k \in 1..n PROVE \E j \in S : Cardinality(Earlier(j)) = k - 1
    OBVIOUS
  <2>2. PICK j \in S : rank[j] = k
    BY <1>6 DEF Surjection
  <2>3. Cardinality(Earlier(j)) + 1 = k
    BY <2>2
  <2> QED BY <1>2, <2>3
<1>8. r = [k \in 1..n |-> CHOOSE j \in S : Cardinality(Earlier(j)) = k - 1]
  BY DEF Queries!Ranked, Earlier, Queries!Cardinality, Cardinality
<1>9. \A k \in 1..n : r[k] \in S /\ Cardinality(Earlier(r[k])) = k - 1
  <2>1. SUFFICES ASSUME NEW k \in 1..n
                 PROVE  r[k] \in S /\ Cardinality(Earlier(r[k])) = k - 1
    OBVIOUS
  <2>2. r[k] = CHOOSE j \in S : Cardinality(Earlier(j)) = k - 1
    BY <1>8
  <2> HIDE DEF r
  <2> QED BY <1>7, <2>2
<1>10. r \in [1..n -> S]
  <2>1. r = [k \in 1..n |-> r[k]]
    BY <1>8
  <2> HIDE DEF r
  <2> QED BY <1>9, <2>1
<1> HIDE DEF r
<1>11. ASSUME NEW k \in 1..n, NEW l \in 1..n, k < l PROVE <<r[k], r[l]>> \in before
  <2>1. Cardinality(Earlier(r[k])) < Cardinality(Earlier(r[l]))
    BY <1>1, <1>9, <1>11
  <2>2. r[k] # r[l] /\ <<r[l], r[k]>> \notin before
    BY <1>2, <1>3, <1>9, <2>1
  <2> QED BY <1>9, <2>2 DEF IsOrder
<1>12. ASSUME NEW j \in S PROVE \E k \in 1..n : r[k] = j
  <2>1. Cardinality(Earlier(j)) + 1 \in 1..n
    BY <1>4
  <2>2. Cardinality(Earlier(r[Cardinality(Earlier(j)) + 1])) = Cardinality(Earlier(j))
    BY <1>2, <1>9, <2>1
  <2>3. r[Cardinality(Earlier(j)) + 1] = j
    BY <1>5, <1>9, <2>1, <2>2
  <2> QED BY <2>1, <2>3
<1> QED BY <1>10, <1>11, <1>12 DEF r, IsRanking

-----------------------------------------------------------------------------
\* What a sort key is of a message, and whether it puts x before y.
Value(x, by, native) == Queries!SortValue(x, by.key, native)

Before(x, y, by, native) ==
    IF by.ascending THEN Queries!Less(Value(x, by, native), Value(y, by, native), native)
                    ELSE Queries!Less(Value(y, by, native), Value(x, by, native), native)

\* x comes before y by the sort keys from one on.
Sooner(x, y, sort, from, native) ==
    \E p \in from..Len(sort) :
        /\ \A q \in from..(p - 1) : Value(x, sort[q], native) = Value(y, sort[q], native)
        /\ Before(x, y, sort[p], native)

\* out is rows sorted by one key, stably.
Sorted(out, n, M, rows, by, native) ==
    /\ out \in [1..n -> M]
    /\ Queries!Messages(out) = Queries!Messages(rows)
    /\ \A k, l \in 1..n : k < l =>
         \/ Before(out[k], out[l], by, native)
         \/ /\ Value(out[k], by, native) = Value(out[l], by, native)
            /\ \E i, j \in 1..n : i < j /\ out[k] = rows[i] /\ out[l] = rows[j]

\* One pass of _apply_sort (email.py:570) is stable.
LEMMA SortByIs ==
    ASSUME NEW n \in Nat, NEW M, NEW rows \in [1..n -> M], NEW by, NEW native \in BOOLEAN,
           \A x \in M : Value(x, by, native) \in Nat \cup {Queries!NoValue}
    PROVE  Sorted(Queries!SortBy(rows, by, native), n, M, rows, by, native)
<1> DEFINE S == 1..n
           v(i) == Value(rows[i], by, native)
           E(i, j) == Before(rows[i], rows[j], by, native) \/ (v(i) = v(j) /\ i < j)
           before == {e \in S \X S : E(e[1], e[2])}
           order == Queries!Ranked(S, before)
           out == Queries!SortBy(rows, by, native)
<1>1. IsFiniteSet(S) /\ Cardinality(S) = n
  <2>1. 1 \in Int /\ n \in Int
    OBVIOUS
  <2>2. IsFiniteSet(1..n) /\ Cardinality(1..n) = IF 1 > n THEN 0 ELSE n - 1 + 1
    BY <2>1, FS_Interval
  <2> QED BY <2>2
<1>2. DOMAIN rows = S
  OBVIOUS
<1>3. out = [k \in DOMAIN order |-> rows[order[k]]]
  BY <1>2 DEF Queries!SortBy, Value, Before
<1>4. \A i \in S : v(i) \in Int /\ (v(i) # Queries!NoValue => v(i) >= 0) /\ Queries!NoValue = -1
  BY DEF Queries!NoValue
<1>5. \A i, j \in S : <<i, j>> \in before <=> E(i, j)
  OBVIOUS
<1>6. \A i, j \in S : Before(rows[i], rows[j], by, native) <=>
                        IF by.ascending THEN Queries!Less(v(i), v(j), native)
                            ELSE Queries!Less(v(j), v(i), native)
  BY DEF Before
<1>7. IsOrder(S, before)
  <2> HIDE DEF v
  <2>1. before \subseteq S \X S
    OBVIOUS
  <2>2. \A x \in S : ~E(x, x)
    BY <1>4, <1>6 DEF Queries!Less
  <2>3. \A x, y \in S : x # y => E(x, y) \/ E(y, x)
    BY <1>4, <1>6 DEF Queries!Less
  <2>4. \A x, y, z \in S : E(x, y) /\ E(y, z) => E(x, z)
    BY <1>4, <1>6 DEF Queries!Less
  <2> HIDE DEF before, E
  <2> QED BY <1>5, <2>1, <2>2, <2>3, <2>4 DEF IsOrder
<1>8. /\ order \in [1..n -> S]
      /\ \A k, l \in 1..n : k < l => <<order[k], order[l]>> \in before
      /\ \A j \in S : \E k \in 1..n : order[k] = j
  <2>1. IsFiniteSet(S) /\ Cardinality(S) = n
    BY <1>1
  <2> HIDE DEF S, before, order
  <2>2. IsRanking(Queries!Ranked(S, before), S, before)
    BY <1>7, <2>1, RankedIs, Zenon
  <2> QED BY <2>1, <2>2 DEF order, IsRanking
<1> HIDE DEF order
<1>9. out \in [1..n -> M] /\ \A k \in 1..n : out[k] = rows[order[k]]
  BY <1>3, <1>8
<1>10. Queries!Messages(out) = Queries!Messages(rows)
  BY <1>8, <1>9 DEF Queries!Messages
<1>11. ASSUME NEW k \in 1..n, NEW l \in 1..n, k < l
       PROVE  \/ Before(out[k], out[l], by, native)
              \/ /\ Value(out[k], by, native) = Value(out[l], by, native)
                 /\ \E i, j \in 1..n : i < j /\ out[k] = rows[i] /\ out[l] = rows[j]
  <2>1. /\ order[k] \in 1..n /\ order[l] \in 1..n
        /\ out[k] = rows[order[k]] /\ out[l] = rows[order[l]]
    BY <1>8, <1>9
  <2>2. E(order[k], order[l])
    BY <1>5, <1>8, <1>11, <2>1
  <2> HIDE DEF out
  <2> QED BY <2>1, <2>2
<1> QED BY <1>9, <1>10, <1>11 DEF Sorted

\* Every message has a value for every sort key, if only NoValue.
Sortable(M, sort, native) ==
    \A x \in M, p \in 1..Len(sort) : Value(x, sort[p], native) \in Nat \cup {Queries!NoValue}

\* out is rows in the order of all keys.
InTurn(out, n, M, rows, sort, native) ==
    /\ out \in [1..n -> M]
    /\ Queries!Messages(out) = Queries!Messages(rows)
    /\ \A k, l \in 1..n : k < l => ~Sooner(out[l], out[k], sort, 1, native)

\* Stable passes from the last key to the first sort by all of them.
LEMMA ApplySortIs ==
    ASSUME NEW n \in Nat, NEW M, NEW rows \in [1..n -> M],
           NEW sort, sort \in Seq(Queries!Messages(sort)),
           NEW native \in BOOLEAN, Sortable(M, sort, native)
    PROVE  InTurn(Queries!ApplySort(rows, sort, native), n, M, rows, sort, native)
<1> USE DEF Sortable
<1> DEFINE m == Len(sort)
           R == [1..n -> M]
           key(k) == sort[m - k + 1]
           B == [k \in 1..m |-> [x \in R |-> Queries!SortBy(x, key(k), native)]]
           sorted == CHOOSE g : g = [k \in 0..m |->
                        IF k = 0 THEN rows
                            ELSE Queries!SortBy(g[k - 1], sort[m - k + 1], native)]
<1>1. m \in Nat
  OBVIOUS
<1>2. \A k \in 1..m : m - k + 1 \in 1..m
  BY <1>1
<1>3. ASSUME NEW k \in 1..m, NEW x \in R PROVE Queries!SortBy(x, key(k), native) \in R
  <2>1. \A y \in M : Value(y, key(k), native) \in Nat \cup {Queries!NoValue}
    BY <1>2
  <2> HIDE DEF key
  <2>2. Sorted(Queries!SortBy(x, key(k), native), n, M, x, key(k), native)
    BY <1>3, <2>1, SortByIs, Zenon DEF R
  <2> QED BY <2>2 DEF Sorted
<1>4. \E g \in [0..m -> R] : \A k \in 0..m : g[k] = IF k = 0 THEN rows ELSE B[k][g[k - 1]]
  <2>1. rows \in R
    OBVIOUS
  <2>2. IsStepUp(m, R, B)
    BY <1>3 DEF IsStepUp
  <2> HIDE DEF B, R, m
  <2>3. DefinedUp(m, R, rows, B)
    BY <1>1, <2>1, <2>2, RecursionUp
  <2> QED BY <2>3 DEF DefinedUp
<1>5. PICK g \in [0..m -> R] : \A k \in 0..m : g[k] = IF k = 0 THEN rows ELSE B[k][g[k - 1]]
  BY <1>4
<1>6. \A k \in 1..m :
        /\ g[k - 1] \in R
        /\ B[k][g[k - 1]] = Queries!SortBy(g[k - 1], sort[m - k + 1], native)
  <2>1. SUFFICES ASSUME NEW k \in 1..m
                 PROVE  /\ g[k - 1] \in R
                        /\ B[k][g[k - 1]] = Queries!SortBy(g[k - 1], sort[m - k + 1], native)
    OBVIOUS
  <2>2. k - 1 \in 0..m
    BY <1>1
  <2>3. g[k - 1] \in R
    BY <2>2
  <2> HIDE DEF R
  <2> QED BY <2>3
<1>7. g = [k \in 0..m |->
        IF k = 0 THEN rows ELSE Queries!SortBy(g[k - 1], sort[m - k + 1], native)]
  <2>1. \A k \in 0..m : k # 0 => k \in 1..m
    BY <1>1
  <2> HIDE DEF B, R, m
  <2> QED BY <1>5, <1>6, <2>1
<1>8. sorted = [k \in 0..m |->
        IF k = 0 THEN rows ELSE Queries!SortBy(sorted[k - 1], sort[m - k + 1], native)]
  <2> HIDE DEF m, R, B
  <2> QED BY <1>7
<1>9. Queries!ApplySort(rows, sort, native) = sorted[m]
  BY DEF Queries!ApplySort
<1> HIDE DEF sorted
<1> DEFINE P(k) == /\ sorted[k] \in R
                   /\ Queries!Messages(sorted[k]) = Queries!Messages(rows)
                   /\ \A i, j \in 1..n : i < j =>
                         ~Sooner(sorted[k][j], sorted[k][i], sort, m - k + 1, native)
           I == {k \in Nat : k <= m => P(k)}
<1>10. 0 \in I
  <2>1. sorted[0] = rows
    BY <1>1, <1>8
  <2>2. \A x, y : ~Sooner(x, y, sort, m - 0 + 1, native)
    BY <1>1 DEF Sooner
  <2> QED BY <2>1, <2>2
<1>11. ASSUME NEW k \in Nat, k \in I PROVE k + 1 \in I
  <2>1. SUFFICES ASSUME k + 1 <= m PROVE P(k + 1)
    <3> HIDE DEF P
    <3> QED BY <1>1, <1>11
  <2>2. k + 1 \in 1..m /\ k <= m
    BY <1>1, <2>1
  <2> DEFINE old == sorted[k]
             new == sorted[k + 1]
             by  == key(k + 1)
  <2>3. P(k)
    BY <1>11, <2>2
  <2>4. new = Queries!SortBy(old, by, native)
    <3>1. k + 1 \in 0..m /\ k + 1 # 0 /\ (k + 1) - 1 = k
      BY <2>2
    <3> HIDE DEF m
    <3> QED BY <1>8, <3>1
  <2>5. \A y \in M : Value(y, by, native) \in Nat \cup {Queries!NoValue}
    BY <1>2, <2>2
  <2>6. old \in [1..n -> M]
    BY <2>3
  <2>7. by = sort[m - k]
    BY <1>1
  <2> HIDE DEF by, old
  <2>8. /\ new \in [1..n -> M]
        /\ Queries!Messages(new) = Queries!Messages(old)
        /\ \A i, j \in 1..n : i < j =>
              \/ Before(new[i], new[j], by, native)
              \/ /\ Value(new[i], by, native) = Value(new[j], by, native)
                 /\ \E a, b \in 1..n : a < b /\ new[i] = old[a] /\ new[j] = old[b]
    <3> HIDE DEF new
    <3>1. Sorted(Queries!SortBy(old, by, native), n, M, old, by, native)
      BY <2>5, <2>6, SortByIs, Zenon
    <3> QED BY <2>4, <3>1 DEF Sorted
  <2> HIDE DEF new
  <2>9. ASSUME NEW i \in 1..n, NEW j \in 1..n, i < j
        PROVE  ~Sooner(new[j], new[i], sort, m - (k + 1) + 1, native)
    <3>1. SUFFICES ASSUME Sooner(new[j], new[i], sort, m - k, native) PROVE FALSE
      BY <1>1
    <3>2. PICK p \in (m - k)..m :
             /\ \A q \in (m - k)..(p - 1) :
                    Value(new[j], sort[q], native) = Value(new[i], sort[q], native)
             /\ Before(new[j], new[i], sort[p], native)
      BY <3>1 DEF Sooner
    <3>3. new[i] \in M /\ new[j] \in M
      BY <2>8
    <3>4. /\ Value(new[i], by, native) \in Nat \cup {Queries!NoValue}
          /\ Value(new[j], by, native) \in Nat \cup {Queries!NoValue}
          /\ Queries!NoValue = -1
      BY <2>5, <3>3 DEF Queries!NoValue
    <3>5. m - k \in Int /\ p \in Int
      BY <1>1, <3>2
    <3>6. CASE p = m - k
      <4>1. Before(new[j], new[i], by, native)
        BY <2>7, <3>2, <3>6
      <4> QED BY <2>8, <2>9, <3>4, <4>1 DEF Before, Queries!Less
    <3>7. CASE p # m - k
      <4>1. Value(new[j], by, native) = Value(new[i], by, native)
        <5>1. m - k \in (m - k)..(p - 1)
          BY <3>2, <3>5, <3>7
        <5> QED BY <2>7, <3>2, <5>1
      <4>2. ~Before(new[i], new[j], by, native)
        BY <3>4, <4>1 DEF Before, Queries!Less
      <4>3. PICK a \in 1..n, b \in 1..n : a < b /\ new[i] = old[a] /\ new[j] = old[b]
        BY <2>8, <2>9, <4>2
      <4>4. Sooner(old[b], old[a], sort, m - k + 1, native)
        <5>1. p \in (m - k + 1)..m
          BY <3>2, <3>5, <3>7
        <5>2. \A q \in (m - k + 1)..(p - 1) : q \in (m - k)..(p - 1)
          BY <3>5
        <5> QED BY <3>2, <4>3, <5>1, <5>2 DEF Sooner
      <4> QED BY <2>3, <4>3, <4>4 DEF old
    <3> QED BY <3>6, <3>7
  <2>10. Queries!Messages(new) = Queries!Messages(rows)
    BY <2>3, <2>8 DEF old
  <2> QED BY <2>8, <2>9, <2>10 DEF new
<1>12. P(m)
  <2>1. Nat \subseteq I
    <3> HIDE DEF I
    <3> QED BY <1>10, <1>11, Induction
  <2>2. m \in I
    BY <1>1, <2>1
  <2> HIDE DEF P
  <2> QED BY <1>1, <2>2
<1>13. m - m + 1 = 1
  BY <1>1
<1> QED BY <1>9, <1>12, <1>13 DEF InTurn

\* The mail and the query are those of one case, whatever was answered.
InCase == \E case \in Cases : mail = case.mail /\ asked = case.asked

\* Email/query finds msg: it is in the mailbox that is searched, and SEARCH
\* matches it.
Hit(msg, filter) ==
    /\ Queries!FindInMailbox(filter) \in {Absent, msg.box}
    /\ msg \in Queries!All(Queries!TranslateFilter(filter))

\* What is found is exactly the hits.
LEMMA FoundIs ==
    ASSUME NEW filter, mail \in Seq(Queries!Messages(mail))
    PROVE  \E n \in Nat :
              /\ Queries!Found(filter) \in [1..n -> Queries!Messages(mail)]
              /\ Queries!Messages(Queries!Found(filter))
                     = {msg \in Queries!Messages(mail) : Hit(msg, filter)}
<1> DEFINE hits == {i \in DOMAIN mail : Hit(mail[i], filter)}
           before == {e \in hits \X hits : e[1] < e[2]}
           rows == Queries!Ranked(hits, before)
           n == Cardinality(hits)
<1>1. DOMAIN mail = 1..Len(mail) /\ Len(mail) \in Nat
  OBVIOUS
<1>2. IsFiniteSet(hits)
  <2>1. 1 \in Int /\ Len(mail) \in Int
    BY <1>1
  <2>2. IsFiniteSet(1..Len(mail))
    BY <2>1, FS_Interval
  <2>3. hits \subseteq 1..Len(mail)
    BY <1>1
  <2> HIDE DEF hits
  <2> QED BY <2>2, <2>3, FS_Subset
<1>3. IsOrder(hits, before)
  <2>1. hits \subseteq Int
    BY <1>1
  <2> HIDE DEF hits
  <2> QED BY <2>1 DEF IsOrder
<1>4. /\ rows \in [1..n -> hits]
      /\ \A j \in hits : \E k \in 1..n : rows[k] = j
  <2> HIDE DEF hits, before
  <2>1. IsRanking(Queries!Ranked(hits, before), hits, before)
    BY <1>2, <1>3, RankedIs, Zenon
  <2> QED BY <2>1 DEF IsRanking
<1>5. Queries!Found(filter) = [k \in DOMAIN rows |-> mail[rows[k]]]
  BY DEF Queries!Found, Hit
<1>6. n \in Nat
  <2> HIDE DEF hits
  <2> QED BY <1>2, FS_CardinalityType
<1> HIDE DEF rows, n
<1>7. Queries!Found(filter) \in [1..n -> Queries!Messages(mail)]
  BY <1>4, <1>5 DEF Queries!Messages
<1>8. Queries!Messages(Queries!Found(filter))
        = {msg \in Queries!Messages(mail) : Hit(msg, filter)}
  <2>1. \A k \in 1..n : Queries!Found(filter)[k] = mail[rows[k]] /\ rows[k] \in hits
    BY <1>4, <1>5
  <2>2. DOMAIN Queries!Found(filter) = 1..n
    BY <1>7
  <2>3. ASSUME NEW msg \in Queries!Messages(Queries!Found(filter))
        PROVE  msg \in Queries!Messages(mail) /\ Hit(msg, filter)
    BY <2>1, <2>2 DEF Queries!Messages
  <2>4. ASSUME NEW msg \in Queries!Messages(mail), Hit(msg, filter)
        PROVE  msg \in Queries!Messages(Queries!Found(filter))
    <3>1. PICK i \in DOMAIN mail : mail[i] = msg
      BY DEF Queries!Messages
    <3>2. i \in hits
      BY <2>4, <3>1
    <3>3. PICK k \in 1..n : rows[k] = i
      BY <1>4, <3>2
    <3> QED BY <2>1, <2>2, <3>1, <3>3 DEF Queries!Messages
  <2> QED BY <2>3, <2>4
<1> QED BY <1>6, <1>7, <1>8

\* No message of a sorted answer comes before an earlier one by Precedes.
LEMMA SortedAnswer ==
    ASSUME Queries!QueryAssumption, InCase, NEW native \in BOOLEAN, NEW rows,
           rows = Queries!ApplySort(Queries!Found(asked.filter), asked.sort, native),
           native \/ \A k \in DOMAIN asked.sort : asked.sort[k].key \in FetchedKey
    PROVE  \A i, j \in DOMAIN rows : i < j => ~Queries!Precedes(rows[j], rows[i], asked.sort)
<1> DEFINE M == Queries!Messages(mail)
           T == Queries!Messages(asked.sort)
           sort == asked.sort
<1>1. /\ mail \in Seq(M)
      /\ sort \in Seq(T)
      /\ \A x \in M, by \in T : x.value[by.key] \in Nat \cup {Queries!NoValue}
  BY DEF InCase, Queries!QueryAssumption
<1>2. PICK n \in Nat : Queries!Found(asked.filter) \in [1..n -> M]
  BY <1>1, FoundIs
<1>3. \A x \in M, k \in 1..Len(sort) : Value(x, sort[k], native) = x.value[sort[k].key]
  <2>1. DOMAIN sort = 1..Len(sort)
    BY <1>1
  <2> HIDE DEF sort
  <2> QED BY <2>1 DEF Value, Queries!SortValue, sort
<1>4. \A k \in 1..Len(sort) : sort[k] \in T
  BY <1>1
<1>5. Sortable(M, sort, native)
  BY <1>1, <1>3, <1>4 DEF Sortable
<1>6. InTurn(rows, n, M, Queries!Found(asked.filter), sort, native)
  <2> HIDE DEF M, T, sort
  <2>1. sort = asked.sort
    BY DEF sort
  <2> DEFINE found == Queries!Found(asked.filter)
  <2>2. found \in [1..n -> M] /\ sort \in Seq(Queries!Messages(sort))
    BY <1>1, <1>2 DEF T, sort
  <2> HIDE DEF found
  <2>3. InTurn(Queries!ApplySort(found, sort, native), n, M, found, sort, native)
    BY <1>5, <2>2, ApplySortIs, Zenon
  <2> QED BY <2>1, <2>3 DEF found
<1>7. ASSUME NEW x \in M, NEW y \in M, Queries!Precedes(x, y, sort)
      PROVE  Sooner(x, y, sort, 1, native)
  <2>1. DOMAIN sort = 1..Len(sort) /\ Len(sort) \in Nat
    BY <1>1
  <2> HIDE DEF sort, M, T
  <2>2. PICK k \in 1..Len(sort) :
          LET v == x.value[sort[k].key] w == y.value[sort[k].key]
          IN  /\ \A j \in 1..(k - 1) : x.value[sort[j].key] = y.value[sort[j].key]
              /\ Queries!NoValue \notin {v, w}
              /\ IF sort[k].ascending THEN v < w ELSE w < v
    BY <1>7, <2>1 DEF Queries!Precedes
  <2>3. \A j \in 1..(k - 1) : Value(x, sort[j], native) = Value(y, sort[j], native)
    <3>1. \A j \in 1..(k - 1) : j \in 1..Len(sort)
      BY <2>1
    <3> QED BY <1>3, <2>2, <3>1
  <2>4. Before(x, y, sort[k], native)
    BY <1>3, <2>2 DEF Before, Queries!Less
  <2> QED BY <2>1, <2>3, <2>4 DEF Sooner
<1> QED BY <1>6, <1>7 DEF InTurn

-----------------------------------------------------------------------------
\* The inductive invariant of Ordered.
OrderedInv == InCase /\ Queries!Ordered

\* A step of Email/query keeps its answers in order.
LEMMA OrderedNext ==
    ASSUME Queries!QueryAssumption, OrderedInv, [Queries!Next]_queryVars
    PROVE  OrderedInv'
<1>1. CASE UNCHANGED queryVars
  <2>1. mail' = mail /\ asked' = asked /\ answer' = answer
    BY <1>1 DEF queryVars
  <2> QED BY <2>1 DEF OrderedInv, InCase, Queries!Ordered, Queries!InOrder, Queries!Answered
<1>2. CASE Queries!Query
  <2>1. UNCHANGED <<mail, asked>>
    BY <1>2 DEF Queries!Query
  <2>2. InCase'
    BY <2>1 DEF OrderedInv, InCase
  <2>3. Queries!Ordered'
    <3>1. SUFFICES ASSUME \A k \in DOMAIN asked.sort : asked.sort[k].key \in FetchedKey,
                          answer'.ok
                   PROVE  \A i, j \in DOMAIN answer'.all :
                             i < j =>
                                 ~Queries!Precedes(answer'.all[j], answer'.all[i], asked.sort)
      BY <2>1 DEF Queries!Ordered, Queries!InOrder, Queries!Answered, Queries!Precedes
    <3>2. ~Queries!Rejected
      BY <1>2, <3>1 DEF Queries!Query
    <3>3. PICK native \in BOOLEAN :
             answer'.all = Queries!ApplySort(Queries!Found(asked.filter), asked.sort, native)
      BY <1>2, <3>2 DEF Queries!Query
    <3> QED BY <3>1, <3>3, SortedAnswer DEF OrderedInv
  <2> QED BY <2>2, <2>3 DEF OrderedInv
<1> QED BY <1>1, <1>2 DEF Queries!Next

\* The places of the conditions an operator has.
Children(f, i) == IF Queries!IsOperator(f[i]) THEN Queries!Messages(f[i].args) ELSE {}

\* S has the conditions of every operator in it.
IsClosed(f, S) == S \subseteq DOMAIN f /\ \A i \in S : Children(f, i) \subseteq S

\* The places of the filter that has its root at i.
Below(f, i) ==
    {j \in DOMAIN f : \A S \in SUBSET DOMAIN f : IsClosed(f, S) /\ i \in S => j \in S}

\* They are to the right of the operator, and no other's.
LEMMA ChildrenAre ==
    ASSUME NEW f, Queries!IsFilter(f), NEW i \in DOMAIN f
    PROVE  /\ DOMAIN f = 1..Len(f) /\ Len(f) \in Nat \ {0}
           /\ Children(f, i) \subseteq (i + 1)..Len(f)
           /\ \A j \in DOMAIN f, c \in DOMAIN f :
                 c \in Children(f, i) /\ c \in Children(f, j) => i = j
<1>1. f \in Seq(Queries!Messages(f)) /\ f # << >>
  BY DEF Queries!IsFilter
<1>2. DOMAIN f = 1..Len(f) /\ Len(f) \in Nat \ {0}
  BY <1>1
<1>3. ASSUME NEW j \in DOMAIN f, Queries!IsOperator(f[j])
      PROVE  f[j].args \in Seq((j + 1)..Len(f))
  BY <1>3 DEF Queries!IsFilter
<1>4. Children(f, i) \subseteq (i + 1)..Len(f)
  <2>1. SUFFICES ASSUME Queries!IsOperator(f[i])
                 PROVE  Queries!Messages(f[i].args) \subseteq (i + 1)..Len(f)
    BY DEF Children
  <2>2. f[i].args \in Seq((i + 1)..Len(f))
    BY <1>3, <2>1
  <2> QED BY <2>2 DEF Queries!Messages
<1>5. ASSUME NEW j \in DOMAIN f, NEW c, c \in Children(f, i), c \in Children(f, j)
      PROVE  i = j
  <2>1. Queries!IsOperator(f[i]) /\ Queries!IsOperator(f[j])
    BY <1>5 DEF Children
  <2>2. PICK k \in DOMAIN f[i].args, l \in DOMAIN f[j].args :
               f[i].args[k] = c /\ f[j].args[l] = c
    BY <1>5, <2>1 DEF Children, Queries!Messages
  <2> QED BY <2>1, <2>2 DEF Queries!IsFilter
<1> QED BY <1>2, <1>4, <1>5

\* What is below i is i and what is below its conditions.
LEMMA BelowIs ==
    ASSUME NEW f, Queries!IsFilter(f), NEW i \in DOMAIN f
    PROVE  /\ i \in Below(f, i)
           /\ IsClosed(f, Below(f, i))
           /\ \A j \in Below(f, i) : j >= i
           /\ \A j \in Below(f, i) \ {i} : \E m \in Below(f, i) : j \in Children(f, m)
           /\ \A c \in Children(f, i) : Below(f, c) \subseteq Below(f, i)
<1> DEFINE T == Below(f, i)
           Closed == {S \in SUBSET DOMAIN f : IsClosed(f, S) /\ i \in S}
<1>1. \A j : j \in T <=> j \in DOMAIN f /\ \A S \in Closed : j \in S
  BY DEF Below
<1>2. i \in T
  BY <1>1
<1>3. \A j \in DOMAIN f : Children(f, j) \subseteq DOMAIN f
  <2>1. SUFFICES ASSUME NEW j \in DOMAIN f PROVE Children(f, j) \subseteq DOMAIN f
    OBVIOUS
  <2>2. DOMAIN f = 1..Len(f) /\ Len(f) \in Nat /\ Children(f, j) \subseteq (j + 1)..Len(f)
    BY ChildrenAre
  <2> QED BY <2>2
<1>4. IsClosed(f, T)
  <2>1. T \subseteq DOMAIN f
    BY <1>1
  <2>2. ASSUME NEW j \in T, NEW c \in Children(f, j) PROVE c \in T
    <3>1. c \in DOMAIN f
      BY <1>3, <2>1
    <3>2. ASSUME NEW S \in Closed PROVE c \in S
      <4>1. j \in S
        BY <1>1
      <4> QED BY <4>1 DEF IsClosed
    <3> QED BY <1>1, <3>1, <3>2
  <2> HIDE DEF T
  <2> QED BY <2>1, <2>2 DEF IsClosed
<1>5. \A j \in T : j >= i
  <2> DEFINE S == {j \in DOMAIN f : j >= i}
  <2>1. ASSUME NEW j \in S, NEW c \in Children(f, j) PROVE c \in S
    <3>1. DOMAIN f = 1..Len(f) /\ Len(f) \in Nat /\ Children(f, j) \subseteq (j + 1)..Len(f)
      BY ChildrenAre
    <3>2. c \in (j + 1)..Len(f) /\ j \in 1..Len(f) /\ j >= i /\ i \in 1..Len(f)
      BY <3>1
    <3> QED BY <3>1, <3>2
  <2>2. IsClosed(f, S)
    <3>1. S \subseteq DOMAIN f
      OBVIOUS
    <3> HIDE DEF S
    <3> QED BY <2>1, <3>1 DEF IsClosed
  <2>3. i \in S
    <3>1. DOMAIN f = 1..Len(f)
      BY ChildrenAre
    <3> QED BY <3>1
  <2>4. S \in Closed
    BY <2>2, <2>3
  <2>5. T \subseteq S
    <3> HIDE DEF S, Closed, T
    <3> QED BY <1>1, <2>4
  <2> QED BY <2>5
<1>6. ASSUME NEW j \in T \ {i}, \A m \in T : j \notin Children(f, m) PROVE FALSE
  <2> DEFINE S == T \ {j}
  <2>1. S \subseteq DOMAIN f
    BY <1>1
  <2>2. \A m \in S : Children(f, m) \subseteq S
    BY <1>4, <1>6 DEF IsClosed
  <2>3. IsClosed(f, S)
    <3> HIDE DEF S
    <3> QED BY <2>1, <2>2 DEF IsClosed
  <2>4. i \in S
    BY <1>2, <1>6
  <2>5. S \in Closed
    BY <2>1, <2>3, <2>4
  <2>6. j \in S
    <3> HIDE DEF S, Closed, T
    <3> QED BY <1>1, <1>6, <2>5
  <2> QED BY <2>6
<1>7. ASSUME NEW c \in Children(f, i) PROVE Below(f, c) \subseteq T
  <2>1. c \in T /\ T \in SUBSET DOMAIN f
    BY <1>2, <1>4 DEF IsClosed
  <2> HIDE DEF T
  <2> QED BY <1>4, <2>1 DEF Below
<1> QED BY <1>2, <1>4, <1>5, <1>6, <1>7

\* Two conditions of an operator have nothing below them in common.
LEMMA SiblingsApart ==
    ASSUME NEW f, Queries!IsFilter(f), NEW i \in DOMAIN f,
           NEW c \in Children(f, i), NEW d \in Children(f, i), c # d
    PROVE  Below(f, c) \cap Below(f, d) = {}
<1> DEFINE T == Below(f, c) \cap Below(f, d)
<1>1. /\ DOMAIN f = 1..Len(f) /\ Len(f) \in Nat
      /\ c \in (i + 1)..Len(f) /\ d \in (i + 1)..Len(f)
  BY ChildrenAre
<1>2. c \in DOMAIN f /\ d \in DOMAIN f /\ i < c /\ i < d
  BY <1>1
<1>3. SUFFICES ASSUME T # {} PROVE FALSE
  OBVIOUS
<1>4. T \in SUBSET Nat
  BY <1>1, <1>2, BelowIs DEF IsClosed
<1>5. PICK j \in T : \A k \in T : j <= k
  <2> HIDE DEF T
  <2> QED BY <1>3, <1>4, Least
<1>6. ASSUME NEW e \in {c, d}, NEW g \in {c, d}, e # g, j = e PROVE FALSE
  <2>1. j \in Below(f, g) \ {g}
    BY <1>5, <1>6
  <2>2. g \in DOMAIN f /\ e \in DOMAIN f
    BY <1>2
  <2>3. PICK m \in Below(f, g) : j \in Children(f, m)
    BY <2>1, <2>2, BelowIs
  <2>4. m \in DOMAIN f /\ m >= g
    BY <2>2, BelowIs DEF IsClosed
  <2>5. e \in Children(f, i)
    OBVIOUS
  <2>6. m = i
    BY <1>6, <2>2, <2>3, <2>4, <2>5, ChildrenAre
  <2> QED BY <1>1, <1>2, <2>4, <2>6
<1>7. j # c /\ j # d
  <2>1. j # c
    BY <1>6
  <2>2. j # d
    BY <1>6
  <2> QED BY <2>1, <2>2
<1>8. PICK m \in Below(f, c) : j \in Children(f, m)
  BY <1>2, <1>5, <1>7, BelowIs
<1>9. PICK k \in Below(f, d) : j \in Children(f, k)
  BY <1>2, <1>5, <1>7, BelowIs
<1>10. m \in DOMAIN f /\ k \in DOMAIN f /\ j \in DOMAIN f
  BY <1>2, <1>5, BelowIs DEF IsClosed
<1>11. m = k
  BY <1>8, <1>9, <1>10, ChildrenAre
<1>12. m < j
  <2>1. j \in (m + 1)..Len(f)
    BY <1>8, <1>10, ChildrenAre
  <2> QED BY <1>1, <1>10, <2>1
<1>13. m \in T
  BY <1>11
<1> QED BY <1>1, <1>5, <1>10, <1>12, <1>13

\* What one node has, from what the later nodes have.
Scopes(f, i, g) == {k \in DOMAIN f[i].args : g[f[i].args[k]] # Absent}

Earliest(S) == CHOOSE k \in S : \A l \in S : k <= l

FindStep(f, i, g) ==
    IF ~Queries!IsOperator(f[i]) THEN f[i].box
    ELSE IF f[i].op # "AND" \/ Scopes(f, i, g) = {} THEN Absent
    ELSE g[f[i].args[Earliest(Scopes(f, i, g))]]

GroupStep(f, i, g) ==
    IF ~Queries!IsOperator(f[i]) THEN Queries!TranslateCondition(f[i])
    ELSE Queries!TranslateOperator(f[i].op, [k \in DOMAIN f[i].args |-> g[f[i].args[k]]])

MatchStep(msg, f, i, g) ==
    IF ~Queries!IsOperator(f[i])
      THEN /\ f[i].box \in {Absent, msg.box}
           /\ f[i].wants \subseteq msg.has
           /\ f[i].refuses \cap msg.has = {}
    ELSE CASE f[i].op = "AND" -> \A k \in DOMAIN f[i].args : g[f[i].args[k]]
           [] f[i].op = "OR"  -> \E k \in DOMAIN f[i].args : g[f[i].args[k]]
           [] f[i].op = "NOT" -> \A k \in DOMAIN f[i].args : ~g[f[i].args[k]]

\* An operator's conditions, one by one.
LEMMA ArgsAre ==
    ASSUME NEW f, Queries!IsFilter(f), NEW i \in DOMAIN f, Queries!IsOperator(f[i])
    PROVE  /\ DOMAIN f = 1..Len(f) /\ Len(f) \in Nat \ {0}
           /\ f[i].op \in {"AND", "OR", "NOT"}
           /\ Len(f[i].args) \in Nat
           /\ f[i].args \in [1..Len(f[i].args) -> (i + 1)..Len(f)]
           /\ \A k \in DOMAIN f[i].args :
                 /\ f[i].args[k] \in (i + 1)..Len(f)
                 /\ f[i].args[k] \in DOMAIN f
                 /\ f[i].args[k] \in Children(f, i)
           /\ \A k, l \in DOMAIN f[i].args : f[i].args[k] = f[i].args[l] => k = l
<1>1. f \in Seq(Queries!Messages(f)) /\ f # << >>
  BY DEF Queries!IsFilter
<1>2. DOMAIN f = 1..Len(f) /\ Len(f) \in Nat \ {0}
  BY <1>1
<1>3. f[i].op \in {"AND", "OR", "NOT"} /\ f[i].args \in Seq((i + 1)..Len(f))
  BY DEF Queries!IsFilter
<1>4. Len(f[i].args) \in Nat /\ f[i].args \in [1..Len(f[i].args) -> (i + 1)..Len(f)]
  BY <1>3
<1>5. ASSUME NEW k \in DOMAIN f[i].args
      PROVE  /\ f[i].args[k] \in (i + 1)..Len(f)
             /\ f[i].args[k] \in DOMAIN f
             /\ f[i].args[k] \in Children(f, i)
  <2>2. f[i].args[k] \in (i + 1)..Len(f)
    BY <1>4
  <2>3. f[i].args[k] \in 1..Len(f)
    BY <1>2, <2>2
  <2> QED BY <1>2, <2>2, <2>3 DEF Children, Queries!Messages
<1>6. \A k, l \in DOMAIN f[i].args : f[i].args[k] = f[i].args[l] => k = l
  BY DEF Queries!IsFilter
<1> QED BY <1>2, <1>3, <1>4, <1>5, <1>6

\* The earliest of some numbers is one of them.
LEMMA EarliestIs ==
    ASSUME NEW S \in SUBSET Nat, S # {}
    PROVE  Earliest(S) \in S /\ \A l \in S : Earliest(S) <= l
BY Least DEF Earliest

\* The three walks over a filter (email.py:355, 498, and what RFC 8621 says it
\* matches) are functions of its places that FindStep, GroupStep and MatchStep
\* describe.
LEMMA FindIs ==
    ASSUME NEW f, Queries!IsFilter(f)
    PROVE  \E found : /\ \A i \in DOMAIN f : found[i] = FindStep(f, i, found)
                      /\ Queries!FindInMailbox(f) = found[1]
<1> DEFINE n == Len(f)
           R == {f[i].box : i \in DOMAIN f} \cup {Absent}
           B == [i \in 1..n |-> [g \in [1..n -> R] |-> FindStep(f, i, g)]]
           found == CHOOSE g : g = [i \in DOMAIN f |-> FindStep(f, i, g)]
<1>1. f \in Seq(Queries!Messages(f)) /\ f # << >>
  BY DEF Queries!IsFilter
<1>2. DOMAIN f = 1..n /\ n \in Nat
  BY <1>1
<1>3. ASSUME NEW i \in 1..n, NEW g \in [1..n -> R] PROVE FindStep(f, i, g) \in R
  <2>1. CASE ~Queries!IsOperator(f[i])
    BY <1>2, <2>1 DEF FindStep
  <2>2. CASE Queries!IsOperator(f[i])
    <3> DEFINE S == Scopes(f, i, g)
    <3>1. CASE f[i].op # "AND" \/ S = {}
      BY <2>2, <3>1 DEF FindStep
    <3>2. CASE f[i].op = "AND" /\ S # {}
      <4>1. DOMAIN f[i].args \subseteq Nat /\ \A k \in DOMAIN f[i].args : f[i].args[k] \in 1..n
        BY <1>2, <2>2, ArgsAre
      <4>2. S \in SUBSET Nat /\ S \subseteq DOMAIN f[i].args
        BY <4>1 DEF Scopes
      <4>3. Earliest(S) \in S
        <5> HIDE DEF S
        <5> QED BY <3>2, <4>2, EarliestIs
      <4>4. f[i].args[Earliest(S)] \in 1..n
        BY <4>1, <4>2, <4>3
      <4>5. FindStep(f, i, g) = g[f[i].args[Earliest(S)]]
        BY <2>2, <3>2 DEF FindStep
      <4> HIDE DEF S, R
      <4> QED BY <4>4, <4>5
    <3> QED BY <3>1, <3>2
  <2> QED BY <2>1, <2>2
<1>4. ASSUME NEW i \in 1..n, NEW g \in [1..n -> R], NEW h \in [1..n -> R],
             \A j \in (i + 1)..n : g[j] = h[j]
      PROVE  FindStep(f, i, g) = FindStep(f, i, h)
  <2>1. CASE ~Queries!IsOperator(f[i])
    BY <2>1 DEF FindStep
  <2>2. CASE Queries!IsOperator(f[i])
    <3>1. ASSUME NEW k \in DOMAIN f[i].args PROVE g[f[i].args[k]] = h[f[i].args[k]]
      <4>1. f[i].args[k] \in (i + 1)..n
        BY <1>2, <2>2, ArgsAre
      <4> QED BY <1>4, <4>1
    <3>2. Scopes(f, i, g) = Scopes(f, i, h)
      BY <3>1 DEF Scopes
    <3>3. CASE f[i].op # "AND" \/ Scopes(f, i, g) = {}
      BY <2>2, <3>2, <3>3 DEF FindStep
    <3>4. CASE f[i].op = "AND" /\ Scopes(f, i, g) # {}
      <4>1. DOMAIN f[i].args \subseteq Nat
        BY <1>2, <2>2, ArgsAre
      <4>2. Scopes(f, i, g) \in SUBSET Nat /\ Scopes(f, i, g) \subseteq DOMAIN f[i].args
        BY <4>1 DEF Scopes
      <4>3. Earliest(Scopes(f, i, g)) \in Scopes(f, i, g)
        BY <3>4, <4>2, EarliestIs
      <4> QED BY <2>2, <3>1, <3>2, <3>4, <4>2, <4>3 DEF FindStep
    <3> QED BY <3>3, <3>4
  <2> QED BY <2>1, <2>2
<1>5. IsStepDown(n, R, B)
  <2>1. \A i \in 1..n, g \in [1..n -> R] : B[i][g] = FindStep(f, i, g)
    OBVIOUS
  <2> HIDE DEF B, R
  <2> QED BY <1>3, <1>4, <2>1 DEF IsStepDown
<1>6. DefinedDown(n, R, B)
  <2>1. R # {}
    OBVIOUS
  <2> HIDE DEF B, R, n
  <2> QED BY <1>2, <1>5, <2>1, RecursionDown
<1>7. PICK g \in [1..n -> R] : \A i \in 1..n : g[i] = B[i][g]
  BY <1>6 DEF DefinedDown
<1>8. g = [i \in DOMAIN f |-> FindStep(f, i, g)]
  <2>1. \A i \in 1..n : g[i] = FindStep(f, i, g)
    BY <1>7
  <2> HIDE DEF R, B
  <2> QED BY <1>2, <2>1
<1>9. found = [i \in DOMAIN f |-> FindStep(f, i, found)]
  BY <1>8
<1>10. Queries!FindInMailbox(f) = found[1]
  BY DEF Queries!FindInMailbox, FindStep, Scopes, Earliest
<1> HIDE DEF found
<1>11. \A i \in DOMAIN f : found[i] = FindStep(f, i, found)
  BY <1>9
<1> QED BY <1>10, <1>11

\* The OR of the groups (email.py:468), one after the other.
LEMMA EitherIs ==
    ASSUME NEW n \in Nat, NEW groups \in [1..n -> SUBSET SUBSET Queries!Messages(mail)]
    PROVE  \E acc \in [1..(n + 1) -> SUBSET SUBSET Queries!Messages(mail)] :
              /\ \A k \in 1..(n + 1) :
                    acc[k] = IF k > n THEN {}
                             ELSE IF groups[k] = {} THEN acc[k + 1]
                             ELSE IF acc[k + 1] = {} THEN groups[k]
                             ELSE {Queries!Or(groups[k], acc[k + 1])}
              /\ Queries!Either(groups) = acc[1]
<1> DEFINE M == Queries!Messages(mail)
           R == SUBSET SUBSET M
           Step(k, g) == IF k > n THEN {}
                         ELSE IF groups[k] = {} THEN g[k + 1]
                         ELSE IF g[k + 1] = {} THEN groups[k]
                         ELSE {Queries!Or(groups[k], g[k + 1])}
           B == [k \in 1..(n + 1) |-> [g \in [1..(n + 1) -> R] |-> Step(k, g)]]
           acc == CHOOSE g : g = [k \in 1..(n + 1) |-> Step(k, g)]
<1>1. ASSUME NEW k \in 1..(n + 1), NEW x, k <= n => x \in R
      PROVE  (IF k > n THEN {} ELSE IF groups[k] = {} THEN x
              ELSE IF x = {} THEN groups[k] ELSE {Queries!Or(groups[k], x)}) \in R
  <2>1. {} \in R
    OBVIOUS
  <2>2. k <= n => groups[k] \in R
    BY <1>1
  <2>3. \A y : Queries!Or(y, x) \in SUBSET M
    BY DEF Queries!Or, Queries!All
  <2>4. \A y : {Queries!Or(y, x)} \in R
    BY <2>3
  <2> HIDE DEF R
  <2> QED BY <1>1, <2>1, <2>2, <2>4
<1>2. ASSUME NEW k \in 1..(n + 1), NEW g \in [1..(n + 1) -> R] PROVE Step(k, g) \in R
  <2>1. k <= n => g[k + 1] \in R
    <3>1. k <= n => k + 1 \in 1..(n + 1)
      <4> HIDE DEF R
      <4> QED OBVIOUS
    <3> HIDE DEF R
    <3> QED BY <3>1
  <2> HIDE DEF R
  <2> QED BY <1>1, <2>1
<1>3. ASSUME NEW k \in 1..(n + 1), NEW g, NEW h, \A j \in (k + 1)..(n + 1) : g[j] = h[j]
      PROVE  Step(k, g) = Step(k, h)
  <2>1. CASE k > n
    BY <2>1
  <2>2. CASE ~(k > n)
    <3>1. k + 1 \in (k + 1)..(n + 1)
      BY <2>2
    <3>2. g[k + 1] = h[k + 1]
      BY <1>3, <3>1
    <3> QED BY <3>2
  <2> QED BY <2>1, <2>2
<1>4. IsStepDown(n + 1, R, B)
  <2>1. \A k \in 1..(n + 1), g \in [1..(n + 1) -> R] : B[k][g] = Step(k, g)
    OBVIOUS
  <2> HIDE DEF B, R, Step
  <2> QED BY <1>2, <1>3, <2>1 DEF IsStepDown
<1>5. DefinedDown(n + 1, R, B)
  <2>1. {} \in R
    OBVIOUS
  <2> HIDE DEF B, R
  <2>2. R # {} /\ n + 1 \in Nat
    BY <2>1
  <2> QED BY <1>4, <2>2, RecursionDown
<1>6. PICK g \in [1..(n + 1) -> R] : \A k \in 1..(n + 1) : g[k] = B[k][g]
  BY <1>5 DEF DefinedDown
<1>7. g = [k \in 1..(n + 1) |-> Step(k, g)]
  <2>1. \A k \in 1..(n + 1) : g[k] = Step(k, g)
    BY <1>6
  <2> HIDE DEF R, B, Step
  <2> QED BY <2>1
<1>8. acc = [k \in 1..(n + 1) |-> Step(k, acc)]
  <2> HIDE DEF Step
  <2> QED BY <1>7
<1>9. Queries!Either(groups) = acc[1]
  <2>1. Len(groups) = n
    OBVIOUS
  <2>2. Queries!Either(groups) = (CHOOSE h : h = [k \in 1..(Len(groups) + 1) |->
                              IF k > Len(groups) THEN {}
                              ELSE IF groups[k] = {} THEN h[k + 1]
                              ELSE IF h[k + 1] = {} THEN groups[k]
                              ELSE {Queries!Or(groups[k], h[k + 1])}])[1]
    BY DEF Queries!Either
  <2> QED BY <2>1, <2>2
<1> HIDE DEF acc
<1>10. \A k \in 1..(n + 1) : acc[k] = Step(k, acc)
  <2> HIDE DEF Step
  <2> QED BY <1>8
<1>11. \A k \in 1..(n + 1) : acc[k] \in R
  <2> DEFINE S == {k \in 1..(n + 1) : acc[k] \in R}
  <2>1. ASSUME NEW k \in 1..(n + 1), \A j \in (k + 1)..(n + 1) : j \in S PROVE k \in S
    <3>1. k <= n => acc[k + 1] \in R
      <4>1. k <= n => k + 1 \in (k + 1)..(n + 1)
        OBVIOUS
      <4> HIDE DEF R
      <4> QED BY <2>1, <4>1
    <3>2. Step(k, acc) \in R
      <4> HIDE DEF R
      <4> QED BY <1>1, <3>1
    <3> HIDE DEF R, Step
    <3> QED BY <1>10, <3>2
  <2> HIDE DEF S
  <2>2. 1..(n + 1) \subseteq S
    <3>1. n + 1 \in Nat
      OBVIOUS
    <3> QED BY <2>1, <3>1, InductionDown
  <2> QED BY <2>2 DEF S
<1>12. acc \in [1..(n + 1) -> R]
  <2> HIDE DEF R, Step
  <2> QED BY <1>8, <1>11
<1> QED BY <1>9, <1>10, <1>12

\* It finds what one of the groups finds.
LEMMA EitherFinds ==
    ASSUME NEW n \in Nat \ {0}, NEW groups \in [1..n -> SUBSET SUBSET Queries!Messages(mail)],
           \A k \in 1..n : groups[k] # {}
    PROVE  /\ Queries!Either(groups) \in SUBSET SUBSET Queries!Messages(mail)
           /\ Queries!Either(groups) # {}
           /\ Queries!All(Queries!Either(groups))
                = {msg \in Queries!Messages(mail) : \E k \in 1..n : msg \in Queries!All(groups[k])}
<1>1. PICK acc \in [1..(n + 1) -> SUBSET SUBSET Queries!Messages(mail)] :
        /\ \A k \in 1..(n + 1) :
              acc[k] = IF k > n THEN {}
                       ELSE IF groups[k] = {} THEN acc[k + 1]
                       ELSE IF acc[k + 1] = {} THEN groups[k]
                       ELSE {Queries!Or(groups[k], acc[k + 1])}
        /\ Queries!Either(groups) = acc[1]
  BY EitherIs
<1> DEFINE Finds(k) == /\ acc[k] # {}
                       /\ \A msg \in Queries!Messages(mail) :
                            msg \in Queries!All(acc[k])
                                <=> \E l \in k..n : msg \in Queries!All(groups[l])
           S == {k \in 1..n : Finds(k)}
<1>2. ASSUME NEW k \in 1..n, \A j \in (k + 1)..n : j \in S PROVE k \in S
  <2>1. CASE k = n
    <3>1. n + 1 \in 1..(n + 1) /\ k \in 1..(n + 1) /\ ~(k > n) /\ n + 1 > n
      BY <2>1
    <3>2. acc[n + 1] = {}
      BY <1>1, <3>1
    <3>3. acc[k] = groups[k]
      BY <1>1, <2>1, <3>1, <3>2
    <3>4. \A l : l \in k..n <=> l = k
      BY <2>1
    <3>5. acc[k] # {}
      BY <3>3
    <3>6. \A msg \in Queries!Messages(mail) :
            msg \in Queries!All(acc[k]) <=> \E l \in k..n : msg \in Queries!All(groups[l])
      <4>1. SUFFICES ASSUME NEW msg \in Queries!Messages(mail)
                     PROVE  msg \in Queries!All(acc[k])
                                <=> \E l \in k..n : msg \in Queries!All(groups[l])
        OBVIOUS
      <4>2. k \in k..n
        BY <2>1
      <4>3. (\E l \in k..n : msg \in Queries!All(groups[l])) <=> msg \in Queries!All(groups[k])
        BY <3>4, <4>2, Zenon
      <4>4. msg \in Queries!All(acc[k]) <=> msg \in Queries!All(groups[k])
        BY <3>3
      <4> QED BY <4>3, <4>4, Zenon
    <3> QED BY <3>5, <3>6
  <2>2. CASE k # n
    <3>1. k + 1 \in (k + 1)..n /\ k \in 1..(n + 1) /\ ~(k > n)
      BY <2>2
    <3>2. Finds(k + 1)
      BY <1>2, <3>1
    <3>3. acc[k] = {Queries!Or(groups[k], acc[k + 1])}
      BY <1>1, <3>1, <3>2
    <3>4. \A msg \in Queries!Messages(mail) :
            msg \in Queries!All(acc[k])
                <=> msg \in Queries!All(groups[k]) \/ msg \in Queries!All(acc[k + 1])
      <4>1. \A msg \in Queries!Messages(mail) :
              msg \in Queries!All(acc[k]) <=> msg \in Queries!Or(groups[k], acc[k + 1])
        BY <3>3 DEF Queries!All
      <4> QED BY <4>1 DEF Queries!Or
    <3>5. \A l : l \in k..n <=> l = k \/ l \in (k + 1)..n
      OBVIOUS
    <3>6. Finds(k)
      BY <3>2, <3>3, <3>4, <3>5
    <3> QED BY <3>6
  <2> QED BY <2>1, <2>2
<1>3. 1..n \subseteq S
  <2> HIDE DEF S
  <2> QED BY <1>2, InductionDown
<1>4. Finds(1)
  <2>1. 1 \in S
    BY <1>3
  <2> QED BY <2>1
<1>5. acc[1] \in SUBSET SUBSET Queries!Messages(mail)
  <2>1. 1 \in 1..(n + 1)
    OBVIOUS
  <2> QED BY <2>1
<1>6. Queries!All(acc[1]) \subseteq Queries!Messages(mail)
  BY DEF Queries!All
<1> QED BY <1>1, <1>4, <1>5, <1>6

\* The search keys of a condition find what the condition says.
LEMMA TranslateConditionIs ==
    ASSUME NEW c
    PROVE  /\ Queries!TranslateCondition(c) \in SUBSET SUBSET Queries!Messages(mail)
           /\ c.wants \cup c.refuses # {} => Queries!TranslateCondition(c) # {}
           /\ \A msg \in Queries!Messages(mail) :
                 msg \in Queries!All(Queries!TranslateCondition(c)) <=>
                     c.wants \subseteq msg.has /\ c.refuses \cap msg.has = {}
<1> DEFINE W(t) == {msg \in Queries!Messages(mail) : t \in msg.has}
           N(t) == {msg \in Queries!Messages(mail) : t \notin msg.has}
<1>1. Queries!TranslateCondition(c) = {W(t) : t \in c.wants} \cup {N(t) : t \in c.refuses}
  BY DEF Queries!TranslateCondition
<1>2. \A t : W(t) \in SUBSET Queries!Messages(mail) /\ N(t) \in SUBSET Queries!Messages(mail)
  OBVIOUS
<1>3. \A t, msg : msg \in Queries!Messages(mail) =>
         (msg \in W(t) <=> t \in msg.has) /\ (msg \in N(t) <=> t \notin msg.has)
  OBVIOUS
<1> HIDE DEF W, N
<1>4. ASSUME NEW msg \in Queries!Messages(mail)
      PROVE  msg \in Queries!All(Queries!TranslateCondition(c)) <=>
                 c.wants \subseteq msg.has /\ c.refuses \cap msg.has = {}
  <2>1. msg \in Queries!All(Queries!TranslateCondition(c)) <=>
            (\A t \in c.wants : msg \in W(t)) /\ (\A t \in c.refuses : msg \in N(t))
    BY <1>1 DEF Queries!All
  <2> QED BY <1>3, <2>1
<1>5. Queries!TranslateCondition(c) \in SUBSET SUBSET Queries!Messages(mail)
  BY <1>1, <1>2
<1>6. c.wants \cup c.refuses # {} => Queries!TranslateCondition(c) # {}
  BY <1>1
<1> QED BY <1>4, <1>5, <1>6

\* Those of an operator are search keys again.
LEMMA TranslateOperatorIs ==
    ASSUME NEW n \in Nat, NEW groups \in [1..n -> SUBSET SUBSET Queries!Messages(mail)],
           NEW op \in {"AND", "OR", "NOT"}
    PROVE  Queries!TranslateOperator(op, groups) \in SUBSET SUBSET Queries!Messages(mail)
<1> DEFINE R == SUBSET SUBSET Queries!Messages(mail)
<1>1. Queries!Join(groups) \in R
  BY DEF Queries!Join, Queries!Messages
<1>2. Queries!Neither(groups) \in R
  <2>1. \A g : Queries!Not(g) \in SUBSET Queries!Messages(mail)
    BY DEF Queries!Not
  <2> QED BY <2>1 DEF Queries!Neither
<1>3. Queries!Either(groups) \in R
  <2>1. PICK acc \in [1..(n + 1) -> SUBSET SUBSET Queries!Messages(mail)] :
               Queries!Either(groups) = acc[1]
    BY EitherIs
  <2>2. 1 \in 1..(n + 1)
    OBVIOUS
  <2> HIDE DEF R
  <2> QED BY <2>1, <2>2 DEF R
<1> HIDE DEF R
<1> QED BY <1>1, <1>2, <1>3 DEF Queries!TranslateOperator, R

\* TranslateFilter, place by place.
LEMMA GroupIs ==
    ASSUME NEW f, Queries!IsFilter(f)
    PROVE  \E group : /\ \A i \in DOMAIN f : group[i] = GroupStep(f, i, group)
                      /\ Queries!TranslateFilter(f) = group[1]
<1> DEFINE n == Len(f)
           R == SUBSET SUBSET Queries!Messages(mail)
           B == [i \in 1..n |-> [g \in [1..n -> R] |-> GroupStep(f, i, g)]]
           group == CHOOSE g : g = [i \in DOMAIN f |-> GroupStep(f, i, g)]
<1>1. f \in Seq(Queries!Messages(f)) /\ f # << >>
  BY DEF Queries!IsFilter
<1>2. DOMAIN f = 1..n /\ n \in Nat
  BY <1>1
<1>3. ASSUME NEW i \in 1..n, NEW g \in [1..n -> R] PROVE GroupStep(f, i, g) \in R
  <2>1. CASE ~Queries!IsOperator(f[i])
    BY <2>1, TranslateConditionIs DEF GroupStep
  <2>2. CASE Queries!IsOperator(f[i])
    <3> DEFINE args == f[i].args
               groups == [k \in DOMAIN args |-> g[args[k]]]
    <3>1. /\ Len(args) \in Nat /\ DOMAIN args = 1..Len(args)
          /\ f[i].op \in {"AND", "OR", "NOT"}
          /\ \A k \in DOMAIN args : args[k] \in 1..n
      BY <1>2, <2>2, ArgsAre
    <3> HIDE DEF args, R
    <3>2. groups \in [1..Len(args) -> R]
      BY <3>1
    <3> HIDE DEF groups
    <3>3. Queries!TranslateOperator(f[i].op, groups) \in R
      BY <3>1, <3>2, TranslateOperatorIs DEF R
    <3> QED BY <2>2, <3>3 DEF GroupStep, groups, args
  <2> QED BY <2>1, <2>2
<1>4. ASSUME NEW i \in 1..n, NEW g \in [1..n -> R], NEW h \in [1..n -> R],
             \A j \in (i + 1)..n : g[j] = h[j]
      PROVE  GroupStep(f, i, g) = GroupStep(f, i, h)
  <2>1. CASE ~Queries!IsOperator(f[i])
    BY <2>1 DEF GroupStep
  <2>2. CASE Queries!IsOperator(f[i])
    <3>1. ASSUME NEW k \in DOMAIN f[i].args PROVE g[f[i].args[k]] = h[f[i].args[k]]
      <4>1. f[i].args[k] \in (i + 1)..n
        BY <1>2, <2>2, ArgsAre
      <4> QED BY <1>4, <4>1
    <3>2. [k \in DOMAIN f[i].args |-> g[f[i].args[k]]]
            = [k \in DOMAIN f[i].args |-> h[f[i].args[k]]]
      BY <3>1
    <3> QED BY <2>2, <3>2 DEF GroupStep
  <2> QED BY <2>1, <2>2
<1>5. IsStepDown(n, R, B)
  <2>1. \A i \in 1..n, g \in [1..n -> R] : B[i][g] = GroupStep(f, i, g)
    OBVIOUS
  <2> HIDE DEF B, R
  <2> QED BY <1>3, <1>4, <2>1 DEF IsStepDown
<1>6. DefinedDown(n, R, B)
  <2>1. R # {}
    OBVIOUS
  <2> HIDE DEF B, R, n
  <2> QED BY <1>2, <1>5, <2>1, RecursionDown
<1>7. PICK g \in [1..n -> R] : \A i \in 1..n : g[i] = B[i][g]
  BY <1>6 DEF DefinedDown
<1>8. g = [i \in DOMAIN f |-> GroupStep(f, i, g)]
  <2>1. \A i \in 1..n : g[i] = GroupStep(f, i, g)
    BY <1>7
  <2> HIDE DEF R, B
  <2> QED BY <1>2, <2>1
<1>9. group = [i \in DOMAIN f |-> GroupStep(f, i, group)]
  BY <1>8
<1>10. Queries!TranslateFilter(f) = group[1]
  BY DEF Queries!TranslateFilter, GroupStep
<1> HIDE DEF group
<1>11. \A i \in DOMAIN f : group[i] = GroupStep(f, i, group)
  BY <1>9
<1> QED BY <1>10, <1>11

\* Matches, place by place.
LEMMA MatchIs ==
    ASSUME NEW f, Queries!IsFilter(f), NEW msg
    PROVE  \E match : /\ \A i \in DOMAIN f : match[i] = MatchStep(msg, f, i, match)
                      /\ Queries!Matches(msg, f) = match[1]
<1> DEFINE n == Len(f)
           R == BOOLEAN
           B == [i \in 1..n |-> [g \in [1..n -> R] |-> MatchStep(msg, f, i, g)]]
           match == CHOOSE g : g = [i \in DOMAIN f |-> MatchStep(msg, f, i, g)]
<1>1. f \in Seq(Queries!Messages(f)) /\ f # << >>
  BY DEF Queries!IsFilter
<1>2. DOMAIN f = 1..n /\ n \in Nat
  BY <1>1
<1>3. ASSUME NEW i \in 1..n, NEW g \in [1..n -> R] PROVE MatchStep(msg, f, i, g) \in R
  <2>1. CASE ~Queries!IsOperator(f[i])
    BY <2>1 DEF MatchStep
  <2>2. CASE Queries!IsOperator(f[i])
    <3>1. f[i].op \in {"AND", "OR", "NOT"}
      BY <1>2, <2>2, ArgsAre
    <3> QED BY <2>2, <3>1 DEF MatchStep
  <2> QED BY <2>1, <2>2
<1>4. ASSUME NEW i \in 1..n, NEW g \in [1..n -> R], NEW h \in [1..n -> R],
             \A j \in (i + 1)..n : g[j] = h[j]
      PROVE  MatchStep(msg, f, i, g) = MatchStep(msg, f, i, h)
  <2>1. CASE ~Queries!IsOperator(f[i])
    BY <2>1 DEF MatchStep
  <2>2. CASE Queries!IsOperator(f[i])
    <3>1. ASSUME NEW k \in DOMAIN f[i].args PROVE g[f[i].args[k]] = h[f[i].args[k]]
      <4>1. f[i].args[k] \in (i + 1)..n
        BY <1>2, <2>2, ArgsAre
      <4> QED BY <1>4, <4>1
    <3>2. f[i].op \in {"AND", "OR", "NOT"}
      BY <1>2, <2>2, ArgsAre
    <3>3. /\ (\A k \in DOMAIN f[i].args : g[f[i].args[k]])
               = (\A k \in DOMAIN f[i].args : h[f[i].args[k]])
          /\ (\E k \in DOMAIN f[i].args : g[f[i].args[k]])
                 = (\E k \in DOMAIN f[i].args : h[f[i].args[k]])
          /\ (\A k \in DOMAIN f[i].args : ~g[f[i].args[k]])
                 = (\A k \in DOMAIN f[i].args : ~h[f[i].args[k]])
      BY <3>1
    <3> QED BY <2>2, <3>2, <3>3 DEF MatchStep
  <2> QED BY <2>1, <2>2
<1>5. IsStepDown(n, R, B)
  <2>1. \A i \in 1..n, g \in [1..n -> R] : B[i][g] = MatchStep(msg, f, i, g)
    OBVIOUS
  <2> HIDE DEF B, R
  <2> QED BY <1>3, <1>4, <2>1 DEF IsStepDown
<1>6. DefinedDown(n, R, B)
  <2>1. R # {}
    OBVIOUS
  <2> HIDE DEF B, R, n
  <2> QED BY <1>2, <1>5, <2>1, RecursionDown
<1>7. PICK g \in [1..n -> R] : \A i \in 1..n : g[i] = B[i][g]
  BY <1>6 DEF DefinedDown
<1>8. g = [i \in DOMAIN f |-> MatchStep(msg, f, i, g)]
  <2>1. \A i \in 1..n : g[i] = MatchStep(msg, f, i, g)
    BY <1>7
  <2> HIDE DEF R, B
  <2> QED BY <1>2, <2>1
<1>9. match = [i \in DOMAIN f |-> MatchStep(msg, f, i, match)]
  BY <1>8
<1>10. Queries!Matches(msg, f) = match[1]
  BY DEF Queries!Matches, MatchStep
<1> HIDE DEF match
<1>11. \A i \in DOMAIN f : match[i] = MatchStep(msg, f, i, match)
  BY <1>9
<1> QED BY <1>10, <1>11

\* Nothing below i names a mailbox.
NoScope(f, i) == \A s \in Below(f, i) : ~Queries!Scoped(f[s])

\* What is found for the filter with its root at i is what it means.
Right(f, msg, found, group, match, i) ==
    /\ group[i] \in SUBSET SUBSET Queries!Messages(mail)
    /\ NoScope(f, i) =>
          /\ found[i] = Absent
          /\ i # 1 => group[i] # {}
          /\ match[i] <=> msg \in Queries!All(group[i])
    /\ found[i] # Absent =>
          /\ ~NoScope(f, i)
          /\ match[i] <=> msg.box = found[i] /\ msg \in Queries!All(group[i])

\* If the conditions of i are right, so is i: by InductionDown all of them are.
LEMMA RightStep ==
    ASSUME NEW f, Queries!IsFilter(f), Queries!Expressible(f), ~Queries!Unsupported(f),
           NEW msg \in Queries!Messages(mail),
           NEW found, \A i \in DOMAIN f : found[i] = FindStep(f, i, found),
           NEW group, \A i \in DOMAIN f : group[i] = GroupStep(f, i, group),
           NEW match, \A i \in DOMAIN f : match[i] = MatchStep(msg, f, i, match),
           NEW i \in DOMAIN f,
           \A j \in (i + 1)..Len(f) : Right(f, msg, found, group, match, j)
    PROVE  Right(f, msg, found, group, match, i)
<1> DEFINE R == SUBSET SUBSET Queries!Messages(mail)
<1>1. DOMAIN f = 1..Len(f) /\ Len(f) \in Nat \ {0}
  BY ChildrenAre
<1>2. i \in Below(f, i)
  BY BelowIs
<1>3. CASE ~Queries!IsOperator(f[i])
  <2>1. found[i] = f[i].box
    BY <1>3 DEF FindStep
  <2>2. group[i] = Queries!TranslateCondition(f[i])
    BY <1>3 DEF GroupStep
  <2>3. match[i] <=> /\ f[i].box \in {Absent, msg.box}
                     /\ f[i].wants \subseteq msg.has
                     /\ f[i].refuses \cap msg.has = {}
    BY <1>3 DEF MatchStep
  <2>4. Queries!Scoped(f[i]) <=> f[i].box # Absent
    BY <1>3 DEF Queries!Scoped
  <2>5. match[i] <=> f[i].box \in {Absent, msg.box} /\ msg \in Queries!All(group[i])
    BY <2>2, <2>3, TranslateConditionIs
  <2>6. group[i] \in R
    BY <2>2, TranslateConditionIs
  <2>7. i # 1 /\ ~Queries!Scoped(f[i]) => group[i] # {}
    BY <1>3, <2>2, TranslateConditionIs DEF Queries!Expressible
  <2>8. ASSUME NoScope(f, i)
        PROVE  /\ found[i] = Absent
               /\ i # 1 => group[i] # {}
               /\ match[i] <=> msg \in Queries!All(group[i])
    BY <1>2, <2>1, <2>4, <2>5, <2>7, <2>8 DEF NoScope
  <2>9. ASSUME found[i] # Absent
        PROVE  /\ ~NoScope(f, i)
               /\ match[i] <=> msg.box = found[i] /\ msg \in Queries!All(group[i])
    BY <1>2, <2>1, <2>4, <2>5, <2>9 DEF NoScope
  <2> QED BY <2>6, <2>8, <2>9 DEF Right
<1>4. CASE Queries!IsOperator(f[i])
  <2> DEFINE args == f[i].args
             n == Len(args)
             groups == [k \in DOMAIN args |-> group[args[k]]]
  <2>1. n \in Nat /\ DOMAIN args = 1..n /\ f[i].op \in {"AND", "OR", "NOT"}
    BY <1>4, ArgsAre
  <2>2. n # 0
    <3>1. args # << >>
      BY <1>4 DEF Queries!Unsupported
    <3>2. args \in Seq((i + 1)..Len(f))
      BY <1>4 DEF Queries!IsFilter
    <3> HIDE DEF args
    <3> QED BY <3>1, <3>2
  <2>3. \A k \in 1..n :
           /\ args[k] \in DOMAIN f
           /\ args[k] \in Children(f, i)
           /\ args[k] # 1
           /\ Right(f, msg, found, group, match, args[k])
           /\ \A l \in 1..n : args[k] = args[l] => k = l
    <3>1. SUFFICES ASSUME NEW k \in 1..n
                   PROVE  /\ args[k] \in DOMAIN f
                          /\ args[k] \in Children(f, i)
                          /\ args[k] # 1
                          /\ Right(f, msg, found, group, match, args[k])
                          /\ \A l \in 1..n : args[k] = args[l] => k = l
      OBVIOUS
    <3>2. args[k] \in (i + 1)..Len(f)
      BY <1>4, <2>1, ArgsAre
    <3>3. args[k] # 1
      BY <1>1, <3>2
    <3> QED BY <1>4, <2>1, <3>2, <3>3, ArgsAre
  <2>4. /\ found[i] = FindStep(f, i, found)
        /\ group[i] = Queries!TranslateOperator(f[i].op, groups)
        /\ match[i] = MatchStep(msg, f, i, match)
    BY <1>4 DEF GroupStep
  <2>5. match[i] <=> CASE f[i].op = "AND" -> \A k \in 1..n : match[args[k]]
                       [] f[i].op = "OR"  -> \E k \in 1..n : match[args[k]]
                       [] f[i].op = "NOT" -> \A k \in 1..n : ~match[args[k]]
    BY <1>4, <2>1, <2>4 DEF MatchStep
  <2>6. Scopes(f, i, found) = {k \in 1..n : found[args[k]] # Absent}
    BY <2>1 DEF Scopes
  <2>7. found[i] = IF f[i].op # "AND" \/ Scopes(f, i, found) = {} THEN Absent
                   ELSE found[args[Earliest(Scopes(f, i, found))]]
    BY <1>4, <2>4 DEF FindStep
  <2>8. \A k \in 1..n : groups[k] = group[args[k]] /\ groups[k] \in R
    BY <2>1, <2>3 DEF Right
  <2>9. groups \in [1..n -> R]
    BY <2>1, <2>8
  <2> HIDE DEF groups, args, n
  <2>10. group[i] \in R
    BY <2>1, <2>4, <2>9, TranslateOperatorIs
  <2>11. msg \in Queries!All(Queries!Join(groups))
           <=> \A k \in 1..n : msg \in Queries!All(groups[k])
    BY <2>9 DEF Queries!All, Queries!Join, Queries!Messages
  <2>12. ASSUME NoScope(f, i)
         PROVE  /\ found[i] = Absent
                /\ i # 1 => group[i] # {}
                /\ match[i] <=> msg \in Queries!All(group[i])
    <3>1. ASSUME NEW k \in 1..n
          PROVE  /\ found[args[k]] = Absent
                 /\ groups[k] # {}
                 /\ match[args[k]] <=> msg \in Queries!All(groups[k])
      <4>1. Below(f, args[k]) \subseteq Below(f, i)
        BY <2>3, BelowIs
      <4>2. NoScope(f, args[k])
        BY <2>12, <4>1 DEF NoScope
      <4> QED BY <2>3, <2>8, <4>2 DEF Right
    <3>2. found[i] = Absent
      BY <2>6, <2>7, <3>1
    <3>3. CASE f[i].op = "AND"
      <4>1. group[i] = Queries!Join(groups)
        BY <2>4, <3>3 DEF Queries!TranslateOperator
      <4>2. match[i] <=> \A k \in 1..n : match[args[k]]
        BY <2>5, <3>3
      <4>3. group[i] # {}
        <5>1. 1 \in 1..n
          BY <2>1, <2>2
        <5>2. groups[1] # {} /\ groups[1] \in Queries!Messages(groups)
          BY <2>9, <3>1, <5>1 DEF Queries!Messages
        <5> QED BY <4>1, <5>2 DEF Queries!Join
      <4> QED BY <2>11, <3>1, <3>2, <4>1, <4>2, <4>3
    <3>4. CASE f[i].op = "OR"
      <4>1. group[i] = Queries!Either(groups)
        BY <2>4, <3>4 DEF Queries!TranslateOperator
      <4>2. match[i] <=> \E k \in 1..n : match[args[k]]
        BY <2>5, <3>4
      <4>3. /\ Queries!Either(groups) # {}
            /\ Queries!All(Queries!Either(groups))
                 = {m \in Queries!Messages(mail) : \E k \in 1..n : m \in Queries!All(groups[k])}
        BY <2>1, <2>2, <2>9, <3>1, EitherFinds
      <4> QED BY <3>1, <3>2, <4>1, <4>2, <4>3
    <3>5. CASE f[i].op = "NOT"
      <4>1. group[i] = Queries!Neither(groups)
        BY <2>4, <3>5 DEF Queries!TranslateOperator
      <4>2. match[i] <=> \A k \in 1..n : ~match[args[k]]
        BY <2>5, <3>5
      <4>3. \A g : g \in Queries!Messages(groups) \ {{}} <=> \E k \in 1..n : g = groups[k]
        BY <2>9, <3>1 DEF Queries!Messages
      <4>4. Queries!Neither(groups) # {}
        <5>1. 1 \in 1..n
          BY <2>1, <2>2
        <5>2. Queries!Not(groups[1]) \in Queries!Neither(groups)
          BY <4>3, <5>1 DEF Queries!Neither
        <5> QED BY <5>2
      <4>5. msg \in Queries!All(Queries!Neither(groups))
              <=> \A k \in 1..n : msg \in Queries!Not(groups[k])
        BY <4>3 DEF Queries!Neither, Queries!All
      <4>6. \A k \in 1..n : msg \in Queries!Not(groups[k]) <=> msg \notin Queries!All(groups[k])
        BY DEF Queries!Not
      <4> QED BY <3>1, <3>2, <4>1, <4>2, <4>4, <4>5, <4>6
    <3> QED BY <2>1, <3>3, <3>4, <3>5
  <2>13. ASSUME found[i] # Absent
         PROVE  /\ ~NoScope(f, i)
                /\ match[i] <=> msg.box = found[i] /\ msg \in Queries!All(group[i])
    <3> DEFINE S == Scopes(f, i, found)
               k == Earliest(S)
    <3>1. f[i].op = "AND" /\ S # {} /\ found[i] = found[args[k]]
      BY <2>7, <2>13
    <3>2. S \in SUBSET Nat
      BY <2>1, <2>6
    <3>3. k \in S
      <4> HIDE DEF S
      <4> QED BY <3>1, <3>2, EarliestIs
    <3>4. k \in 1..n /\ found[args[k]] # Absent
      BY <2>6, <3>3
    <3> HIDE DEF S, k
    <3>5. ~NoScope(f, i)
      <4> QED BY <2>12, <2>13
    <3>6. /\ ~NoScope(f, args[k])
          /\ match[args[k]] <=> msg.box = found[i] /\ msg \in Queries!All(groups[k])
      BY <2>3, <2>8, <3>1, <3>4 DEF Right
    <3>7. PICK s \in Below(f, args[k]) : Queries!Scoped(f[s])
      BY <3>6 DEF NoScope
    <3>8. ASSUME NEW l \in 1..n, l # k PROVE match[args[l]] <=> msg \in Queries!All(groups[l])
      <4>1. args[l] # args[k]
        BY <2>3, <3>4, <3>8
      <4>2. Below(f, args[l]) \cap Below(f, args[k]) = {}
        BY <2>3, <3>4, <4>1, SiblingsApart
      <4>3. Below(f, args[l]) \subseteq DOMAIN f /\ Below(f, args[k]) \subseteq DOMAIN f
        BY DEF Below
      <4>4. NoScope(f, args[l])
        BY <3>7, <4>2, <4>3 DEF NoScope, Queries!Expressible
      <4> QED BY <2>3, <2>8, <4>4 DEF Right
    <3>9. match[i] <=> \A l \in 1..n : match[args[l]]
      BY <2>5, <3>1
    <3>10. group[i] = Queries!Join(groups)
      BY <2>4, <3>1 DEF Queries!TranslateOperator
    <3> QED BY <2>11, <3>4, <3>5, <3>6, <3>8, <3>9, <3>10
  <2> QED BY <2>10, <2>12, <2>13 DEF Right
<1> QED BY <1>3, <1>4

\* What is found is what the filter matches.
LEMMA HitIsMatch ==
    ASSUME NEW f, Queries!IsFilter(f), Queries!Expressible(f), ~Queries!Unsupported(f),
           Queries!FindInMailbox(f) = Absent => ~Queries!HasAnyInMailbox(f),
           NEW msg \in Queries!Messages(mail)
    PROVE  Hit(msg, f) <=> Queries!Matches(msg, f)
<1>1. PICK found : /\ \A i \in DOMAIN f : found[i] = FindStep(f, i, found)
                   /\ Queries!FindInMailbox(f) = found[1]
  BY FindIs
<1>2. PICK group : /\ \A i \in DOMAIN f : group[i] = GroupStep(f, i, group)
                   /\ Queries!TranslateFilter(f) = group[1]
  BY GroupIs
<1>3. PICK match : /\ \A i \in DOMAIN f : match[i] = MatchStep(msg, f, i, match)
                   /\ Queries!Matches(msg, f) = match[1]
  BY MatchIs
<1>4. DOMAIN f = 1..Len(f) /\ Len(f) \in Nat \ {0} /\ 1 \in DOMAIN f
  <2>1. f \in Seq(Queries!Messages(f)) /\ f # << >>
    BY DEF Queries!IsFilter
  <2> QED BY <2>1
<1> DEFINE S == {i \in DOMAIN f : Right(f, msg, found, group, match, i)}
<1>5. ASSUME NEW i \in 1..Len(f), \A j \in (i + 1)..Len(f) : j \in S PROVE i \in S
  <2>1. i \in DOMAIN f /\ \A j \in (i + 1)..Len(f) : Right(f, msg, found, group, match, j)
    BY <1>4, <1>5
  <2>2. Right(f, msg, found, group, match, i)
    BY <1>1, <1>2, <1>3, <2>1, RightStep
  <2> QED BY <2>1, <2>2
<1>6. 1..Len(f) \subseteq S
  <2> HIDE DEF S
  <2> QED BY <1>4, <1>5, InductionDown
<1>7. Right(f, msg, found, group, match, 1)
  BY <1>4, <1>6
<1>8. CASE found[1] = Absent
  <2>1. \A s \in DOMAIN f : ~Queries!Scoped(f[s])
    BY <1>1, <1>8 DEF Queries!HasAnyInMailbox
  <2>2. NoScope(f, 1)
    BY <2>1 DEF NoScope, Below
  <2> QED BY <1>1, <1>2, <1>3, <1>7, <1>8, <2>2 DEF Right, Hit
<1>9. CASE found[1] # Absent
  BY <1>1, <1>2, <1>3, <1>7, <1>9 DEF Right, Hit
<1> QED BY <1>8, <1>9

\* The inductive invariant of Trusted.
TrustedInv == InCase /\ Queries!Trusted

\* An answer that is not a rejection has exactly the messages that match.
LEMMA ExactAnswer ==
    ASSUME Queries!QueryAssumption, InCase,
           Queries!Expressible(asked.filter), ~Queries!Rejected,
           NEW native \in BOOLEAN, native => Queries!MaySortNatively
    PROVE  Queries!Messages(Queries!ApplySort(Queries!Found(asked.filter), asked.sort, native))
               = {msg \in Queries!Messages(mail) : Queries!Matches(msg, asked.filter)}
<1> DEFINE M == Queries!Messages(mail)
           sort == asked.sort
           filter == asked.filter
           found == Queries!Found(filter)
<1>1. /\ mail \in Seq(M)
      /\ sort \in Seq(Queries!Messages(sort))
      /\ \A x \in M, by \in Queries!Messages(sort) :
             x.value[by.key] \in Nat \cup {Queries!NoValue}
      /\ Queries!IsFilter(filter)
  BY DEF InCase, Queries!QueryAssumption
<1>2. \A k \in 1..Len(sort) : sort[k] \in Queries!Messages(sort)
  BY <1>1 DEF Queries!Messages
<1>3. Sortable(M, sort, native)
  BY <1>1, <1>2 DEF Sortable, Value, Queries!SortValue
<1>4. PICK n \in Nat : /\ found \in [1..n -> M]
                       /\ Queries!Messages(found) = {msg \in M : Hit(msg, filter)}
  BY <1>1, FoundIs
<1>5. InTurn(Queries!ApplySort(found, sort, native), n, M, found, sort, native)
  <2> HIDE DEF M, sort, found
  <2> QED BY <1>1, <1>3, <1>4, ApplySortIs, Zenon
<1>6. /\ ~Queries!Unsupported(filter)
      /\ Queries!FindInMailbox(filter) = Absent => ~Queries!HasAnyInMailbox(filter)
  BY DEF Queries!Rejected
<1>7. \A msg \in M : Hit(msg, filter) <=> Queries!Matches(msg, filter)
  <2> HIDE DEF filter
  <2> QED BY <1>1, <1>6, HitIsMatch DEF filter
<1> HIDE DEF found
<1> QED BY <1>4, <1>5, <1>7 DEF InTurn, found

\* A step of Email/query keeps its answers exact.
LEMMA TrustedNext ==
    ASSUME Queries!QueryAssumption, TrustedInv, [Queries!Next]_queryVars
    PROVE  TrustedInv'
<1>1. CASE UNCHANGED queryVars
  <2>1. mail' = mail /\ asked' = asked /\ answer' = answer
    BY <1>1 DEF queryVars
  <2> QED BY <2>1 DEF TrustedInv, InCase, Queries!Trusted, Queries!Exact, Queries!Answered
<1>2. CASE Queries!Query
  <2>1. UNCHANGED <<mail, asked>>
    BY <1>2 DEF Queries!Query
  <2>2. InCase'
    BY <2>1 DEF TrustedInv, InCase
  <2>3. Queries!Trusted'
    <3>1. SUFFICES ASSUME Queries!Expressible(asked.filter), answer'.ok
                   PROVE  Queries!Messages(answer'.all)
                            = {msg \in Queries!Messages(mail) : Queries!Matches(msg, asked.filter)}
      BY <2>1 DEF Queries!Trusted, Queries!Exact, Queries!Answered
    <3>2. ~Queries!Rejected
      BY <1>2, <3>1 DEF Queries!Query
    <3>3. PICK native \in BOOLEAN :
             /\ native => Queries!MaySortNatively
             /\ answer'.all = Queries!ApplySort(Queries!Found(asked.filter), asked.sort, native)
      BY <1>2, <3>2 DEF Queries!Query
    <3> QED BY <3>1, <3>2, <3>3, ExactAnswer DEF TrustedInv
  <2> QED BY <2>2, <2>3 DEF TrustedInv
<1> QED BY <1>1, <1>2 DEF Queries!Next

-----------------------------------------------------------------------------
(***************************************************************************)
(* The parts of a message.                                                 *)
(***************************************************************************)
\* All different.
Distinct(s) == \A i, j \in DOMAIN s : s[i] = s[j] => i = j

\* Taking the first of a sequence whose elements are all different.
LEMMA TailIs ==
    ASSUME NEW S, NEW s \in Seq(S), s # << >>, Distinct(s)
    PROVE  /\ Tail(s) \in Seq(S)
           /\ Head(s) \in Parts!Range(s)
           /\ Distinct(Tail(s))
           /\ Parts!Range(Tail(s)) = Parts!Range(s) \ {Head(s)}
<1> DEFINE t == Tail(s)
<1>1. Len(s) \in Nat \ {0} /\ DOMAIN s = 1..Len(s)
  BY EmptySeq, LenProperties
<1>2. /\ t \in Seq(S)
      /\ Len(t) = Len(s) - 1
      /\ \A i \in 1..Len(t) : t[i] = s[i + 1]
  BY HeadTailProperties
<1>3. DOMAIN t = 1..(Len(s) - 1)
  BY <1>2, LenProperties
<1>4. Head(s) = s[1] /\ 1 \in DOMAIN s
  BY <1>1
<1> HIDE DEF t
<1>5. \A i \in DOMAIN t : t[i] = s[i + 1] /\ i + 1 \in DOMAIN s /\ i + 1 # 1
  BY <1>1, <1>2, <1>3
<1>6. Distinct(t)
  <2>1. SUFFICES ASSUME NEW i \in DOMAIN t, NEW j \in DOMAIN t, t[i] = t[j] PROVE i = j
    BY DEF Distinct
  <2>2. i + 1 = j + 1
    BY <1>5, <2>1 DEF Distinct
  <2> QED BY <1>1, <1>3, <2>2
<1>7. \A i \in DOMAIN s : i # 1 => i - 1 \in DOMAIN t /\ t[i - 1] = s[i]
  <2>1. SUFFICES ASSUME NEW i \in DOMAIN s, i # 1 PROVE i - 1 \in DOMAIN t /\ t[i - 1] = s[i]
    OBVIOUS
  <2>2. i - 1 \in DOMAIN t
    BY <1>1, <1>3, <2>1
  <2>3. i - 1 + 1 = i
    BY <1>1, <2>1
  <2> QED BY <1>5, <2>2, <2>3
<1>8. \A x : x \in Parts!Range(t) => x \in Parts!Range(s) /\ x # Head(s)
  BY <1>4, <1>5 DEF Parts!Range, Distinct
<1>9. \A x : x \in Parts!Range(s) /\ x # Head(s) => x \in Parts!Range(t)
  BY <1>4, <1>7 DEF Parts!Range
<1> QED BY <1>2, <1>4, <1>6, <1>8, <1>9 DEF t, Parts!Range

\* Joining two that have nothing in common.
LEMMA ConcatIs ==
    ASSUME NEW S, NEW s \in Seq(S), NEW t \in Seq(S), Distinct(s), Distinct(t),
           Parts!Range(s) \cap Parts!Range(t) = {}
    PROVE  /\ s \o t \in Seq(S)
           /\ Distinct(s \o t)
           /\ Parts!Range(s \o t) = Parts!Range(s) \cup Parts!Range(t)
<1> DEFINE u == s \o t
<1>1. Len(s) \in Nat /\ DOMAIN s = 1..Len(s) /\ Len(t) \in Nat /\ DOMAIN t = 1..Len(t)
  BY LenProperties
<1>2. /\ u \in Seq(S)
      /\ Len(u) = Len(s) + Len(t)
      /\ \A i \in 1..(Len(s) + Len(t)) : u[i] = IF i <= Len(s) THEN s[i] ELSE t[i - Len(s)]
  BY ConcatProperties
<1>3. DOMAIN u = 1..(Len(s) + Len(t))
  BY <1>2, LenProperties
<1> HIDE DEF u
<1>4. \A i \in DOMAIN u : \/ i \in DOMAIN s /\ u[i] = s[i]
                          \/ i - Len(s) \in DOMAIN t /\ u[i] = t[i - Len(s)]
  BY <1>1, <1>2, <1>3
<1>5. \A i \in DOMAIN s : i \in DOMAIN u /\ u[i] = s[i]
  BY <1>1, <1>2, <1>3
<1>6. \A i \in DOMAIN t : i + Len(s) \in DOMAIN u /\ u[i + Len(s)] = t[i]
  <2>1. SUFFICES ASSUME NEW i \in DOMAIN t
                 PROVE  i + Len(s) \in DOMAIN u /\ u[i + Len(s)] = t[i]
    OBVIOUS
  <2>2. i + Len(s) \in DOMAIN u /\ ~(i + Len(s) <= Len(s)) /\ i + Len(s) - Len(s) = i
    BY <1>1, <1>3
  <2> QED BY <1>2, <1>3, <2>2
<1>7. Distinct(u)
  <2>1. SUFFICES ASSUME NEW i \in DOMAIN u, NEW j \in DOMAIN u, u[i] = u[j] PROVE i = j
    BY DEF Distinct
  <2>2. CASE i \in DOMAIN s /\ u[i] = s[i] /\ j \in DOMAIN s /\ u[j] = s[j]
    BY <2>1, <2>2 DEF Distinct
  <2>3. CASE /\ i - Len(s) \in DOMAIN t /\ u[i] = t[i - Len(s)]
             /\ j - Len(s) \in DOMAIN t /\ u[j] = t[j - Len(s)]
    <3>1. i - Len(s) = j - Len(s)
      BY <2>1, <2>3 DEF Distinct
    <3> QED BY <1>1, <1>3, <3>1
  <2>4. \A k \in DOMAIN s, l \in DOMAIN t : s[k] # t[l]
    BY DEF Parts!Range
  <2> QED BY <1>4, <2>1, <2>2, <2>3, <2>4
<1>8. Parts!Range(u) = Parts!Range(s) \cup Parts!Range(t)
  BY <1>4, <1>5, <1>6 DEF Parts!Range
<1> QED BY <1>2, <1>7, <1>8 DEF u

\* The parts of a message are a tree, numbered from the root down.
LEMMA PartsAre ==
    ASSUME NEW msg, Parts!IsMessage(msg)
    PROVE  /\ DOMAIN msg = 1..Len(msg) /\ Len(msg) \in Nat \ {0}
           /\ \A i \in DOMAIN msg :
                 /\ msg[i].parts \in Seq(DOMAIN msg)
                 /\ Distinct(msg[i].parts)
                 /\ \A c \in Parts!Range(msg[i].parts) : c \in DOMAIN msg /\ c > i
                 /\ Parts!IsMultipart(msg[i]) \/ Parts!Range(msg[i].parts) = {}
           /\ \A j \in DOMAIN msg : j # 1 =>
                 \E i \in DOMAIN msg : j \in Parts!Range(msg[i].parts) /\ i < j
           /\ \A i, j \in DOMAIN msg : \A c \in Parts!Range(msg[i].parts) :
                 c \in Parts!Range(msg[j].parts) => i = j
<1>1. msg \in Seq(Parts!Range(msg)) /\ msg # << >>
  BY DEF Parts!IsMessage
<1>2. DOMAIN msg = 1..Len(msg) /\ Len(msg) \in Nat \ {0}
  BY <1>1
<1>3. ASSUME NEW i \in DOMAIN msg
      PROVE  /\ msg[i].parts \in Seq(DOMAIN msg)
             /\ Distinct(msg[i].parts)
             /\ \A c \in Parts!Range(msg[i].parts) : c \in DOMAIN msg /\ c > i
             /\ Parts!IsMultipart(msg[i]) \/ Parts!Range(msg[i].parts) = {}
  <2>1. msg[i].parts \in Seq((i + 1)..Len(msg))
    BY DEF Parts!IsMessage
  <2>2. (i + 1)..Len(msg) \subseteq DOMAIN msg
    BY <1>2
  <2>3. msg[i].parts \in Seq(DOMAIN msg)
    BY <2>1, <2>2, SeqMonotonic
  <2>4. Distinct(msg[i].parts)
    BY DEF Parts!IsMessage, Distinct
  <2>5. \A c \in Parts!Range(msg[i].parts) : c \in (i + 1)..Len(msg)
    BY <2>1, ElementOfSeq, LenProperties DEF Parts!Range
  <2>6. \A c \in Parts!Range(msg[i].parts) : c \in DOMAIN msg /\ c > i
    BY <1>2, <2>5
  <2>7. Parts!IsMultipart(msg[i]) \/ Parts!Range(msg[i].parts) = {}
    <3>1. Parts!IsMultipart(msg[i]) \/ msg[i].parts = << >>
      BY DEF Parts!IsMessage
    <3>2. Parts!Range(<< >>) = {}
      BY DEF Parts!Range
    <3> QED BY <3>1, <3>2
  <2> QED BY <2>3, <2>4, <2>6, <2>7
<1>4. ASSUME NEW j \in DOMAIN msg, j # 1
      PROVE  \E i \in DOMAIN msg : j \in Parts!Range(msg[i].parts) /\ i < j
  <2>1. PICK i \in DOMAIN msg : \E k \in DOMAIN msg[i].parts : msg[i].parts[k] = j
    BY <1>4 DEF Parts!IsMessage
  <2>2. j \in Parts!Range(msg[i].parts)
    BY <2>1 DEF Parts!Range
  <2>3. j > i
    BY <1>3, <2>2
  <2> QED BY <1>2, <2>2, <2>3
<1>5. ASSUME NEW i \in DOMAIN msg, NEW j \in DOMAIN msg,
             NEW c \in Parts!Range(msg[i].parts), c \in Parts!Range(msg[j].parts)
      PROVE  i = j
  <2>1. PICK k \in DOMAIN msg[i].parts : msg[i].parts[k] = c
    BY DEF Parts!Range
  <2>2. PICK l \in DOMAIN msg[j].parts : msg[j].parts[l] = c
    BY <1>5 DEF Parts!Range
  <2> QED BY <2>1, <2>2 DEF Parts!IsMessage
<1> QED BY <1>2, <1>3, <1>4, <1>5

FullTypes   == {"multipart", "rfc822", "message"}
NativeTypes == {"multipart", "rfc822"}

Leafs(msg) == {Parts!Leaf(msg, i) : i \in DOMAIN msg}

\* V are the parts that a walk came to; those of the types are walked into.
Coming(msg, types, walk, V) ==
    /\ walk.todo \in Seq(DOMAIN msg)
    /\ Distinct(walk.todo)
    /\ V \subseteq DOMAIN msg
    /\ Parts!Range(walk.todo) \cap V = {}
    /\ 1 \in V \cup Parts!Range(walk.todo)
    /\ \A i \in V : msg[i].type \in types =>
          Parts!Range(msg[i].parts) \subseteq V \cup Parts!Range(walk.todo)
    /\ \A j \in V \cup Parts!Range(walk.todo) : j # 1 =>
          \E i \in V : j \in Parts!Range(msg[i].parts)

\* leaves has the parts of V that are not walked into, each once.
Numbered(msg, types, leaves, V) ==
    /\ leaves \in Seq(Leafs(msg))
    /\ \A l \in DOMAIN leaves :
          /\ leaves[l].at \in V
          /\ msg[leaves[l].at].type \notin types
          /\ leaves[l] = Parts!Leaf(msg, leaves[l].at)
    /\ \A k, l \in DOMAIN leaves : leaves[k].at = leaves[l].at => k = l
    /\ \A i \in V : msg[i].type \notin types => \E l \in DOMAIN leaves : leaves[l].at = i

\* nodes has a node of each part of V, a leaf's with its number.
Built(msg, types, leaves, nodes, V) ==
    \A e : e \in nodes <=>
        \/ \E i \in V : msg[i].type \in types /\ e = Parts!Node(msg, i, Absent)
        \/ \E l \in DOMAIN leaves : e = Parts!Node(msg, leaves[l].at, l)

\* What a step takes from todo was not come to before.
LEMMA ComingStep ==
    ASSUME NEW msg, Parts!IsMessage(msg), NEW types, NEW walk, NEW V, NEW next,
           Coming(msg, types, walk, V), walk.todo # << >>,
           next.todo = IF msg[Head(walk.todo)].type \in types
                       THEN msg[Head(walk.todo)].parts \o Tail(walk.todo)
                       ELSE Tail(walk.todo)
    PROVE  /\ Head(walk.todo) \in DOMAIN msg \ V
           /\ Coming(msg, types, next, V \cup {Head(walk.todo)})
<1> DEFINE todo == walk.todo
           i == Head(todo)
           rest == Tail(todo)
           parts == msg[i].parts
           W == V \cup {i}
<1>1. /\ todo \in Seq(DOMAIN msg) /\ Distinct(todo) /\ V \subseteq DOMAIN msg
      /\ Parts!Range(todo) \cap V = {}
      /\ 1 \in V \cup Parts!Range(todo)
      /\ \A k \in V : msg[k].type \in types
             => Parts!Range(msg[k].parts) \subseteq V \cup Parts!Range(todo)
      /\ \A j \in V \cup Parts!Range(todo) : j # 1
             => \E k \in V : j \in Parts!Range(msg[k].parts)
  BY DEF Coming
<1>2. /\ rest \in Seq(DOMAIN msg)
      /\ i \in Parts!Range(todo)
      /\ Distinct(rest)
      /\ Parts!Range(rest) = Parts!Range(todo) \ {i}
  <2> HIDE DEF todo
  <2> QED BY <1>1, TailIs DEF todo
<1>3. i \in DOMAIN msg /\ i \notin V
  <2>1. i \in DOMAIN msg
    BY <1>1, HeadTailProperties
  <2> QED BY <1>1, <1>2, <2>1
<1>4. /\ parts \in Seq(DOMAIN msg) /\ Distinct(parts)
      /\ \A c \in Parts!Range(parts) : c \in DOMAIN msg /\ c > i
      /\ DOMAIN msg = 1..Len(msg)
  BY <1>3, PartsAre
<1> HIDE DEF i, rest, todo
<1>5. CASE msg[i].type \in types
  <2>1. next.todo = parts \o rest
    BY <1>5 DEF i, rest, todo
  <2>2. \A c \in Parts!Range(parts) : c \notin V /\ c \notin Parts!Range(todo) /\ c # i
    <3>1. SUFFICES ASSUME NEW c \in Parts!Range(parts), c \in V \cup Parts!Range(todo) \cup {i}
                   PROVE  FALSE
      OBVIOUS
    <3>2. c # i /\ c # 1
      BY <1>3, <1>4
    <3>3. PICK k \in V : c \in Parts!Range(msg[k].parts)
      BY <1>1, <3>1, <3>2
    <3>4. k = i
      BY <1>1, <1>3, <3>3, PartsAre
    <3> QED BY <1>3, <3>4
  <2>3. Parts!Range(parts) \cap Parts!Range(rest) = {}
    BY <1>2, <2>2
  <2>4. /\ next.todo \in Seq(DOMAIN msg)
        /\ Distinct(next.todo)
        /\ Parts!Range(next.todo) = Parts!Range(parts) \cup Parts!Range(rest)
    <3>1. parts \in Seq(DOMAIN msg) /\ Distinct(parts)
      BY <1>4
    <3>2. rest \in Seq(DOMAIN msg) /\ Distinct(rest)
      BY <1>2
    <3> HIDE DEF parts
    <3>3. /\ parts \o rest \in Seq(DOMAIN msg)
          /\ Distinct(parts \o rest)
          /\ Parts!Range(parts \o rest) = Parts!Range(parts) \cup Parts!Range(rest)
      BY <2>3, <3>1, <3>2, ConcatIs
    <3> QED BY <2>1, <3>3
  <2>5. Parts!Range(next.todo) \cap W = {}
    BY <1>1, <1>2, <2>2, <2>4
  <2>6. W \cup Parts!Range(next.todo) = V \cup Parts!Range(todo) \cup Parts!Range(parts)
    BY <1>2, <2>4
  <2>7. \A k \in W : msg[k].type \in types
          => Parts!Range(msg[k].parts) \subseteq W \cup Parts!Range(next.todo)
    BY <1>1, <2>6
  <2>8. \A j \in W \cup Parts!Range(next.todo) : j # 1
          => \E k \in W : j \in Parts!Range(msg[k].parts)
    BY <1>1, <2>6
  <2> QED BY <1>1, <1>3, <2>4, <2>5, <2>6, <2>7, <2>8 DEF Coming, i, todo
<1>6. CASE msg[i].type \notin types
  <2>1. next.todo = rest
    BY <1>6 DEF i, rest, todo
  <2>2. W \cup Parts!Range(next.todo) = V \cup Parts!Range(todo)
    BY <1>2, <2>1
  <2>3. Parts!Range(next.todo) \cap W = {}
    BY <1>1, <1>2, <2>1
  <2>4. \A k \in W : msg[k].type \in types
          => Parts!Range(msg[k].parts) \subseteq W \cup Parts!Range(next.todo)
    BY <1>1, <1>6, <2>2
  <2>5. \A j \in W \cup Parts!Range(next.todo) : j # 1
          => \E k \in W : j \in Parts!Range(msg[k].parts)
    BY <1>1, <2>2
  <2> QED BY <1>1, <1>2, <1>3, <2>1, <2>2, <2>3, <2>4, <2>5 DEF Coming, i, todo
<1> QED BY <1>5, <1>6

\* A step numbers the part it comes to.
LEMMA NumberedStep ==
    ASSUME NEW msg, NEW types, NEW leaves, NEW V, NEW i \in DOMAIN msg \ V, NEW next,
           Numbered(msg, types, leaves, V), V \subseteq DOMAIN msg,
           next = IF msg[i].type \in types THEN leaves ELSE Append(leaves, Parts!Leaf(msg, i))
    PROVE  Numbered(msg, types, next, V \cup {i})
<1>1. CASE msg[i].type \in types
  BY <1>1 DEF Numbered
<1>2. CASE msg[i].type \notin types
  <2>1. /\ next = Append(leaves, Parts!Leaf(msg, i))
        /\ leaves \in Seq(Leafs(msg)) /\ Parts!Leaf(msg, i) \in Leafs(msg)
    BY <1>2 DEF Numbered, Leafs
  <2> DEFINE n == Len(leaves)
  <2>2. n \in Nat /\ DOMAIN leaves = 1..n
    BY <2>1, LenProperties
  <2>3. /\ next \in Seq(Leafs(msg))
        /\ Len(next) = n + 1
        /\ \A l \in 1..n : next[l] = leaves[l]
        /\ next[n + 1] = Parts!Leaf(msg, i)
    BY <2>1, AppendProperties
  <2>4. DOMAIN next = 1..(n + 1)
    BY <2>3, LenProperties
  <2>5. Parts!Leaf(msg, i).at = i
    BY DEF Parts!Leaf
  <2> HIDE DEF n
  <2>6. \A l \in DOMAIN next : l \in 1..n \/ l = n + 1
    BY <2>2, <2>4
  <2>7. \A l \in 1..n : next[l].at \in V /\ next[l].at # i
    BY <2>2, <2>3 DEF Numbered
  <2>8. next[n + 1].at = i
    BY <2>3, <2>5
  <2>9. \A l \in DOMAIN next :
          /\ next[l].at \in V \cup {i}
          /\ msg[next[l].at].type \notin types
          /\ next[l] = Parts!Leaf(msg, next[l].at)
    <3>1. ASSUME NEW l \in 1..n
          PROVE  /\ next[l].at \in V \cup {i}
                 /\ msg[next[l].at].type \notin types
                 /\ next[l] = Parts!Leaf(msg, next[l].at)
      BY <2>2, <2>3 DEF Numbered
    <3> QED BY <1>2, <2>3, <2>6, <2>8, <3>1
  <2>10. \A k, l \in DOMAIN next : next[k].at = next[l].at => k = l
    <3>1. \A k, l \in 1..n : next[k].at = next[l].at => k = l
      BY <2>2, <2>3 DEF Numbered
    <3> QED BY <2>6, <2>7, <2>8, <3>1
  <2>11. \A j \in V \cup {i} : msg[j].type \notin types => \E l \in DOMAIN next : next[l].at = j
    <3>1. \A j \in V : msg[j].type \notin types => \E l \in 1..n : next[l].at = j
      BY <2>2, <2>3 DEF Numbered
    <3>2. 1..n \subseteq DOMAIN next /\ n + 1 \in DOMAIN next
      BY <2>2, <2>4
    <3> QED BY <2>8, <3>1, <3>2
  <2> QED BY <2>3, <2>9, <2>10, <2>11 DEF Numbered
<1> QED BY <1>1, <1>2

\* A step builds the node of the part it comes to.
LEMMA BuiltStep ==
    ASSUME NEW msg, NEW types, NEW leaves, NEW nodes, NEW V, NEW i \in DOMAIN msg \ V,
           Numbered(msg, types, leaves, V), Built(msg, types, leaves, nodes, V),
           NEW next, NEW more,
           next = IF msg[i].type \in types THEN leaves ELSE Append(leaves, Parts!Leaf(msg, i)),
           more = nodes \cup {Parts!Node(msg, i, IF msg[i].type \in types THEN Absent
                                                 ELSE Len(leaves) + 1)}
    PROVE  Built(msg, types, next, more, V \cup {i})
<1>1. CASE msg[i].type \in types
  <2>1. next = leaves /\ more = nodes \cup {Parts!Node(msg, i, Absent)}
    BY <1>1
  <2> QED BY <1>1, <2>1 DEF Built
<1>2. CASE msg[i].type \notin types
  <2> DEFINE n == Len(leaves)
  <2>1. /\ next = Append(leaves, Parts!Leaf(msg, i))
        /\ more = nodes \cup {Parts!Node(msg, i, n + 1)}
        /\ leaves \in Seq(Leafs(msg)) /\ Parts!Leaf(msg, i) \in Leafs(msg)
    BY <1>2 DEF Numbered, Leafs
  <2>2. n \in Nat /\ DOMAIN leaves = 1..n
    BY <2>1, LenProperties
  <2>3. /\ next \in Seq(Leafs(msg))
        /\ Len(next) = n + 1
        /\ \A l \in 1..n : next[l] = leaves[l]
        /\ next[n + 1] = Parts!Leaf(msg, i)
    BY <2>1, AppendProperties
  <2>4. DOMAIN next = 1..(n + 1)
    BY <2>3, LenProperties
  <2>5. next[n + 1].at = i
    BY <2>3 DEF Parts!Leaf
  <2> HIDE DEF n
  <2>6. \A l : l \in DOMAIN next <=> l \in 1..n \/ l = n + 1
    BY <2>2, <2>4
  <2>7. \A e : e \in more <=> e \in nodes \/ e = Parts!Node(msg, i, n + 1)
    BY <2>1
  <2>8. \A e : (\E l \in DOMAIN next : e = Parts!Node(msg, next[l].at, l)) <=>
                 \/ \E l \in DOMAIN leaves : e = Parts!Node(msg, leaves[l].at, l)
                 \/ e = Parts!Node(msg, i, n + 1)
    BY <2>2, <2>3, <2>5, <2>6
  <2>9. \A e :
          (\E j \in V \cup {i} : msg[j].type \in types /\ e = Parts!Node(msg, j, Absent)) <=>
                 \E j \in V : msg[j].type \in types /\ e = Parts!Node(msg, j, Absent)
    BY <1>2
  <2>10. \A e : e \in nodes <=>
          \/ \E j \in V : msg[j].type \in types /\ e = Parts!Node(msg, j, Absent)
          \/ \E l \in DOMAIN leaves : e = Parts!Node(msg, leaves[l].at, l)
    BY DEF Built
  <2>11. \A e : e \in more <=>
          \/ \E j \in V \cup {i} : msg[j].type \in types /\ e = Parts!Node(msg, j, Absent)
          \/ \E l \in DOMAIN next : e = Parts!Node(msg, next[l].at, l)
    <3>1. SUFFICES ASSUME NEW e
                   PROVE  e \in more <=>
                            \/ \E j \in V \cup {i} :
                                   msg[j].type \in types /\ e = Parts!Node(msg, j, Absent)
                            \/ \E l \in DOMAIN next : e = Parts!Node(msg, next[l].at, l)
      OBVIOUS
    <3>2. e \in more <=> e \in nodes \/ e = Parts!Node(msg, i, n + 1)
      BY <2>7
    <3>3. (\E l \in DOMAIN next : e = Parts!Node(msg, next[l].at, l)) <=>
             \/ \E l \in DOMAIN leaves : e = Parts!Node(msg, leaves[l].at, l)
             \/ e = Parts!Node(msg, i, n + 1)
      BY <2>8
    <3>4. (\E j \in V \cup {i} : msg[j].type \in types /\ e = Parts!Node(msg, j, Absent)) <=>
             \E j \in V : msg[j].type \in types /\ e = Parts!Node(msg, j, Absent)
      BY <2>9
    <3>5. e \in nodes <=>
             \/ \E j \in V : msg[j].type \in types /\ e = Parts!Node(msg, j, Absent)
             \/ \E l \in DOMAIN leaves : e = Parts!Node(msg, leaves[l].at, l)
      BY <2>10
    <3> QED BY <3>2, <3>3, <3>4, <3>5, Zenon
  <2> QED BY <2>11 DEF Built
<1> QED BY <1>1, <1>2

\* The states of a walk.
Walks(msg) ==
    [todo   : Seq(DOMAIN msg),
     leaves : Seq(Leafs(msg)),
     nodes  : SUBSET {Parts!Node(msg, e[1], e[2]) : e \in (DOMAIN msg) \X (Nat \cup {Absent})}]

\* A step of a walk that enters the parts of these types and counts the others.
Step(msg, types, walk, next) ==
    IF walk.todo = << >> THEN next = walk
    ELSE LET i == Head(walk.todo)
         IN  /\ next.todo = IF msg[i].type \in types THEN msg[i].parts \o Tail(walk.todo)
                            ELSE Tail(walk.todo)
             /\ next.leaves = IF msg[i].type \in types THEN walk.leaves
                              ELSE Append(walk.leaves, Parts!Leaf(msg, i))

\* A step of the walk that builds nodes.
NodesStep(msg, types, walk, next) ==
    IF walk.todo = << >> THEN next = walk
    ELSE LET i == Head(walk.todo)
         IN  next.nodes = walk.nodes \cup
                 {Parts!Node(msg, i,
                     IF msg[i].type \in types THEN Absent ELSE Len(walk.leaves) + 1)}

\* g has where a walk is after each of its steps.
Trail(msg, types, g) ==
    /\ g \in [0..Len(msg) -> Walks(msg)]
    /\ g[0] = Parts!Started
    /\ \A k \in 1..Len(msg) : Step(msg, types, g[k - 1], g[k])

NodesTrail(msg, types, g) ==
    \A k \in 1..Len(msg) : NodesStep(msg, types, g[k - 1], g[k])

\* A walk starts with the root to do.
LEMMA StartedIs ==
    ASSUME NEW msg, Parts!IsMessage(msg)
    PROVE  Parts!Started \in Walks(msg)
<1>1. 1 \in DOMAIN msg
  <2>1. DOMAIN msg = 1..Len(msg) /\ Len(msg) \in Nat \ {0}
    BY PartsAre
  <2> QED BY <2>1
<1>2. <<1>> \in Seq(DOMAIN msg) /\ << >> \in Seq(Leafs(msg))
  BY <1>1
<1> QED BY <1>2 DEF Walks, Parts!Started

\* The step of _iter_leaf_parts enters multiparts and message parts.
LEMMA WalkedIs ==
    ASSUME NEW msg, Parts!IsMessage(msg), NEW walk \in Walks(msg), walk.todo # << >>
    PROVE  /\ Parts!Walked(msg, walk) \in Walks(msg)
           /\ Step(msg, FullTypes, walk, Parts!Walked(msg, walk))
<1> DEFINE i == Head(walk.todo)
<1>1. /\ walk.todo \in Seq(DOMAIN msg) /\ walk.leaves \in Seq(Leafs(msg))
      /\ walk.nodes \in SUBSET {Parts!Node(msg, e[1], e[2]) :
             e \in (DOMAIN msg) \X (Nat \cup {Absent})}
      /\ walk = [todo |-> walk.todo, leaves |-> walk.leaves, nodes |-> walk.nodes]
  BY DEF Walks
<1>2. i \in DOMAIN msg /\ Tail(walk.todo) \in Seq(DOMAIN msg)
  BY <1>1, HeadTailProperties
<1>3. msg[i].parts \in Seq(DOMAIN msg)
  BY <1>2, PartsAre
<1>4. Parts!Leaf(msg, i) \in Leafs(msg)
  BY <1>2 DEF Leafs
<1>5. msg[i].parts \o Tail(walk.todo) \in Seq(DOMAIN msg)
  BY <1>2, <1>3, ConcatProperties
<1>6. Append(walk.leaves, Parts!Leaf(msg, i)) \in Seq(Leafs(msg))
  BY <1>1, <1>4, AppendProperties
<1>7. Parts!IsMultipart(msg[i]) <=> msg[i].type \in FullTypes
  BY DEF Parts!IsMultipart, FullTypes
<1> DEFINE parts == msg[i].parts \o Tail(walk.todo)
           more == Append(walk.leaves, Parts!Leaf(msg, i))
           rest == Tail(walk.todo)
           next == Parts!Walked(msg, walk)
<1>8. next = IF msg[i].type \in FullTypes THEN [walk EXCEPT !.todo = parts]
             ELSE [walk EXCEPT !.todo = rest, !.leaves = more]
  BY <1>7 DEF Parts!Walked
<1>9. parts \in Seq(DOMAIN msg) /\ rest \in Seq(DOMAIN msg) /\ more \in Seq(Leafs(msg))
  BY <1>2, <1>5, <1>6
<1>10. /\ next.todo = IF msg[i].type \in FullTypes THEN parts ELSE rest
       /\ next.leaves = IF msg[i].type \in FullTypes THEN walk.leaves ELSE more
  <2> HIDE DEF parts, more, rest, next, i
  <2> QED BY <1>1, <1>8
<1>11. Step(msg, FullTypes, walk, next)
  BY <1>10 DEF Step
<1>12. next \in Walks(msg)
  <2> HIDE DEF parts, more, rest, next, i
  <2> QED BY <1>8, <1>9 DEF Walks
<1> QED BY <1>11, <1>12

\* That of _walk_native enters multiparts and message/rfc822 only.
LEMMA WalkedNativeIs ==
    ASSUME NEW msg, Parts!IsMessage(msg), NEW walk \in Walks(msg), walk.todo # << >>
    PROVE  /\ Parts!WalkedNative(msg, walk) \in Walks(msg)
           /\ Step(msg, NativeTypes, walk, Parts!WalkedNative(msg, walk))
           /\ NodesStep(msg, NativeTypes, walk, Parts!WalkedNative(msg, walk))
<1> DEFINE i == Head(walk.todo)
           inside == msg[i].type \in NativeTypes
           S == {Parts!Node(msg, e[1], e[2]) : e \in (DOMAIN msg) \X (Nat \cup {Absent})}
<1>1. /\ walk.todo \in Seq(DOMAIN msg) /\ walk.leaves \in Seq(Leafs(msg))
      /\ walk.nodes \in SUBSET S
      /\ walk = [todo |-> walk.todo, leaves |-> walk.leaves, nodes |-> walk.nodes]
  BY DEF Walks
<1>2. i \in DOMAIN msg /\ Tail(walk.todo) \in Seq(DOMAIN msg)
  BY <1>1, HeadTailProperties
<1>3. msg[i].parts \in Seq(DOMAIN msg)
  BY <1>2, PartsAre
<1>4. Parts!Leaf(msg, i) \in Leafs(msg)
  BY <1>2 DEF Leafs
<1>5. Len(walk.leaves) + 1 \in Nat
  BY <1>1, LenProperties
<1>6. Parts!IsNativeMulti(msg[i]) <=> inside
  BY DEF Parts!IsNativeMulti, NativeTypes
<1> DEFINE parts == msg[i].parts \o Tail(walk.todo)
           more == Append(walk.leaves, Parts!Leaf(msg, i))
           rest == Tail(walk.todo)
           none == walk.nodes \cup {Parts!Node(msg, i, Absent)}
           some == walk.nodes \cup {Parts!Node(msg, i, Len(walk.leaves) + 1)}
           next == Parts!WalkedNative(msg, walk)
<1>7. parts \in Seq(DOMAIN msg)
  BY <1>2, <1>3, ConcatProperties
<1>8. more \in Seq(Leafs(msg))
  BY <1>1, <1>4, AppendProperties
<1>9. none \in SUBSET S /\ some \in SUBSET S
  <2>1. \A id \in Nat \cup {Absent} : Parts!Node(msg, i, id) \in S
    <3>1. SUFFICES ASSUME NEW id \in Nat \cup {Absent} PROVE Parts!Node(msg, i, id) \in S
      OBVIOUS
    <3>2. /\ <<i, id>> \in (DOMAIN msg) \X (Nat \cup {Absent})
          /\ <<i, id>>[1] = i /\ <<i, id>>[2] = id
      BY <1>2
    <3> QED BY <3>2
  <2> HIDE DEF S
  <2> QED BY <1>1, <1>5, <2>1
<1>10. next = IF inside
              THEN [todo |-> parts, leaves |-> walk.leaves, nodes |-> none]
              ELSE [todo |-> rest, leaves |-> more, nodes |-> some]
  <2>1. next = IF inside THEN Parts!Entered(msg, i, walk) ELSE Parts!Counted(msg, i, walk)
    BY <1>6 DEF Parts!WalkedNative
  <2>2. Parts!Entered(msg, i, walk) = [todo |-> parts, leaves |-> walk.leaves, nodes |-> none]
    <3>1. Parts!Entered(msg, i, walk) = [walk EXCEPT !.todo = parts, !.nodes = none]
      BY DEF Parts!Entered
    <3> HIDE DEF parts, none, i
    <3> QED BY <1>1, <3>1
  <2>3. Parts!Counted(msg, i, walk) = [todo |-> rest, leaves |-> more, nodes |-> some]
    BY DEF Parts!Counted
  <2> HIDE DEF next, parts, more, rest, none, some
  <2> QED BY <2>1, <2>2, <2>3
<1>11. rest \in Seq(DOMAIN msg)
  BY <1>2
<1>12. /\ next.todo = IF inside THEN parts ELSE rest
       /\ next.leaves = IF inside THEN walk.leaves ELSE more
       /\ next.nodes = IF inside THEN none ELSE some
  <2> HIDE DEF parts, more, rest, next, none, some
  <2> QED BY <1>10
<1>13. next \in Walks(msg)
  <2> HIDE DEF parts, more, rest, next, none, some, S, i
  <2>1. CASE inside
    BY <1>1, <1>7, <1>8, <1>9, <1>10, <1>11, <2>1 DEF Walks, S
  <2>2. CASE ~inside
    BY <1>1, <1>7, <1>8, <1>9, <1>10, <1>11, <2>2 DEF Walks, S
  <2> QED BY <2>1, <2>2
<1>14. Step(msg, NativeTypes, walk, next)
  BY <1>12 DEF Step
<1>15. NodesStep(msg, NativeTypes, walk, next)
  <2>1. CASE inside
    BY <1>12, <2>1 DEF NodesStep
  <2>2. CASE ~inside
    BY <1>12, <2>2 DEF NodesStep
  <2> QED BY <2>1, <2>2
<1> QED BY <1>13, <1>14, <1>15

\* IterLeafParts is the end of a trail.
LEMMA IterIs ==
    ASSUME NEW msg, Parts!IsMessage(msg)
    PROVE  \E g : Trail(msg, FullTypes, g) /\ Parts!IterLeafParts(msg) = g[Len(msg)].leaves
<1> DEFINE n == Len(msg)
           R == Walks(msg)
           step(x) == IF x.todo = << >> THEN x ELSE Parts!Walked(msg, x)
           B == [k \in 1..n |-> [x \in R |-> step(x)]]
           walk == CHOOSE g : g = [k \in 0..n |->
                       IF k = 0 THEN Parts!Started
                       ELSE IF g[k - 1].todo = << >> THEN g[k - 1]
                           ELSE Parts!Walked(msg, g[k - 1])]
<1>1. n \in Nat
  BY PartsAre
<1>2. Parts!Started \in R
  BY StartedIs
<1>3. ASSUME NEW x \in R PROVE step(x) \in R
  BY <1>3, WalkedIs
<1>4. \A k \in 1..n, x \in R : B[k][x] = step(x)
  OBVIOUS
<1>5. IsStepUp(n, R, B)
  <2> HIDE DEF step, R, B
  <2> QED BY <1>3, <1>4 DEF IsStepUp
<1>6. DefinedUp(n, R, Parts!Started, B)
  <2> HIDE DEF B, R, n
  <2> QED BY <1>1, <1>2, <1>5, RecursionUp
<1>7. PICK g \in [0..n -> R] :
        \A k \in 0..n : g[k] = IF k = 0 THEN Parts!Started ELSE B[k][g[k - 1]]
  BY <1>6 DEF DefinedUp
<1>8. \A k \in 0..n : g[k] = IF k = 0 THEN Parts!Started ELSE step(g[k - 1])
  <2>1. SUFFICES ASSUME NEW k \in 0..n, k # 0 PROVE g[k] = step(g[k - 1])
    BY <1>7
  <2>2. k \in 1..n /\ k - 1 \in 0..n
    BY <1>1, <2>1
  <2>3. g[k - 1] \in R
    BY <2>2
  <2> HIDE DEF step, R, B
  <2> QED BY <1>4, <1>7, <2>1, <2>2, <2>3
<1>9. g = [k \in 0..n |-> IF k = 0 THEN Parts!Started
                          ELSE IF g[k - 1].todo = << >> THEN g[k - 1]
                              ELSE Parts!Walked(msg, g[k - 1])]
  <2> HIDE DEF R, B, n
  <2> QED BY <1>8
<1>10. walk = [k \in 0..n |-> IF k = 0 THEN Parts!Started
                    ELSE IF walk[k - 1].todo = << >> THEN walk[k - 1]
                        ELSE Parts!Walked(msg, walk[k - 1])]
  BY <1>9
<1>11. Parts!IterLeafParts(msg) = walk[n].leaves
  BY DEF Parts!IterLeafParts
<1> HIDE DEF walk, n, B, R
<1>12. \A k \in 0..n : walk[k] = IF k = 0 THEN Parts!Started ELSE step(walk[k - 1])
  BY <1>10
<1>13. \A k \in 0..n : walk[k] \in R
  <2> DEFINE T == {k \in Nat : k <= n => walk[k] \in R}
  <2>1. 0 \in T
    BY <1>1, <1>2, <1>12
  <2>2. ASSUME NEW k \in Nat, k \in T PROVE k + 1 \in T
    <3>1. SUFFICES ASSUME k + 1 <= n PROVE walk[k + 1] \in R
      OBVIOUS
    <3>2. k + 1 \in 0..n /\ k + 1 # 0 /\ k + 1 - 1 = k /\ walk[k] \in R
      BY <1>1, <2>2, <3>1
    <3>3. walk[k + 1] = step(walk[k])
      BY <1>12, <3>2
    <3> HIDE DEF step
    <3> QED BY <1>3, <3>2, <3>3
  <2>3. Nat \subseteq T
    <3> HIDE DEF T
    <3> QED BY <2>1, <2>2, Induction
  <2> QED BY <1>1, <2>3
<1>14. walk \in [0..n -> R]
  <2>1. walk = [k \in 0..n |-> walk[k]]
    BY <1>10
  <2> QED BY <1>13, <2>1
<1>15. ASSUME NEW k \in 1..n PROVE Step(msg, FullTypes, walk[k - 1], walk[k])
  <2>1. k \in 0..n /\ k # 0 /\ k - 1 \in 0..n
    BY <1>1
  <2>2. walk[k] = step(walk[k - 1]) /\ walk[k - 1] \in R
    BY <1>12, <1>13, <2>1
  <2>3. CASE walk[k - 1].todo = << >>
    BY <2>2, <2>3 DEF Step
  <2>4. CASE walk[k - 1].todo # << >>
    BY <2>2, <2>4, WalkedIs DEF R
  <2> QED BY <2>3, <2>4
<1>16. Trail(msg, FullTypes, walk)
  <2>1. walk[0] = Parts!Started
    BY <1>1, <1>12
  <2> QED BY <1>14, <1>15, <2>1 DEF Trail, n, R
<1> QED BY <1>11, <1>16 DEF n

\* WalkNative is the end of a trail.
LEMMA NativeIs ==
    ASSUME NEW msg, Parts!IsMessage(msg)
    PROVE  \E g : /\ Trail(msg, NativeTypes, g) /\ NodesTrail(msg, NativeTypes, g)
                  /\ Parts!WalkNative(msg) = g[Len(msg)]
<1> DEFINE n == Len(msg)
           R == Walks(msg)
           step(x) == IF x.todo = << >> THEN x ELSE Parts!WalkedNative(msg, x)
           B == [k \in 1..n |-> [x \in R |-> step(x)]]
           walk == CHOOSE g : g = [k \in 0..n |->
                       IF k = 0 THEN Parts!Started
                       ELSE IF g[k - 1].todo = << >> THEN g[k - 1]
                           ELSE Parts!WalkedNative(msg, g[k - 1])]
<1>1. n \in Nat
  BY PartsAre
<1>2. Parts!Started \in R
  BY StartedIs
<1>3. ASSUME NEW x \in R PROVE step(x) \in R
  BY <1>3, WalkedNativeIs
<1>4. \A k \in 1..n, x \in R : B[k][x] = step(x)
  OBVIOUS
<1>5. IsStepUp(n, R, B)
  <2> HIDE DEF step, R, B
  <2> QED BY <1>3, <1>4 DEF IsStepUp
<1>6. DefinedUp(n, R, Parts!Started, B)
  <2> HIDE DEF B, R, n
  <2> QED BY <1>1, <1>2, <1>5, RecursionUp
<1>7. PICK g \in [0..n -> R] :
        \A k \in 0..n : g[k] = IF k = 0 THEN Parts!Started ELSE B[k][g[k - 1]]
  BY <1>6 DEF DefinedUp
<1>8. \A k \in 0..n : g[k] = IF k = 0 THEN Parts!Started ELSE step(g[k - 1])
  <2>1. SUFFICES ASSUME NEW k \in 0..n, k # 0 PROVE g[k] = step(g[k - 1])
    BY <1>7
  <2>2. k \in 1..n /\ k - 1 \in 0..n
    BY <1>1, <2>1
  <2>3. g[k - 1] \in R
    BY <2>2
  <2> HIDE DEF step, R, B
  <2> QED BY <1>4, <1>7, <2>1, <2>2, <2>3
<1>9. g = [k \in 0..n |-> IF k = 0 THEN Parts!Started
                          ELSE IF g[k - 1].todo = << >> THEN g[k - 1]
                              ELSE Parts!WalkedNative(msg, g[k - 1])]
  <2> HIDE DEF R, B, n
  <2> QED BY <1>8
<1>10. walk = [k \in 0..n |-> IF k = 0 THEN Parts!Started
                    ELSE IF walk[k - 1].todo = << >> THEN walk[k - 1]
                    ELSE Parts!WalkedNative(msg, walk[k - 1])]
  BY <1>9
<1>11. Parts!WalkNative(msg) = walk[n]
  BY DEF Parts!WalkNative
<1> HIDE DEF walk, n, B, R
<1>12. \A k \in 0..n : walk[k] = IF k = 0 THEN Parts!Started ELSE step(walk[k - 1])
  BY <1>10
<1>13. \A k \in 0..n : walk[k] \in R
  <2> DEFINE T == {k \in Nat : k <= n => walk[k] \in R}
  <2>1. 0 \in T
    BY <1>1, <1>2, <1>12
  <2>2. ASSUME NEW k \in Nat, k \in T PROVE k + 1 \in T
    <3>1. SUFFICES ASSUME k + 1 <= n PROVE walk[k + 1] \in R
      OBVIOUS
    <3>2. k + 1 \in 0..n /\ k + 1 # 0 /\ k + 1 - 1 = k /\ walk[k] \in R
      BY <1>1, <2>2, <3>1
    <3>3. walk[k + 1] = step(walk[k])
      BY <1>12, <3>2
    <3> HIDE DEF step
    <3> QED BY <1>3, <3>2, <3>3
  <2>3. Nat \subseteq T
    <3> HIDE DEF T
    <3> QED BY <2>1, <2>2, Induction
  <2> QED BY <1>1, <2>3
<1>14. walk \in [0..n -> R]
  <2>1. walk = [k \in 0..n |-> walk[k]]
    BY <1>10
  <2> QED BY <1>13, <2>1
<1>15. ASSUME NEW k \in 1..n
       PROVE  /\ Step(msg, NativeTypes, walk[k - 1], walk[k])
              /\ NodesStep(msg, NativeTypes, walk[k - 1], walk[k])
  <2>1. k \in 0..n /\ k # 0 /\ k - 1 \in 0..n
    BY <1>1
  <2>2. walk[k] = step(walk[k - 1]) /\ walk[k - 1] \in R
    BY <1>12, <1>13, <2>1
  <2>3. CASE walk[k - 1].todo = << >>
    BY <2>2, <2>3 DEF Step, NodesStep
  <2>4. CASE walk[k - 1].todo # << >>
    BY <2>2, <2>4, WalkedNativeIs DEF R
  <2> QED BY <2>3, <2>4
<1>16. Trail(msg, NativeTypes, walk) /\ NodesTrail(msg, NativeTypes, walk)
  <2>1. walk[0] = Parts!Started
    BY <1>1, <1>12
  <2> QED BY <1>14, <1>15, <2>1 DEF Trail, NodesTrail, n, R
<1> QED BY <1>11, <1>16 DEF n

\* No part that is not walked into has parts.
Closed(msg, types) ==
    \A i \in DOMAIN msg : msg[i].type \notin types => Parts!Range(msg[i].parts) = {}

\* Where a walk is after k steps, its nodes too if it builds them.
Reached(msg, types, builds, walk, k) ==
    \E V : /\ Coming(msg, types, walk, V)
           /\ Numbered(msg, types, walk.leaves, V)
           /\ builds => Built(msg, types, walk.leaves, walk.nodes, V)
           /\ walk.todo = << >> \/ (IsFiniteSet(V) /\ Cardinality(V) = k)

\* A walk that is not over has come to one part more.
LEMMA ReachedStep ==
    ASSUME NEW msg, Parts!IsMessage(msg), NEW types, NEW builds \in BOOLEAN,
           NEW walk, NEW next, NEW k \in Nat,
           Step(msg, types, walk, next), builds => NodesStep(msg, types, walk, next),
           Reached(msg, types, builds, walk, k)
    PROVE  Reached(msg, types, builds, next, k + 1)
<1>1. PICK V : /\ Coming(msg, types, walk, V)
               /\ Numbered(msg, types, walk.leaves, V)
               /\ builds => Built(msg, types, walk.leaves, walk.nodes, V)
               /\ walk.todo = << >> \/ (IsFiniteSet(V) /\ Cardinality(V) = k)
  BY DEF Reached
<1>2. CASE walk.todo = << >>
  <2>1. next = walk
    BY <1>2 DEF Step
  <2> QED BY <1>1, <1>2, <2>1 DEF Reached
<1>3. CASE walk.todo # << >>
  <2> DEFINE i == Head(walk.todo)
             W == V \cup {i}
  <2>1. /\ next.todo = IF msg[i].type \in types THEN msg[i].parts \o Tail(walk.todo)
                       ELSE Tail(walk.todo)
        /\ next.leaves = IF msg[i].type \in types THEN walk.leaves
                         ELSE Append(walk.leaves, Parts!Leaf(msg, i))
    BY <1>3 DEF Step
  <2>2. i \in DOMAIN msg \ V /\ Coming(msg, types, next, W)
    BY <1>1, <1>3, <2>1, ComingStep
  <2>3. V \subseteq DOMAIN msg
    BY <1>1 DEF Coming
  <2> HIDE DEF i
  <2>4. Numbered(msg, types, next.leaves, W)
    BY <1>1, <2>1, <2>2, <2>3, NumberedStep
  <2>5. ASSUME builds PROVE Built(msg, types, next.leaves, next.nodes, W)
    <3>1. next.nodes = walk.nodes \cup
            {Parts!Node(msg, i, IF msg[i].type \in types THEN Absent ELSE Len(walk.leaves) + 1)}
      BY <1>3, <2>5 DEF NodesStep, i
    <3>2. Built(msg, types, walk.leaves, walk.nodes, V)
      BY <1>1, <2>5
    <3> QED BY <1>1, <2>1, <2>2, <3>1, <3>2, BuiltStep
  <2>6. IsFiniteSet(W) /\ Cardinality(W) = k + 1
    <3>1. IsFiniteSet(V) /\ Cardinality(V) = k /\ i \notin V
      BY <1>1, <1>3, <2>2
    <3> QED BY <3>1, FS_AddElement
  <2> HIDE DEF W
  <2> QED BY <2>2, <2>4, <2>5, <2>6 DEF Reached
<1> QED BY <1>2, <1>3

\* After Len(msg) steps a walk has come to Len(msg) parts, or is over.
LEMMA ReachedAll ==
    ASSUME NEW msg, Parts!IsMessage(msg), NEW types, NEW builds \in BOOLEAN, NEW g,
           Trail(msg, types, g), builds => NodesTrail(msg, types, g)
    PROVE  Reached(msg, types, builds, g[Len(msg)], Len(msg))
<1> DEFINE n == Len(msg)
           T == {k \in Nat : k <= n => Reached(msg, types, builds, g[k], k)}
<1>1. n \in Nat /\ 1 \in DOMAIN msg
  <2>1. DOMAIN msg = 1..Len(msg) /\ Len(msg) \in Nat \ {0}
    BY PartsAre
  <2> QED BY <2>1
<1>2. 0 \in T
  <2>1. g[0].todo = <<1>> /\ g[0].leaves = << >> /\ g[0].nodes = {}
    BY DEF Trail, Parts!Started
  <2>2. Parts!Range(<<1>>) = {1} /\ Distinct(<<1>>) /\ <<1>> \in Seq(DOMAIN msg)
    BY <1>1 DEF Parts!Range, Distinct
  <2>3. Coming(msg, types, g[0], {})
    BY <1>1, <2>1, <2>2 DEF Coming
  <2>4. Numbered(msg, types, g[0].leaves, {})
    <3>1. << >> \in Seq(Leafs(msg)) /\ DOMAIN << >> = {}
      OBVIOUS
    <3> QED BY <2>1, <3>1 DEF Numbered
  <2>5. Built(msg, types, g[0].leaves, g[0].nodes, {})
    <3>1. DOMAIN << >> = {}
      OBVIOUS
    <3> QED BY <2>1, <3>1 DEF Built
  <2>6. IsFiniteSet({}) /\ Cardinality({}) = 0
    BY FS_EmptySet
  <2> QED BY <2>3, <2>4, <2>5, <2>6 DEF Reached
<1>3. ASSUME NEW k \in Nat, k \in T PROVE k + 1 \in T
  <2>1. SUFFICES ASSUME k + 1 <= n PROVE Reached(msg, types, builds, g[k + 1], k + 1)
    OBVIOUS
  <2>2. Reached(msg, types, builds, g[k], k)
    BY <1>1, <1>3, <2>1
  <2>3. k + 1 \in 1..Len(msg) /\ k + 1 - 1 = k
    BY <1>1, <2>1
  <2>4. Step(msg, types, g[k], g[k + 1])
    BY <2>3 DEF Trail
  <2>5. builds => NodesStep(msg, types, g[k], g[k + 1])
    BY <2>3 DEF NodesTrail
  <2> QED BY <2>2, <2>4, <2>5, ReachedStep
<1>4. Nat \subseteq T
  <2> HIDE DEF T
  <2> QED BY <1>2, <1>3, Induction
<1> QED BY <1>1, <1>4

\* It is over, and has come to all of them.
LEMMA ReachedEnd ==
    ASSUME NEW msg, Parts!IsMessage(msg), NEW types, Closed(msg, types),
           NEW builds \in BOOLEAN, NEW walk,
           Reached(msg, types, builds, walk, Len(msg))
    PROVE  /\ Numbered(msg, types, walk.leaves, DOMAIN msg)
           /\ builds => Built(msg, types, walk.leaves, walk.nodes, DOMAIN msg)
<1> DEFINE n == Len(msg)
<1>1. DOMAIN msg = 1..n /\ n \in Nat \ {0}
  BY PartsAre
<1>2. PICK V : /\ Coming(msg, types, walk, V)
               /\ Numbered(msg, types, walk.leaves, V)
               /\ builds => Built(msg, types, walk.leaves, walk.nodes, V)
               /\ walk.todo = << >> \/ (IsFiniteSet(V) /\ Cardinality(V) = n)
  BY DEF Reached
<1>3. V \subseteq DOMAIN msg
  BY <1>2 DEF Coming
<1>4. V = DOMAIN msg
  <2>1. CASE walk.todo = << >>
    <3>1. Parts!Range(walk.todo) = {}
      BY <2>1 DEF Parts!Range
    <3>2. /\ 1 \in V
          /\ \A i \in V : msg[i].type \in types => Parts!Range(msg[i].parts) \subseteq V
      BY <1>2, <3>1 DEF Coming
    <3>3. \A i \in V : Parts!Range(msg[i].parts) \subseteq V
      BY <1>3, <3>2 DEF Closed
    <3>4. SUFFICES ASSUME DOMAIN msg \ V # {} PROVE FALSE
      BY <1>3
    <3> DEFINE T == DOMAIN msg \ V
    <3>5. PICK j \in T : \A k \in T : j <= k
      <4>1. T \in SUBSET Nat /\ T # {}
        BY <1>1, <3>4
      <4> HIDE DEF T
      <4> QED BY <4>1, Least
    <3>6. j \in DOMAIN msg /\ j # 1
      BY <3>2
    <3>7. PICK i \in DOMAIN msg : j \in Parts!Range(msg[i].parts) /\ i < j
      BY <3>6, PartsAre
    <3>8. i \in V
      BY <1>1, <3>5, <3>7
    <3> QED BY <3>3, <3>7, <3>8
  <2>2. CASE IsFiniteSet(V) /\ Cardinality(V) = n
    <3>1. IsFiniteSet(1..n) /\ Cardinality(1..n) = n
      <4>1. 1 \in Int /\ n \in Int
        BY <1>1
      <4>2. IsFiniteSet(1..n) /\ Cardinality(1..n) = IF 1 > n THEN 0 ELSE n - 1 + 1
        BY <4>1, FS_Interval
      <4> QED BY <1>1, <4>2
    <3> QED BY <1>1, <1>3, <2>2, <3>1, FS_Subset
  <2> QED BY <1>2, <2>1, <2>2
<1> QED BY <1>2, <1>4

\* IterLeafParts has each leaf once.
LEMMA IterNumbered ==
    ASSUME NEW msg, Parts!IsMessage(msg)
    PROVE  Numbered(msg, FullTypes, Parts!IterLeafParts(msg), DOMAIN msg)
<1>1. PICK g : Trail(msg, FullTypes, g) /\ Parts!IterLeafParts(msg) = g[Len(msg)].leaves
  BY IterIs
<1>2. Closed(msg, FullTypes)
  <2>1. SUFFICES ASSUME NEW i \in DOMAIN msg, msg[i].type \notin FullTypes
                 PROVE  Parts!Range(msg[i].parts) = {}
    BY DEF Closed
  <2>2. ~Parts!IsMultipart(msg[i])
    BY <2>1 DEF Parts!IsMultipart, FullTypes
  <2> QED BY <2>2, PartsAre
<1>3. Reached(msg, FullTypes, FALSE, g[Len(msg)], Len(msg))
  BY <1>1, ReachedAll
<1> QED BY <1>1, <1>2, <1>3, ReachedEnd

\* Of a message whose message/* parts are all message/rfc822 both walks find
\* the same.
LEMMA WalksAgree ==
    ASSUME NEW msg, Parts!IsMessage(msg), ~Parts!HasOpaque(msg)
    PROVE  /\ Parts!WalkNative(msg).leaves = Parts!IterLeafParts(msg)
           /\ Built(msg, FullTypes,
                    Parts!IterLeafParts(msg), Parts!WalkNative(msg).nodes, DOMAIN msg)
<1> DEFINE n == Len(msg)
<1>1. PICK g : Trail(msg, FullTypes, g) /\ Parts!IterLeafParts(msg) = g[n].leaves
  BY IterIs
<1>2. PICK h : /\ Trail(msg, NativeTypes, h) /\ NodesTrail(msg, NativeTypes, h)
               /\ Parts!WalkNative(msg) = h[n]
  BY NativeIs
<1>3. n \in Nat
  BY PartsAre
<1>4. \A i \in DOMAIN msg : msg[i].type \in FullTypes <=> msg[i].type \in NativeTypes
  BY DEF Parts!HasOpaque, FullTypes, NativeTypes
<1>5. \A k \in 0..n : g[k].todo \in Seq(DOMAIN msg)
  BY <1>1 DEF Trail, Walks
<1> DEFINE T == {k \in Nat : k <= n => g[k].todo = h[k].todo /\ g[k].leaves = h[k].leaves}
<1>6. 0 \in T
  BY <1>1, <1>2 DEF Trail
<1>7. ASSUME NEW k \in Nat, k \in T PROVE k + 1 \in T
  <2>1. SUFFICES ASSUME k + 1 <= n
                 PROVE  g[k + 1].todo = h[k + 1].todo /\ g[k + 1].leaves = h[k + 1].leaves
    OBVIOUS
  <2>2. g[k].todo = h[k].todo /\ g[k].leaves = h[k].leaves
    BY <1>3, <1>7, <2>1
  <2>3. k + 1 \in 1..n /\ k + 1 - 1 = k /\ k \in 0..n
    BY <1>3, <2>1
  <2>4. Step(msg, FullTypes, g[k], g[k + 1])
    BY <1>1, <2>3 DEF Trail
  <2>5. Step(msg, NativeTypes, h[k], h[k + 1])
    BY <1>2, <2>3 DEF Trail
  <2>6. CASE g[k].todo = << >>
    BY <2>2, <2>4, <2>5, <2>6 DEF Step
  <2>7. CASE g[k].todo # << >>
    <3> DEFINE i == Head(g[k].todo)
    <3>1. i \in DOMAIN msg
      BY <1>5, <2>3, <2>7, HeadTailProperties
    <3>2. msg[i].type \in FullTypes <=> msg[i].type \in NativeTypes
      BY <1>4, <3>1
    <3> QED BY <2>2, <2>4, <2>5, <2>7, <3>2 DEF Step
  <2> QED BY <2>6, <2>7
<1>8. Nat \subseteq T
  <2> HIDE DEF T
  <2> QED BY <1>6, <1>7, Induction
<1>9. Parts!WalkNative(msg).leaves = Parts!IterLeafParts(msg)
  BY <1>1, <1>2, <1>3, <1>8
<1>10. Closed(msg, NativeTypes)
  <2>1. SUFFICES ASSUME NEW i \in DOMAIN msg, msg[i].type \notin NativeTypes
                 PROVE  Parts!Range(msg[i].parts) = {}
    BY DEF Closed
  <2>2. ~Parts!IsMultipart(msg[i])
    BY <2>1 DEF Parts!IsMultipart, NativeTypes, Parts!HasOpaque
  <2> QED BY <2>2, PartsAre
<1>11. Reached(msg, NativeTypes, TRUE, h[n], n)
  BY <1>2, ReachedAll
<1>12. Built(msg, NativeTypes, h[n].leaves, h[n].nodes, DOMAIN msg)
  BY <1>10, <1>11, ReachedEnd
<1>13. Built(msg, NativeTypes,
             Parts!IterLeafParts(msg), Parts!WalkNative(msg).nodes, DOMAIN msg)
  BY <1>2, <1>9, <1>12
<1>14. Built(msg, FullTypes, Parts!IterLeafParts(msg), Parts!WalkNative(msg).nodes, DOMAIN msg)
  BY <1>4, <1>13 DEF Built
<1> QED BY <1>9, <1>14

\* What a blobId of an Email is good for.
Sound(msg, view) ==
    \A node \in view.structure :
        node.partId # Absent =>
            /\ node.partId \in Nat \ {0}
            /\ Parts!ExtractBlobPart(msg, node.partId) = [raw |-> FALSE, at |-> node.at]

\* The structure of the full view has the numbers of IterLeafParts.
LEMMA StructureIs ==
    ASSUME NEW msg, NEW leaves, Numbered(msg, FullTypes, leaves, DOMAIN msg)
    PROVE  Built(msg, FullTypes, leaves, Parts!BuildBodyStructure(msg, leaves), DOMAIN msg)
<1> DEFINE id(i) == CHOOSE k \in DOMAIN leaves : leaves[k].at = i
<1>1. \A i : Parts!IsMultipart(msg[i]) <=> msg[i].type \in FullTypes
  BY DEF Parts!IsMultipart, FullTypes
<1>2. \A i \in DOMAIN msg : msg[i].type \notin FullTypes =>
        \E k \in DOMAIN leaves : leaves[k].at = i
  BY DEF Numbered
<1>3. \A k \in DOMAIN leaves : /\ leaves[k].at \in DOMAIN msg
                               /\ msg[leaves[k].at].type \notin FullTypes
  BY DEF Numbered
<1>4. \A k, l \in DOMAIN leaves : leaves[k].at = leaves[l].at => k = l
  BY DEF Numbered
<1>5. \A i \in DOMAIN msg : msg[i].type \notin FullTypes =>
        id(i) \in DOMAIN leaves /\ leaves[id(i)].at = i
  BY <1>2
<1>6. \A k \in DOMAIN leaves : id(leaves[k].at) = k
  <2>1. SUFFICES ASSUME NEW k \in DOMAIN leaves PROVE id(leaves[k].at) = k
    OBVIOUS
  <2>2. id(leaves[k].at) \in DOMAIN leaves /\ leaves[id(leaves[k].at)].at = leaves[k].at
    BY <1>3, <1>5
  <2> QED BY <1>4, <2>2
<1>7. \A e : e \in Parts!BuildBodyStructure(msg, leaves) <=>
        \E i \in DOMAIN msg :
           e = Parts!Node(msg, i, IF msg[i].type \in FullTypes THEN Absent ELSE id(i))
  BY <1>1 DEF Parts!BuildBodyStructure
<1> HIDE DEF id
<1>8. \A e :
       (\E i \in DOMAIN msg :
          e = Parts!Node(msg, i, IF msg[i].type \in FullTypes THEN Absent ELSE id(i))) <=>
        \/ \E i \in DOMAIN msg : msg[i].type \in FullTypes /\ e = Parts!Node(msg, i, Absent)
        \/ \E i \in DOMAIN msg : msg[i].type \notin FullTypes /\ e = Parts!Node(msg, i, id(i))
  OBVIOUS
<1>9. \A e :
        (\E i \in DOMAIN msg : msg[i].type \notin FullTypes /\ e = Parts!Node(msg, i, id(i))) <=>
             \E l \in DOMAIN leaves : e = Parts!Node(msg, leaves[l].at, l)
  <2>1. ASSUME NEW e, NEW i \in DOMAIN msg, msg[i].type \notin FullTypes,
               e = Parts!Node(msg, i, id(i))
        PROVE  \E l \in DOMAIN leaves : e = Parts!Node(msg, leaves[l].at, l)
    BY <1>5, <2>1
  <2>2. ASSUME NEW e, NEW l \in DOMAIN leaves, e = Parts!Node(msg, leaves[l].at, l)
        PROVE  \E i \in DOMAIN msg :
                   msg[i].type \notin FullTypes /\ e = Parts!Node(msg, i, id(i))
    BY <1>3, <1>6, <2>2
  <2> QED BY <2>1, <2>2
<1> QED BY <1>7, <1>8, <1>9 DEF Built

\* With those numbers ExtractBlobPart finds what the node is of.
LEMMA BuiltSound ==
    ASSUME NEW msg, Parts!IsMessage(msg), NEW view,
           Built(msg, FullTypes, Parts!IterLeafParts(msg), view.structure, DOMAIN msg)
    PROVE  Sound(msg, view)
<1> DEFINE leaves == Parts!IterLeafParts(msg)
<1>1. SUFFICES ASSUME NEW node \in view.structure, node.partId # Absent
               PROVE  /\ node.partId \in Nat \ {0}
                      /\ Parts!ExtractBlobPart(msg, node.partId)
                             = [raw |-> FALSE, at |-> node.at]
  BY DEF Sound
<1>2. leaves \in Seq(Leafs(msg))
  BY IterNumbered DEF Numbered
<1>3. \/ \E i \in DOMAIN msg : msg[i].type \in FullTypes /\ node = Parts!Node(msg, i, Absent)
      \/ \E l \in DOMAIN leaves : node = Parts!Node(msg, leaves[l].at, l)
  BY DEF Built
<1>4. \A i, id : Parts!Node(msg, i, id).partId = id /\ Parts!Node(msg, i, id).at = i
  BY DEF Parts!Node
<1>5. PICK l \in DOMAIN leaves : node = Parts!Node(msg, leaves[l].at, l)
  BY <1>1, <1>3, <1>4
<1>6. node.partId = l /\ node.at = leaves[l].at
  BY <1>4, <1>5
<1>7. l \in Nat \ {0}
  BY <1>2, LenProperties
<1> QED BY <1>6, <1>7 DEF Parts!ExtractBlobPart, Parts!Whole

\* The first of no numbers is 0.
LEMMA FirstIs ==
    ASSUME NEW S \in SUBSET (Nat \ {0})
    PROVE  IF S = {} THEN Parts!First(S) = 0
               ELSE Parts!First(S) \in S /\ \A l \in S : Parts!First(S) <= l
<1>1. CASE S = {}
  BY <1>1 DEF Parts!First
<1>2. CASE S # {}
  <2>1. \E m \in S : \A k \in S : m <= k
    BY <1>2, Least
  <2> QED BY <1>2, <2>1 DEF Parts!First
<1> QED BY <1>1, <1>2

\* Both classifications find the same bodies if all parts can be read.
LEMMA ClassifiedSame ==
    ASSUME NEW leaves, DOMAIN leaves \subseteq Nat \ {0},
           \A k \in DOMAIN leaves : leaves[k].readable
    PROVE  Parts!ClassifyNativeLeaves(leaves) = Parts!ClassifyLeaves(leaves)
<1>1. \A type : {k \in DOMAIN leaves : Parts!IsBody(leaves[k], type) /\ leaves[k].readable}
                 = {k \in DOMAIN leaves : Parts!IsBody(leaves[k], type)}
  OBVIOUS
<1>2. \A type : Parts!FirstReadable(leaves, type) = Parts!FirstNative(leaves, type)
  BY <1>1 DEF Parts!FirstReadable, Parts!FirstNative
<1>3. ASSUME NEW i \in DOMAIN leaves, NEW type, Parts!IsBody(leaves[i], type)
      PROVE  Parts!FirstReadable(leaves, type) # 0 /\ ~(i < Parts!FirstReadable(leaves, type))
  <2> DEFINE S == {k \in DOMAIN leaves : Parts!IsBody(leaves[k], type)}
  <2>1. S \in SUBSET (Nat \ {0}) /\ i \in S
    BY <1>3
  <2>2. Parts!FirstReadable(leaves, type) = Parts!First(S)
    BY <1>2 DEF Parts!FirstNative
  <2> HIDE DEF S
  <2>3. Parts!First(S) \in S /\ Parts!First(S) <= i
    BY <2>1, FirstIs
  <2>4. Parts!First(S) \in Nat \ {0} /\ i \in Nat
    BY <2>1, <2>3
  <2>5. Parts!First(S) # 0 /\ ~(i < Parts!First(S))
    BY <2>3, <2>4
  <2> QED BY <2>2, <2>5
<1>4. {i \in DOMAIN leaves :
         \/ leaves[i].attached \/ leaves[i].type \notin Parts!Text
         \/ \E type \in Parts!Text :
              LET first == Parts!FirstReadable(leaves, type)
              IN  Parts!IsBody(leaves[i], type) /\ (first = 0 \/ i < first)}
       = {i \in DOMAIN leaves : leaves[i].attached \/ leaves[i].type \notin Parts!Text}
  BY <1>3
<1> QED BY <1>2, <1>4 DEF Parts!ClassifyNativeLeaves, Parts!ClassifyLeaves

\* The light view of such a message is its full view.
LEMMA ViewsAgree ==
    ASSUME NEW msg, Parts!IsMessage(msg), ~Parts!HasOpaque(msg), Parts!Readable(msg)
    PROVE  Parts!BuildHeadersOnly(msg) = Parts!BuildJmapEmail(msg)
<1> DEFINE leaves == Parts!IterLeafParts(msg)
<1>1. /\ Parts!WalkNative(msg).leaves = leaves
      /\ Built(msg, FullTypes, leaves, Parts!WalkNative(msg).nodes, DOMAIN msg)
  BY WalksAgree
<1>2. Numbered(msg, FullTypes, leaves, DOMAIN msg)
  BY IterNumbered
<1>3. Built(msg, FullTypes, leaves, Parts!BuildBodyStructure(msg, leaves), DOMAIN msg)
  BY <1>2, StructureIs
<1>4. Parts!WalkNative(msg).nodes = Parts!BuildBodyStructure(msg, leaves)
  <2>1. \A e : e \in Parts!WalkNative(msg).nodes <=> e \in Parts!BuildBodyStructure(msg, leaves)
    BY <1>1, <1>3 DEF Built
  <2> QED BY <2>1
<1>5. leaves \in Seq(Leafs(msg))
  BY <1>2 DEF Numbered
<1>6. DOMAIN leaves \subseteq Nat \ {0}
  BY <1>5, LenProperties
<1>7. \A k \in DOMAIN leaves : leaves[k].readable
  BY <1>2 DEF Numbered, Parts!Leaf, Parts!Readable
<1>8. Parts!ClassifyNativeLeaves(leaves) = Parts!ClassifyLeaves(leaves)
  <2> HIDE DEF leaves
  <2> QED BY <1>6, <1>7, ClassifiedSame
<1> QED BY <1>1, <1>4, <1>8 DEF Parts!BuildHeadersOnly, Parts!BuildJmapEmail

\* An Email is a view of the message it is of.
Viewed(e) ==
    /\ e.of \in Mime \cup Others /\ e.light \in BOOLEAN
    /\ e.view = IF e.light THEN Parts!BuildHeadersOnly(e.of) ELSE Parts!BuildJmapEmail(e.of)

\* What is at the UID is the message that the Email is of, as long as both
\* have the UIDVALIDITY.
PartsInv ==
    /\ box.uv \in {1, 2} /\ box.message \in Mime \cup Others \cup {Absent}
    /\ got # Absent => email # Absent
    /\ email # Absent =>
          /\ Viewed(email)
          /\ email.uv \in 1..box.uv
          /\ email.uv = box.uv /\ box.message # Absent => box.message = email.of
    /\ Parts!RightPart

\* Whatever view an Email is, what it names can be extracted.
LEMMA ViewedSound ==
    ASSUME Parts!MimeAssumption, NEW e, Viewed(e), ~(e.light /\ Parts!HasOpaque(e.of))
    PROVE  Sound(e.of, e.view)
<1>1. Parts!IsMessage(e.of)
  BY DEF Viewed, Parts!MimeAssumption
<1>2. CASE e.light
  <2>1. e.view.structure = Parts!WalkNative(e.of).nodes
    BY <1>2 DEF Viewed, Parts!BuildHeadersOnly, Parts!View
  <2>2. Built(e.of, FullTypes,
              Parts!IterLeafParts(e.of), Parts!WalkNative(e.of).nodes, DOMAIN e.of)
    BY <1>1, <1>2, WalksAgree
  <2>3. Built(e.of, FullTypes, Parts!IterLeafParts(e.of), e.view.structure, DOMAIN e.of)
    BY <2>1, <2>2
  <2> QED BY <1>1, <2>3, BuiltSound
<1>3. CASE ~e.light
  <2>1. e.view.structure = Parts!BuildBodyStructure(e.of, Parts!IterLeafParts(e.of))
    BY <1>3 DEF Viewed, Parts!BuildJmapEmail, Parts!View
  <2>2. Numbered(e.of, FullTypes, Parts!IterLeafParts(e.of), DOMAIN e.of)
    BY <1>1, IterNumbered
  <2>3. Built(e.of, FullTypes, Parts!IterLeafParts(e.of), e.view.structure, DOMAIN e.of)
    BY <2>1, <2>2, StructureIs
  <2> QED BY <1>1, <2>3, BuiltSound
<1> QED BY <1>2, <1>3

\* A part that the Email names is served, and so is the whole message.
LEMMA ServedRight ==
    ASSUME Parts!MimeAssumption, PartsInv, NEW wanted, NEW index, Parts!Download(wanted, index),
           \/ wanted = [raw |-> TRUE, at |-> 1] /\ index = Parts!Whole
           \/ \E node \in email.view.structure :
                  /\ node.partId # Absent
                  /\ wanted = [raw |-> FALSE, at |-> node.at] /\ index = node.partId
    PROVE  Parts!RightPart'
<1>1. /\ email # Absent /\ email' = email /\ box' = box
      /\ got' = [asked |-> wanted, there |-> box.message # Absent /\ box.uv = email.uv,
                 answer |-> Parts!Serve(email.uv, index)]
  BY DEF Parts!Download
<1>2. SUFFICES ASSUME ~(email.light /\ Parts!HasOpaque(email.of))
               PROVE  \/ got'.answer = [uv |-> email.uv, part |-> got'.asked]
                      \/ got'.answer = Absent /\ ~got'.there
  <2>1. \/ email'.light /\ Parts!HasOpaque(email'.of) /\ got' # Absent
        \/ ~(email.light /\ Parts!HasOpaque(email.of))
        \/ got' = Absent
    BY <1>1
  <2> QED BY <1>1, <2>1 DEF Parts!RightPart, Parts!AnyPart
<1>3. CASE box.message = Absent \/ box.uv # email.uv
  BY <1>1, <1>3 DEF Parts!Serve
<1>4. CASE box.message # Absent /\ box.uv = email.uv
  <2>1. box.message = email.of /\ Viewed(email)
    BY <1>1, <1>4 DEF PartsInv
  <2>2. Sound(email.of, email.view)
    BY <1>2, <2>1, ViewedSound
  <2>3. Parts!ExtractBlobPart(email.of, index) = wanted
    <3>1. CASE wanted = [raw |-> TRUE, at |-> 1] /\ index = Parts!Whole
      BY <3>1 DEF Parts!ExtractBlobPart
    <3>2. CASE \E node \in email.view.structure :
                  /\ node.partId # Absent
                  /\ wanted = [raw |-> FALSE, at |-> node.at] /\ index = node.partId
      BY <2>2, <3>2 DEF Sound
    <3> QED BY <3>1, <3>2
  <2>4. Parts!Serve(email.uv, index) = [uv |-> email.uv, part |-> wanted]
    BY <1>4, <2>1, <2>3 DEF Parts!Serve
  <2> QED BY <1>1, <2>4
<1> QED BY <1>3, <1>4

\* The invariant holds before anything is fetched.
LEMMA PartsInit == ASSUME Parts!MimeAssumption, Parts!Init PROVE PartsInv
BY DEF Parts!Init, PartsInv, Parts!RightPart, Parts!AnyPart

\* Every step keeps it.
LEMMA PartsNext ==
    ASSUME Parts!MimeAssumption, PartsInv, [Parts!Next]_partVars
    PROVE  PartsInv'
<1> USE DEF PartsInv
<1>1. CASE \E light \in BOOLEAN : Parts!Get(light)
  <2>1. PICK light \in BOOLEAN : Parts!Get(light)
    BY <1>1
  <2>2. /\ email = Absent /\ box.message # Absent /\ box' = box /\ got' = got
        /\ email' = [uv |-> box.uv, of |-> box.message, light |-> light,
                     view |-> IF light THEN Parts!BuildHeadersOnly(box.message)
                              ELSE Parts!BuildJmapEmail(box.message)]
    BY <2>1 DEF Parts!Get
  <2>3. got' = Absent
    BY <2>2
  <2>4. Viewed(email')
    BY <2>2 DEF Viewed
  <2>5. email'.uv = box.uv /\ email'.of = box.message
    BY <2>2
  <2>6. Parts!RightPart'
    BY <2>3 DEF Parts!RightPart, Parts!AnyPart
  <2> QED BY <2>2, <2>3, <2>4, <2>5, <2>6
<1>2. CASE email # Absent /\ Parts!Downloads
  <2>1. PICK wanted, index :
          /\ Parts!Download(wanted, index)
          /\ \/ wanted = [raw |-> TRUE, at |-> 1] /\ index = Parts!Whole
             \/ \E node \in email.view.structure :
                    /\ node.partId # Absent
                    /\ wanted = [raw |-> FALSE, at |-> node.at] /\ index = node.partId
    BY <1>2 DEF Parts!Downloads
  <2>2. Parts!RightPart'
    BY <2>1, ServedRight
  <2>3. email # Absent /\ email' = email /\ box' = box
    BY <2>1 DEF Parts!Download
  <2> QED BY <2>2, <2>3 DEF Viewed
<1>3. CASE Parts!Vanish
  <2>1. /\ box.uv = 1 /\ email' = email /\ got' = got
        /\ \/ box'.uv = 1 /\ box'.message = Absent
           \/ box'.uv = 2 /\ box'.message \in Others
    BY <1>3 DEF Parts!Vanish
  <2>2. Parts!RightPart'
    <3>1. \/ got' # Absent /\ email'.light /\ Parts!HasOpaque(email'.of)
          \/ got' # Absent => \/ got'.answer = [uv |-> email'.uv, part |-> got'.asked]
                              \/ got'.answer = Absent /\ ~got'.there
      BY <2>1 DEF Parts!RightPart, Parts!AnyPart
    <3> QED BY <3>1 DEF Parts!RightPart, Parts!AnyPart
  <2> QED BY <2>1, <2>2 DEF Viewed
<1>4. CASE UNCHANGED partVars
  BY <1>4 DEF partVars, Viewed, Parts!RightPart, Parts!AnyPart
<1> QED BY <1>1, <1>2, <1>3, <1>4 DEF Parts!Next

-----------------------------------------------------------------------------
(***************************************************************************)
(* The blobs that a client uploads.                                        *)
(***************************************************************************)
\* The blobs of S have a size.
Sized(S, of) == \A b \in S : of[b].size \in Nat

\* A finite number of them has a finite number of bytes.
LEMMA BytesAre ==
    ASSUME NEW S, IsFiniteSet(S), NEW of, Sized(S, of)
    PROVE  IsFiniteSet(Blobs!Bytes(S, of)) /\ Blobs!Sizes(S, of) \in Nat
<1> DEFINE D == {{b} \X (1..of[b].size) : b \in S}
<1>1. ASSUME NEW b \in S PROVE IsFiniteSet({b} \X (1..of[b].size))
  <2>1. of[b].size \in Nat
    BY DEF Sized
  <2>2. 1 \in Int /\ of[b].size \in Int
    BY <2>1
  <2>3. IsFiniteSet({b}) /\ IsFiniteSet(1..of[b].size)
    BY <2>2, FS_Singleton, FS_Interval
  <2> QED BY <2>3, FS_Product
<1>2. IsFiniteSet(D)
  <2> DEFINE f == [b \in S |-> {b} \X (1..of[b].size)]
  <2>1. f \in Surjection(S, D)
    BY DEF Surjection
  <2> HIDE DEF f, D
  <2> QED BY <2>1, FS_Surjection
<1>3. \A T \in D : IsFiniteSet(T)
  BY <1>1
<1>4. IsFiniteSet(UNION D)
  <2> HIDE DEF D
  <2> QED BY <1>2, <1>3, FS_UNION
<1>5. Blobs!Bytes(S, of) = UNION D
  BY DEF Blobs!Bytes
<1> HIDE DEF D
<1> QED BY <1>4, <1>5, FS_CardinalityType, SameSets DEF Blobs!Sizes

\* The bytes of some blobs.
LEMMA ByteIs ==
    ASSUME NEW S, NEW of, NEW e
    PROVE  e \in Blobs!Bytes(S, of) <=> \E b \in S : \E k \in 1..of[b].size : e = <<b, k>>
<1>1. \A b : e \in {b} \X (1..of[b].size) <=> \E k \in 1..of[b].size : e = <<b, k>>
  OBVIOUS
<1> QED BY <1>1 DEF Blobs!Bytes

\* The sizes of blobs add up.
LEMMA SizesApart ==
    ASSUME NEW S, NEW T, NEW of, IsFiniteSet(S), IsFiniteSet(T), S \cap T = {},
           Sized(S, of), Sized(T, of)
    PROVE  Blobs!Sizes(S \cup T, of) = Blobs!Sizes(S, of) + Blobs!Sizes(T, of)
<1>1. Blobs!Bytes(S \cup T, of) = Blobs!Bytes(S, of) \cup Blobs!Bytes(T, of)
  BY DEF Blobs!Bytes
<1>2. Blobs!Bytes(S, of) \cap Blobs!Bytes(T, of) = {}
  <2>1. SUFFICES ASSUME NEW e, e \in Blobs!Bytes(S, of), e \in Blobs!Bytes(T, of) PROVE FALSE
    OBVIOUS
  <2>2. PICK b \in S : \E k \in 1..of[b].size : e = <<b, k>>
    BY <2>1, ByteIs
  <2>3. PICK c \in T : \E l \in 1..of[c].size : e = <<c, l>>
    BY <2>1, ByteIs
  <2> QED BY <2>2, <2>3
<1>3. /\ IsFiniteSet(Blobs!Bytes(S, of)) /\ IsFiniteSet(Blobs!Bytes(T, of))
      /\ Blobs!Sizes(S, of) \in Nat /\ Blobs!Sizes(T, of) \in Nat
  BY BytesAre
<1>4. Cardinality({}) = 0
  BY FS_EmptySet
<1>5. /\ Blobs!Sizes(S \cup T, of) = Cardinality(Blobs!Bytes(S, of) \cup Blobs!Bytes(T, of))
      /\ Blobs!Sizes(S, of) = Cardinality(Blobs!Bytes(S, of))
      /\ Blobs!Sizes(T, of) = Cardinality(Blobs!Bytes(T, of))
  BY <1>1, SameSets DEF Blobs!Sizes
<1>6. Cardinality(Blobs!Bytes(S, of) \cup Blobs!Bytes(T, of)) =
        Cardinality(Blobs!Bytes(S, of)) + Cardinality(Blobs!Bytes(T, of))
            - Cardinality(Blobs!Bytes(S, of) \cap Blobs!Bytes(T, of))
  BY <1>3, FS_Union
<1>7. Cardinality(Blobs!Bytes(S, of) \cap Blobs!Bytes(T, of)) = 0
  BY <1>2, <1>4
<1>8. \A m, n \in Nat : m + n - 0 = m + n
  OBVIOUS
<1> QED BY <1>3, <1>5, <1>6, <1>7, <1>8

\* They depend on nothing else.
LEMMA SizesSame ==
    ASSUME NEW S, NEW f, NEW g, \A b \in S : f[b] = g[b]
    PROVE  Blobs!Sizes(S, f) = Blobs!Sizes(S, g)
BY DEF Blobs!Sizes, Blobs!Bytes

\* One blob has its size.
LEMMA SizesOne ==
    ASSUME NEW b, NEW of, of[b].size \in Nat
    PROVE  Blobs!Sizes({b}, of) = of[b].size
<1> DEFINE n == of[b].size
           f == [k \in 1..n |-> <<b, k>>]
<1>1. Blobs!Bytes({b}, of) = {b} \X (1..n)
  BY DEF Blobs!Bytes
<1>2. IsFiniteSet({b}) /\ Cardinality({b}) = 1
  BY FS_Singleton
<1>3. IsFiniteSet(1..n) /\ Cardinality(1..n) = n
  <2>1. 1 \in Int /\ n \in Int
    OBVIOUS
  <2>2. IsFiniteSet(1..n) /\ Cardinality(1..n) = IF 1 > n THEN 0 ELSE n - 1 + 1
    BY <2>1, FS_Interval
  <2> QED BY <2>2
<1>4. Cardinality({b} \X (1..n)) = Cardinality({b}) * Cardinality(1..n)
  BY <1>2, <1>3, FS_Product
<1>5. Cardinality({b} \X (1..n)) = n
  <2>1. n \in Nat
    OBVIOUS
  <2> HIDE DEF n
  <2>2. 1 * n = n
    BY <2>1
  <2> QED BY <1>2, <1>3, <1>4, <2>2
<1> QED BY <1>1, <1>5, SameSets DEF Blobs!Sizes

-----------------------------------------------------------------------------
\* The cache holds what was granted, but for blobs that have expired, and the
\* total is the size of what it holds.
StagedInv ==
    /\ count \in Nat /\ now \in Nat
    /\ IsFiniteSet(DOMAIN granted)
    /\ DOMAIN granted \subseteq 1..count
    /\ \A b \in DOMAIN granted : granted[b].size \in Nat /\ granted[b].until \in Nat
    /\ DOMAIN entries \subseteq DOMAIN granted
    /\ \A b \in DOMAIN entries : entries[b] = granted[b]
    /\ \A b \in DOMAIN granted : b \notin DOMAIN entries => granted[b].until <= now
    /\ total = Blobs!Sizes(DOMAIN entries, entries)
    /\ Blobs!Staged

\* A sweep leaves what is in force.
LEMMA SweptIs ==
    ASSUME StagedInv
    PROVE  /\ DOMAIN Blobs!Swept.entries = Blobs!InForce
           /\ \A b \in Blobs!InForce : Blobs!Swept.entries[b] = granted[b]
           /\ Blobs!Swept.total = Blobs!Sizes(Blobs!InForce, granted)
           /\ IsFiniteSet(Blobs!InForce)
<1> DEFINE kept == DOMAIN entries \ Blobs!Expired
<1>1. kept = Blobs!InForce
  BY DEF StagedInv, Blobs!Expired, Blobs!InForce
<1>2. /\ Blobs!Swept.entries = Blobs!Restrict(entries, kept)
      /\ Blobs!Swept.total = total - Blobs!Sizes(Blobs!Expired, entries)
  BY DEF Blobs!Swept
<1>3. /\ DOMAIN Blobs!Swept.entries = Blobs!InForce
      /\ \A b \in Blobs!InForce : Blobs!Swept.entries[b] = granted[b]
  BY <1>1, <1>2 DEF Blobs!Restrict, StagedInv
<1>4. IsFiniteSet(DOMAIN entries)
  BY FS_Subset DEF StagedInv
<1>5. IsFiniteSet(Blobs!InForce) /\ IsFiniteSet(Blobs!Expired)
  BY <1>1, <1>4, FS_Subset DEF Blobs!Expired
<1>6. Sized(Blobs!InForce, entries) /\ Sized(Blobs!Expired, entries)
  BY <1>1 DEF Sized, StagedInv, Blobs!Expired
<1>7. Blobs!InForce \cap Blobs!Expired = {} /\ Blobs!InForce \cup Blobs!Expired = DOMAIN entries
  BY <1>1 DEF Blobs!Expired
<1>8. total = Blobs!Sizes(Blobs!InForce, entries) + Blobs!Sizes(Blobs!Expired, entries)
  BY <1>5, <1>6, <1>7, SizesApart DEF StagedInv
<1>9. Blobs!Sizes(Blobs!InForce, entries) \in Nat /\ Blobs!Sizes(Blobs!Expired, entries) \in Nat
  BY <1>5, <1>6, BytesAre
<1>10. Blobs!Sizes(Blobs!InForce, entries) = Blobs!Sizes(Blobs!InForce, granted)
  <2>1. \A b \in Blobs!InForce : entries[b] = granted[b]
    BY <1>1 DEF StagedInv
  <2> QED BY <2>1, SizesSame
<1>11. \A m, n \in Nat : m + n - n = m
  OBVIOUS
<1>12. Blobs!Swept.total = Blobs!Sizes(Blobs!InForce, entries)
  BY <1>2, <1>8, <1>9, <1>11
<1> QED BY <1>3, <1>5, <1>10, <1>12

\* An upload keeps the invariant.
LEMMA StagedUpload ==
    ASSUME Blobs!BlobAssumption, StagedInv, NEW size \in Size, Blobs!Upload(size)
    PROVE  StagedInv'
<1> DEFINE fits  == Blobs!Swept.total + size <= MaxTotal
           blob == [size |-> size, until |-> now + Ttl]
           new   == count + 1
<1>1. /\ DOMAIN Blobs!Swept.entries = Blobs!InForce
      /\ \A b \in Blobs!InForce : Blobs!Swept.entries[b] = granted[b]
      /\ Blobs!Swept.total = Blobs!Sizes(Blobs!InForce, granted)
      /\ IsFiniteSet(Blobs!InForce)
  BY SweptIs
<1>2. size \in Nat /\ blob.size \in Nat /\ blob.until \in Nat
  BY DEF Blobs!BlobAssumption, StagedInv
<1>3. new \in Nat /\ new \notin DOMAIN granted /\ new \notin Blobs!InForce
  BY DEF StagedInv, Blobs!InForce
<1>4. now' = now /\ reply' = [to |-> "upload", size |-> size, accepted |-> fits]
  BY DEF Blobs!Upload
<1>5. /\ Blobs!InForce \subseteq DOMAIN granted
      /\ \A b \in DOMAIN granted : b \in Blobs!InForce <=> now < granted[b].until
  BY DEF Blobs!InForce
<1>6. CASE fits
  <2>1. /\ entries' = Blobs!Put(Blobs!Swept.entries, new, blob)
        /\ total' = Blobs!Swept.total + size
        /\ granted' = Blobs!Put(granted, new, blob)
        /\ count' = new
    BY <1>6 DEF Blobs!Upload
  <2>2. /\ DOMAIN entries' = Blobs!InForce \cup {new}
        /\ DOMAIN granted' = DOMAIN granted \cup {new}
        /\ \A b \in DOMAIN granted : granted'[b] = granted[b]
        /\ granted'[new] = blob /\ entries'[new] = blob
        /\ \A b \in Blobs!InForce : entries'[b] = granted[b]
    <3> HIDE DEF new, blob
    <3> QED BY <1>1, <1>3, <1>5, <2>1 DEF Blobs!Put
  <2>3. total' = Blobs!Sizes(DOMAIN entries', entries')
    <3>1. Sized(Blobs!InForce, entries') /\ Sized({new}, entries')
      BY <1>2, <1>5, <2>2 DEF Sized, StagedInv
    <3>2. IsFiniteSet({new}) /\ Blobs!InForce \cap {new} = {}
      BY <1>3, FS_Singleton
    <3>3. Blobs!Sizes(Blobs!InForce \cup {new}, entries')
            = Blobs!Sizes(Blobs!InForce, entries') + Blobs!Sizes({new}, entries')
      <4> HIDE DEF new
      <4> QED BY <1>1, <3>1, <3>2, SizesApart
    <3>4. Blobs!Sizes({new}, entries') = size
      <4>1. entries'[new].size = size
        BY <2>2
      <4> HIDE DEF new
      <4> QED BY <1>2, <4>1, SizesOne
    <3>5. Blobs!Sizes(Blobs!InForce, entries') = Blobs!Sizes(Blobs!InForce, granted)
      BY <2>2, SizesSame
    <3> QED BY <1>1, <2>1, <2>2, <3>3, <3>4, <3>5
  <2>4. Blobs!Staged'
    <3>1. Blobs!InForce' \ {new} = Blobs!InForce
      <4>1. Blobs!InForce' = {b \in DOMAIN granted' : now < granted'[b].until}
        BY <1>4 DEF Blobs!InForce
      <4> HIDE DEF new
      <4> QED BY <1>3, <1>5, <2>2, <4>1
    <3>2. Blobs!Sizes(Blobs!InForce, granted') = Blobs!Sizes(Blobs!InForce, granted)
      <4>1. \A b \in Blobs!InForce : granted'[b] = granted[b]
        BY <1>5, <2>2
      <4> QED BY <4>1, SizesSame
    <3>3. Blobs!Sizes(Blobs!InForce' \ {count'}, granted') = Blobs!Swept.total
      BY <1>1, <2>1, <3>1, <3>2
    <3> QED BY <1>4, <1>6, <3>3 DEF Blobs!Staged
  <2>5. /\ count' \in Nat /\ now' \in Nat
        /\ IsFiniteSet(DOMAIN granted')
        /\ DOMAIN granted' \subseteq 1..count'
    <3>1. IsFiniteSet(DOMAIN granted \cup {new})
      BY FS_AddElement DEF StagedInv
    <3> QED BY <1>3, <1>4, <2>1, <2>2, <3>1 DEF StagedInv
  <2>6. \A b \in DOMAIN granted' : granted'[b].size \in Nat /\ granted'[b].until \in Nat
    <3> HIDE DEF new, blob
    <3> QED BY <1>2, <2>2 DEF StagedInv
  <2>7. /\ DOMAIN entries' \subseteq DOMAIN granted'
        /\ \A b \in DOMAIN entries' : entries'[b] = granted'[b]
        /\ \A b \in DOMAIN granted' : b \notin DOMAIN entries' => granted'[b].until <= now'
    <3>1. \A b \in DOMAIN granted : b \notin Blobs!InForce => granted[b].until <= now
      BY <1>5 DEF StagedInv
    <3> HIDE DEF new, blob
    <3> QED BY <1>4, <1>5, <2>2, <3>1
  <2> QED BY <2>3, <2>4, <2>5, <2>6, <2>7 DEF StagedInv
<1>7. CASE ~fits
  <2>1. /\ entries' = Blobs!Swept.entries
        /\ total' = Blobs!Swept.total
        /\ granted' = granted
        /\ count' = count
    BY <1>7 DEF Blobs!Upload
  <2>2. Blobs!InForce' = Blobs!InForce
    BY <1>4, <2>1 DEF Blobs!InForce
  <2>3. total' = Blobs!Sizes(DOMAIN entries', entries')
    BY <1>1, <2>1, SizesSame
  <2>4. Blobs!Staged'
    BY <1>1, <1>4, <1>7, <2>1, <2>2 DEF Blobs!Staged
  <2>5. \A b \in DOMAIN granted : b \notin Blobs!InForce => granted[b].until <= now
    BY <1>5 DEF StagedInv
  <2> QED BY <1>1, <1>4, <1>5, <2>1, <2>3, <2>4, <2>5 DEF StagedInv
<1> QED BY <1>6, <1>7

\* So does a read.
LEMMA StagedRead ==
    ASSUME StagedInv, NEW b, Blobs!Read(b)
    PROVE  StagedInv'
<1>1. /\ DOMAIN Blobs!Swept.entries = Blobs!InForce
      /\ \A c \in Blobs!InForce : Blobs!Swept.entries[c] = granted[c]
      /\ Blobs!Swept.total = Blobs!Sizes(Blobs!InForce, granted)
  BY SweptIs
<1>2. /\ entries' = Blobs!Swept.entries
      /\ total' = Blobs!Swept.total
      /\ reply' = [to |-> "read", blob |-> b, found |-> b \in DOMAIN Blobs!Swept.entries]
      /\ now' = now /\ granted' = granted /\ count' = count
  BY DEF Blobs!Read
<1>3. /\ Blobs!InForce \subseteq DOMAIN granted
      /\ \A c \in DOMAIN granted : c \notin Blobs!InForce => granted[c].until <= now
  BY DEF Blobs!InForce, StagedInv
<1>4. Blobs!InForce' = Blobs!InForce
  BY <1>2 DEF Blobs!InForce
<1>5. total' = Blobs!Sizes(DOMAIN entries', entries')
  BY <1>1, <1>2, SizesSame
<1>6. Blobs!Staged'
  BY <1>1, <1>2, <1>4 DEF Blobs!Staged
<1> QED BY <1>1, <1>2, <1>3, <1>5, <1>6 DEF StagedInv

\* So does every step.
LEMMA StagedNext ==
    ASSUME Blobs!BlobAssumption, StagedInv, [Blobs!Next]_blobVars
    PROVE  StagedInv'
<1>1. ASSUME NEW size \in Size, Blobs!Upload(size) PROVE StagedInv'
  BY <1>1, StagedUpload
<1>2. ASSUME NEW b \in 1..count, Blobs!Read(b) PROVE StagedInv'
  BY <1>2, StagedRead
<1>3. CASE Blobs!Tick
  <2>1. Blobs!Staged'
    BY <1>3 DEF Blobs!Tick, Blobs!Staged
  <2> QED BY <1>3, <2>1 DEF Blobs!Tick, StagedInv
<1>4. CASE Blobs!Restart
  <2>1. Blobs!Staged'
    BY <1>4 DEF Blobs!Restart, Blobs!Staged
  <2>2. DOMAIN << >> = {} /\ IsFiniteSet({}) /\ Cardinality({}) = 0
    BY FS_EmptySet
  <2>3. Blobs!Sizes({}, << >>) = 0
    <3>1. Blobs!Bytes({}, << >>) = {}
      BY DEF Blobs!Bytes
    <3> QED BY <2>2, <3>1, SameSets DEF Blobs!Sizes
  <2> QED BY <1>4, <2>1, <2>2, <2>3 DEF Blobs!Restart, StagedInv
<1>5. CASE UNCHANGED blobVars
  <2>1. entries' = entries /\ total' = total /\ now' = now /\ granted' = granted
        /\ count' = count /\ reply' = reply
    BY <1>5 DEF blobVars
  <2> QED BY <2>1 DEF StagedInv, Blobs!Staged, Blobs!InForce
<1> QED BY <1>1, <1>2, <1>3, <1>4, <1>5 DEF Blobs!Next

-----------------------------------------------------------------------------
(***************************************************************************)
(* The theorems about what a client reads.                                 *)
(***************************************************************************)
\* The invariant of Email/query, while a query is asked.
LEMMA QueryInvariance ==
    ReadSpec => [](asked # Absent => OrderedInv /\ TrustedInv)
<1>1. ReadInit => (asked # Absent => OrderedInv /\ TrustedInv)
  BY DEF ReadInit, QueryRests, Queries!Init, OrderedInv, TrustedInv, InCase,
         Queries!Ordered, Queries!InOrder, Queries!Trusted, Queries!Exact, Queries!Answered
<1>2. (asked # Absent => OrderedInv /\ TrustedInv)
        /\ [ReadNext]_<<queryVars, partVars, blobVars>>
        => (asked # Absent => OrderedInv /\ TrustedInv)'
  <2>1. SUFFICES ASSUME asked # Absent => OrderedInv /\ TrustedInv,
                        [ReadNext]_<<queryVars, partVars, blobVars>>
                 PROVE  (asked # Absent => OrderedInv /\ TrustedInv)'
    OBVIOUS
  <2>2. CASE asked # Absent /\ Queries!Next
    BY <2>1, <2>2, ReadingConstants, OrderedNext, TrustedNext
  <2>3. CASE UNCHANGED queryVars
    <3>1. mail' = mail /\ asked' = asked /\ answer' = answer
      BY <2>3 DEF queryVars
    <3> QED BY <2>1, <2>3, <3>1, ReadingConstants, OrderedNext, TrustedNext
  <2> QED BY <2>1, <2>2, <2>3 DEF ReadNext, queryVars
<1> QED BY <1>1, <1>2, PTL DEF ReadSpec

\* However a filter's operators are nested, an answer has exactly the messages
\* that the filter matches, if one SEARCH can express it (email.py:382).
THEOREM AnswersAreExact == ReadSpec => []Trusted
<1>1. (asked # Absent => OrderedInv /\ TrustedInv) => Trusted
  BY DEF TrustedInv, Trusted
<1> QED BY <1>1, QueryInvariance, PTL

\* An answer is in the order the client asked for, by any number of keys that
\* the bridge fetches, whether the server sorts or the bridge (email.py:536).
THEOREM AnswersAreInOrder == ReadSpec => []Ordered
<1>1. (asked # Absent => OrderedInv /\ TrustedInv) => Ordered
  BY DEF OrderedInv, Ordered
<1> QED BY <1>1, QueryInvariance, PTL

\* The invariant of the parts.
LEMMA PartsInvariance == ReadSpec => []PartsInv
<1>1. ReadInit => PartsInv
  <2>1. PartsRest => PartsInv
    BY DEF PartsRest, PartsInv, Parts!RightPart, Parts!AnyPart
  <2> QED BY <2>1, ReadingConstants, PartsInit DEF ReadInit
<1>2. PartsInv /\ [ReadNext]_<<queryVars, partVars, blobVars>> => PartsInv'
  <2>1. [ReadNext]_<<queryVars, partVars, blobVars>> => [Parts!Next]_partVars
    BY DEF ReadNext
  <2> QED BY <2>1, ReadingConstants, PartsNext
<1> QED BY <1>1, <1>2, PTL DEF ReadSpec

\* Whatever MIME tree a message has, and whatever became of it or its mailbox,
\* a part that a client downloads is the one that its Email named, or it is
\* told that the message is gone, unless it was named
\* by the BODYSTRUCTURE of a message with a message/* part other than
\* message/rfc822, which its walk does not enter (email_map.py:6).
THEOREM PartsAreServed == ReadSpec => []RightPart
<1>1. PartsInv => RightPart
  BY DEF PartsInv, RightPart
<1> QED BY <1>1, PartsInvariance, PTL

\* The walk of the BODYSTRUCTURE and that of the parsed message number the
\* parts of every MIME tree alike, and find the same bodies, if the message has no
\* message/* part but message/rfc822 and its text can be decoded
\* (email_map.py:532).
THEOREM ViewsAreTheSame == ReadSpec => []SameView
<1>1. PartsInv => SameView
  <2>1. SUFFICES ASSUME PartsInv, email # Absent, Parts!Readable(email.of),
                        ~Parts!HasOpaque(email.of)
                 PROVE  email.view = Parts!BuildJmapEmail(email.of)
    BY DEF SameView, Parts!SameView
  <2>2. Viewed(email) /\ Parts!IsMessage(email.of)
    BY <2>1, ReadingConstants DEF PartsInv, Viewed, Parts!MimeAssumption
  <2> QED BY <2>1, <2>2, ViewsAgree DEF Viewed
<1> QED BY <1>1, PartsInvariance, PTL

\* The invariant of the blobs.
LEMMA BlobsInvariance == ReadSpec => []StagedInv
<1>1. ReadInit => StagedInv
  <2>1. SUFFICES ASSUME ReadInit PROVE StagedInv
    OBVIOUS
  <2>2. /\ entries = << >> /\ total = 0 /\ now = 0 /\ granted = << >> /\ count = 0
        /\ reply.to \notin {"read", "upload"}
    BY <2>1 DEF ReadInit, BlobsRest, Blobs!Init
  <2>3. DOMAIN << >> = {} /\ IsFiniteSet({}) /\ Cardinality({}) = 0
    BY FS_EmptySet
  <2>4. Blobs!Sizes({}, << >>) = 0
    <3>1. Blobs!Bytes({}, << >>) = {}
      BY DEF Blobs!Bytes
    <3> QED BY <2>3, <3>1, SameSets DEF Blobs!Sizes
  <2> QED BY <2>2, <2>3, <2>4 DEF StagedInv, Blobs!Staged
<1>2. StagedInv /\ [ReadNext]_<<queryVars, partVars, blobVars>> => StagedInv'
  <2>1. [ReadNext]_<<queryVars, partVars, blobVars>> => [Blobs!Next]_blobVars
    BY DEF ReadNext
  <2> QED BY <2>1, ReadingConstants, StagedNext
<1> QED BY <1>1, <1>2, PTL DEF ReadSpec

\* In whatever order blobs are uploaded, read, expire and are swept, one is
\* found exactly as long as it has not expired, and an upload refused exactly
\* when those that have not leave no room (blob_cache.py:9).
THEOREM BlobsAreKept == ReadSpec => []Staged
<1>1. StagedInv => Staged
  BY DEF StagedInv, Staged
<1> QED BY <1>1, BlobsInvariance, PTL
=============================================================================
