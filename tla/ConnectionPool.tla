--------------------------- MODULE ConnectionPool ---------------------------
(***************************************************************************)
(* The IMAP connection pool (pool.py) as one account sees it: the entry of *)
(* _idle and of _open_count for one PoolKey, the tasks that run checkout() *)
(* under that key, the condition they wait on, and the sweep task.         *)
(*                                                                         *)
(* asyncio is cooperative, and no critical section of `async with          *)
(* self._condition` awaits anything but _condition.wait() (stop() is the   *)
(* exception, see Stop), so each section is one atomic action.  Every      *)
(* await is a point where other tasks run: it separates two actions.       *)
(*                                                                         *)
(* The condition is shared by every account: OtherAccountNotifies is the   *)
(* notify_all of a checkout under another key.                             *)
(*                                                                         *)
(* An idle list is a set here: _acquire pops the first entry whose         *)
(* password hash matches, the model any of them.                           *)
(***************************************************************************)
EXTENDS Integers, FiniteSets

CONSTANTS
    Task,            \* the asyncio tasks that check connections out
    Conn,            \* identities of IMAP connections
    Password,        \* the SHA-256 hashes of the passwords presented
    None,            \* no connection, no password
    MaxPerUser,      \* connection_pool_max_per_user
    IdleEviction,    \* idle_eviction_seconds, in ticks
    SweepInterval,   \* SWEEP_INTERVAL_SECONDS, in ticks
    AcquireTimeout   \* ACQUIRE_TIMEOUT_SECONDS, in ticks

ASSUME PoolAssumption ==
    /\ IsFiniteSet(Task)
    /\ IsFiniteSet(Conn)
    /\ None \notin Conn
    /\ None \notin Password
    /\ MaxPerUser \in Nat
    /\ IdleEviction \in Nat
    /\ SweepInterval \in Nat \ {0}
    /\ AcquireTimeout \in Nat \ {0}

VARIABLES
    pc,       \* where each task is in checkout()
    pw,       \* password_hash of the checkout in progress
    held,     \* the connection a task was given and has not let go
    entry,    \* entry[c]: password_hash of c's idle _Entry, None if not idle
    age,      \* age[c]: ticks since last_used, while idle
    auth,     \* auth[c]: the password c logged in with (not kept by the code)
    open,     \* _open_count
    leaked,   \* slots whose connect was cancelled (not kept by the code)
    closing,  \* connections whose logout() is running
    running,  \* connections with a worker thread inside an IMAP command
    timer,    \* ticks left of a waiter's wait_for
    sweeper,  \* the sweep task: off, sleeping, or awaiting logouts
    sweepIn   \* ticks until the sweep task wakes up

taskVars == <<pc, pw, held, timer>>
connVars == <<entry, age, auth, closing, running>>
slotVars == <<open, leaked>>
sweepVars == <<sweeper, sweepIn>>
vars == <<taskVars, connVars, slotVars, sweepVars>>

-----------------------------------------------------------------------------
Idle == {c \in Conn : entry[c] # None}

\* The tasks that own one of the account's slots.
Holders == {t \in Task : pc[t] \in {"connecting", "using"}}

Waiting == {t \in Task : pc[t] = "waiting"}

\* Connections that exist on the server.
Live == Idle \cup closing \cup ({held[t] : t \in Task} \ {None})

Fresh == Conn \ (Live \cup running)

\* notify_all: every waiter's future is done, its task will run again.
Notified(f) == [t \in Task |-> IF f[t] = "waiting" THEN "notified" ELSE f[t]]

\* Leave checkout() without a connection.
Leave(t, f) ==
    /\ pc' = [f EXCEPT ![t] = "out"]
    /\ pw' = [pw EXCEPT ![t] = None]
    /\ timer' = [timer EXCEPT ![t] = 0]

Init ==
    /\ pc = [t \in Task |-> "out"]
    /\ pw = [t \in Task |-> None]
    /\ held = [t \in Task |-> None]
    /\ entry = [c \in Conn |-> None]
    /\ age = [c \in Conn |-> 0]
    /\ auth = [c \in Conn |-> None]
    /\ open = 0
    /\ leaked = 0
    /\ closing = {}
    /\ running = {}
    /\ timer = [t \in Task |-> 0]
    /\ sweeper = "off"
    /\ sweepIn = SweepInterval

-----------------------------------------------------------------------------
(***************************************************************************)
(* One pass of the `while True` loop of _acquire: reuse, or evict the      *)
(* stale entries and take a slot, or wait.                                 *)
(***************************************************************************)
\* Mutant: the hashes are not compared.
MatchingAny(p) == Idle

Matching(p) == {c \in Idle : entry[c] = p}

\* Mutant: the entry is read with entries[i], not popped.
ReusePeeked(t, p) ==
    \E c \in Matching(p) :
        /\ pc' = [pc EXCEPT ![t] = "using"]
        /\ held' = [held EXCEPT ![t] = c]
        /\ timer' = [timer EXCEPT ![t] = 0]
        /\ UNCHANGED <<connVars, slotVars, sweepVars>>

Reuse(t, p) ==
    \E c \in Matching(p) :
        /\ pc' = [pc EXCEPT ![t] = "using"]
        /\ held' = [held EXCEPT ![t] = c]
        /\ timer' = [timer EXCEPT ![t] = 0]
        /\ entry' = [entry EXCEPT ![c] = None]
        /\ age' = [age EXCEPT ![c] = 0]
        /\ UNCHANGED <<auth, closing, running, slotVars, sweepVars>>

EvictStale ==
    /\ entry' = [c \in Conn |-> None]
    /\ age' = [c \in Conn |-> 0]

\* Mutant: the cap is compared with <=.
TakeSlotPastCap(t, p) ==
    /\ Matching(p) = {}
    /\ open - Cardinality(Idle) <= MaxPerUser
    /\ open' = open - Cardinality(Idle) + 1
    /\ EvictStale
    /\ closing' = closing \cup Idle
    /\ pc' = [pc EXCEPT ![t] = "connecting"]
    /\ timer' = [timer EXCEPT ![t] = 0]
    /\ UNCHANGED <<held, auth, running, leaked, sweepVars>>

\* The slot is free for others as soon as the entry is evicted; its logout
\* is a task of its own that runs later.
TakeSlot(t, p) ==
    /\ Matching(p) = {}
    /\ open - Cardinality(Idle) < MaxPerUser
    /\ open' = open - Cardinality(Idle) + 1
    /\ EvictStale
    /\ closing' = closing \cup Idle
    /\ pc' = [pc EXCEPT ![t] = "connecting"]
    /\ timer' = [timer EXCEPT ![t] = 0]
    /\ UNCHANGED <<held, auth, running, leaked, sweepVars>>

\* Evicted entries would stay in the local list `stale` while the task
\* waits, to be logged out later; Capacity says the list is empty here.
WaitForSlot(t, p) ==
    /\ Matching(p) = {}
    /\ open - Cardinality(Idle) >= MaxPerUser
    /\ open' = open - Cardinality(Idle)
    /\ EvictStale
    /\ pc' = [pc EXCEPT ![t] = "waiting"]
    /\ timer' = [timer EXCEPT ![t] = AcquireTimeout]
    /\ UNCHANGED <<held, auth, closing, running, leaked, sweepVars>>

Attempt(t, p) == Reuse(t, p) \/ TakeSlot(t, p) \/ WaitForSlot(t, p)

Checkout(t, p) ==
    /\ pc[t] = "out"
    /\ sweeper # "off"
    /\ pw' = [pw EXCEPT ![t] = p]
    /\ Attempt(t, p)

\* The wait() of a notified task returns, and the loop runs once more: a
\* pass that waits again starts a new wait_for with the whole timeout.
Retry(t) ==
    /\ pc[t] = "notified"
    /\ Attempt(t, pw[t])
    /\ UNCHANGED pw

AcquireTimedOut(t) ==
    /\ pc[t] \in {"waiting", "notified"}
    /\ timer[t] = 0
    /\ Leave(t, pc)
    /\ UNCHANGED <<held, connVars, slotVars, sweepVars>>

WaitCancelled(t) ==
    /\ pc[t] \in {"waiting", "notified"}
    /\ Leave(t, pc)
    /\ UNCHANGED <<held, connVars, slotVars, sweepVars>>

-----------------------------------------------------------------------------
(***************************************************************************)
(* connect_and_login runs outside the lock, in a worker thread.            *)
(***************************************************************************)
Connected(t) ==
    /\ pc[t] = "connecting"
    /\ \E c \in Fresh :
        /\ held' = [held EXCEPT ![t] = c]
        /\ auth' = [auth EXCEPT ![c] = pw[t]]
    /\ pc' = [pc EXCEPT ![t] = "using"]
    /\ UNCHANGED <<pw, timer, entry, age, closing, running, slotVars, sweepVars>>

\* Mutant: the failure path forgets notify_all().
ConnectFailedSilently(t) ==
    /\ pc[t] = "connecting"
    /\ open' = open - 1
    /\ Leave(t, pc)
    /\ UNCHANGED <<held, connVars, leaked, sweepVars>>

ConnectFailed(t) ==
    /\ pc[t] = "connecting"
    /\ open' = open - 1
    /\ Leave(t, Notified(pc))
    /\ UNCHANGED <<held, connVars, leaked, sweepVars>>

\* CancelledError is not an Exception: the handler that gives the slot back
\* does not run.
ConnectCancelled(t) ==
    /\ pc[t] = "connecting"
    /\ leaked' = leaked + 1
    /\ Leave(t, pc)
    /\ UNCHANGED <<held, connVars, open, sweepVars>>

-----------------------------------------------------------------------------
(***************************************************************************)
(* The body of `async with pool.checkout(...)`.                            *)
(***************************************************************************)
StartCommand(t) ==
    /\ pc[t] = "using"
    /\ held[t] \notin running
    /\ running' = running \cup {held[t]}
    /\ UNCHANGED <<taskVars, entry, age, auth, closing, slotVars, sweepVars>>

EndCommand(c) ==
    /\ c \in running
    /\ running' = running \ {c}
    /\ UNCHANGED <<taskVars, entry, age, auth, closing, slotVars, sweepVars>>

\* Mutant: the connection is put back without notify_all().
ReturnOkSilently(t) ==
    /\ pc[t] = "using"
    /\ held[t] \notin running
    /\ entry' = [entry EXCEPT ![held[t]] = pw[t]]
    /\ age' = [age EXCEPT ![held[t]] = 0]
    /\ held' = [held EXCEPT ![t] = None]
    /\ Leave(t, pc)
    /\ UNCHANGED <<auth, closing, running, slotVars, sweepVars>>

ReturnOk(t) ==
    /\ pc[t] = "using"
    /\ held[t] \notin running
    /\ entry' = [entry EXCEPT ![held[t]] = pw[t]]
    /\ age' = [age EXCEPT ![held[t]] = 0]
    /\ held' = [held EXCEPT ![t] = None]
    /\ Leave(t, Notified(pc))
    /\ UNCHANGED <<auth, closing, running, slotVars, sweepVars>>

\* The finally block with ok = False: the slot is given up first, then the
\* task awaits logout() of its connection.
GiveUp(t) ==
    /\ open' = open - 1
    /\ pc' = [Notified(pc) EXCEPT ![t] = "closing"]
    /\ closing' = closing \cup {held[t]}
    /\ UNCHANGED <<pw, held, timer, entry, age, auth, running, leaked, sweepVars>>

BodyFailed(t) ==
    /\ pc[t] = "using"
    /\ held[t] \notin running
    /\ GiveUp(t)

\* Mutant: the code before the fix the comment of checkout() tells of, an
\* `except ImapError` that a cancelled body slips past.
BodyCancelledLeaks(t) ==
    /\ pc[t] = "using"
    /\ held' = [held EXCEPT ![t] = None]
    /\ Leave(t, pc)
    /\ UNCHANGED <<connVars, slotVars, sweepVars>>

\* Mutant: `ok` starts as True, so a cancelled body returns its connection.
BodyCancelledReturns(t) ==
    /\ pc[t] = "using"
    /\ entry' = [entry EXCEPT ![held[t]] = pw[t]]
    /\ held' = [held EXCEPT ![t] = None]
    /\ Leave(t, Notified(pc))
    /\ UNCHANGED <<age, auth, closing, running, slotVars, sweepVars>>

\* The thread of a command in progress is not cancelled with its task.
BodyCancelled(t) ==
    /\ pc[t] = "using"
    /\ GiveUp(t)

\* A logout ends; a task that awaited it leaves checkout().
Logout(c) ==
    /\ c \in closing
    /\ closing' = closing \ {c}
    /\ auth' = [auth EXCEPT ![c] = None]
    /\ LET done == {t \in Task : held[t] = c}
       IN /\ pc' = [t \in Task |-> IF t \in done THEN "out" ELSE pc[t]]
          /\ pw' = [t \in Task |-> IF t \in done THEN None ELSE pw[t]]
          /\ held' = [t \in Task |-> IF t \in done THEN None ELSE held[t]]
    /\ UNCHANGED <<timer, entry, age, running, slotVars, sweepVars>>

-----------------------------------------------------------------------------
OtherAccountNotifies ==
    /\ Waiting # {}
    /\ pc' = Notified(pc)
    /\ UNCHANGED <<pw, held, timer, connVars, slotVars, sweepVars>>

Expired == {c \in Idle : age[c] > IdleEviction}

Sweep ==
    /\ sweeper = "sleeping"
    /\ sweepIn = 0
    /\ entry' = [c \in Conn |-> IF c \in Expired THEN None ELSE entry[c]]
    /\ age' = [c \in Conn |-> IF c \in Expired THEN 0 ELSE age[c]]
    /\ open' = open - Cardinality(Expired)
    /\ closing' = closing \cup Expired
    /\ pc' = Notified(pc)
    /\ sweeper' = "logout"
    /\ UNCHANGED <<pw, held, timer, auth, running, leaked, sweepIn>>

\* _sweep_once has logged out what it evicted, here and for the other
\* accounts: the loop sleeps again.
SweepDone ==
    /\ sweeper = "logout"
    /\ sweeper' = "sleeping"
    /\ sweepIn' = SweepInterval
    /\ UNCHANGED <<taskVars, connVars, slotVars>>

\* Time passes.  The event loop is prompt: a due timer and a task that can
\* run do so before the clock moves on.
Tick ==
    /\ sweeper # "off"
    /\ sweeper = "sleeping" => sweepIn > 0
    /\ \A t \in Task : pc[t] # "notified" /\ (pc[t] = "waiting" => timer[t] > 0)
    /\ sweepIn' = IF sweeper = "sleeping" THEN sweepIn - 1 ELSE sweepIn
    /\ timer' = [t \in Task |-> IF pc[t] = "waiting" THEN timer[t] - 1 ELSE timer[t]]
    /\ age' = [c \in Conn |-> IF c \in Idle /\ age[c] <= IdleEviction
                              THEN age[c] + 1 ELSE age[c]]
    /\ UNCHANGED <<pc, pw, held, entry, auth, closing, running, slotVars, sweeper>>

Start ==
    /\ sweeper = "off"
    /\ sweeper' = "sleeping"
    /\ sweepIn' = SweepInterval
    /\ UNCHANGED <<taskVars, connVars, slotVars>>

\* stop() holds the lock while it logs the idle connections out, so nothing
\* of the pool runs in between.  The server calls it at shutdown, when every
\* request has ended.
Stop ==
    /\ sweeper # "off"
    /\ \A t \in Task : pc[t] = "out"
    /\ sweeper' = "off"
    /\ entry' = [c \in Conn |-> None]
    /\ age' = [c \in Conn |-> 0]
    /\ auth' = [c \in Conn |-> IF c \in Idle THEN None ELSE auth[c]]
    /\ open' = 0
    /\ leaked' = 0
    /\ UNCHANGED <<taskVars, closing, running, sweepIn>>

-----------------------------------------------------------------------------
TaskStep(t) ==
    \/ \E p \in Password : Checkout(t, p)
    \/ Retry(t) \/ AcquireTimedOut(t) \/ WaitCancelled(t)
    \/ Connected(t) \/ ConnectFailed(t) \/ ConnectCancelled(t)
    \/ StartCommand(t) \/ ReturnOk(t) \/ BodyFailed(t) \/ BodyCancelled(t)

Next ==
    \/ \E t \in Task : TaskStep(t)
    \/ \E c \in Conn : EndCommand(c) \/ Logout(c)
    \/ OtherAccountNotifies
    \/ Sweep \/ SweepDone \/ Tick
    \/ Start \/ Stop

Spec == Init /\ [][Next]_vars

-----------------------------------------------------------------------------
TypeOK ==
    /\ pc \in [Task -> {"out", "waiting", "notified", "connecting", "using", "closing"}]
    /\ pw \in [Task -> Password \cup {None}]
    /\ held \in [Task -> Conn \cup {None}]
    /\ entry \in [Conn -> Password \cup {None}]
    /\ age \in [Conn -> 0..IdleEviction + 1]
    /\ auth \in [Conn -> Password \cup {None}]
    /\ open \in Int
    /\ leaked \in Nat
    /\ closing \subseteq Conn
    /\ running \subseteq Conn
    /\ timer \in [Task -> 0..AcquireTimeout]
    /\ sweeper \in {"off", "sleeping", "logout"}
    /\ sweepIn \in 0..SweepInterval
-----------------------------------------------------------------------------
(***************************************************************************)
(* Safety.                                                                 *)
(***************************************************************************)
\* client.py: an ImapConnection "is not safe for concurrent use", and "pool.py
\* is responsible for exclusive checkout": no two tasks have the same
\* connection, and the connection of a running body is neither in the idle
\* list nor being logged out by the sweep or by an eviction.
ExclusiveUse ==
    /\ \A t, u \in Task : t # u /\ held[t] = held[u] => held[t] = None
    /\ \A t \in Task : pc[t] = "using" => held[t] \notin Idle \cup closing

\* An idle connection has no command in flight, however the bodies that used
\* it before ended: the reply of one request's command is never read by the
\* next request's.
IdleQuiescent == Idle \cap running = {}

\* A rotated password is not masked by an old session: whatever connections
\* were pooled, evicted and reused before, a body runs on a connection that
\* logged in with the very password its request presented.
OwnSession == \A t \in Task : pc[t] = "using" => auth[held[t]] = pw[t]

\* _open_count is the number of idle connections and of tasks that hold a
\* slot, plus the slots lost to cancelled connects: no other path of
\* checkout(), _acquire(), the sweep or stop() loses or double-frees one.
SlotAccounting == open = Cardinality(Idle) + Cardinality(Holders) + leaked

\* Never more than max_per_user connections pooled, in use or being opened.
Capacity == Cardinality(Idle) + Cardinality(Holders) <= MaxPerUser

\* While a task is suspended in _condition.wait() and nobody has woken it,
\* there is nothing it could take: the pool is full and nothing is idle.
NoLostWakeup == Waiting # {} => Idle = {} /\ open >= MaxPerUser

-----------------------------------------------------------------------------
(***************************************************************************)
(* Liveness.  Every command ends (the socket timeout bounds it) and so do  *)
(* connects, logouts and bodies; a body issues finitely many commands,     *)
(* hence strong fairness of its end.  Nothing is assumed of the sweep, of  *)
(* the clock, or of arrivals.                                              *)
(***************************************************************************)
PoolFairness ==
    /\ \A t \in Task :
        /\ WF_vars(Retry(t))
        /\ WF_vars(Connected(t) \/ ConnectFailed(t))
        /\ SF_vars(ReturnOk(t) \/ BodyFailed(t))
    /\ \A c \in Conn : WF_vars(EndCommand(c)) /\ WF_vars(Logout(c))

FairSpec == Spec /\ PoolFairness

Arrival == \E t \in Task, p \in Password : Checkout(t, p)

\* As long as a slot is left and new requests do not keep arriving to take
\* it first, every checkout that waits comes to an end, by the wakeups of
\* the tasks that leave alone, with no help from the sweep or the timeout.
ServedIfArrivalsStop ==
    <>[][~Arrival]_vars /\ [](leaked < MaxPerUser)
        => \A t \in Task : pc[t] = "waiting" ~> pc[t] = "out"
-----------------------------------------------------------------------------
(***************************************************************************)
(* The pool implements BoundedLease.                                       *)
(***************************************************************************)
Lease == INSTANCE BoundedLease WITH
    Bound <- MaxPerUser,
    granted <- Holders,
    lease <- [t \in Task |-> IF pc[t] = "using" THEN held[t] ELSE None]

\* Every step of checkout(), the sweep, stop() and the rest is a grant, an
\* opening or a release of a bounded, exclusive lease, or invisible to the
\* callers.
ImplementsLease == Lease!Spec

-----------------------------------------------------------------------------
(***************************************************************************)
(* What the comments claim and the code does not do.                       *)
(***************************************************************************)
\* pool.py:110: "`finally` covers every exception type, so the slot is always
\* released one way or another."  False: a connect that is cancelled keeps
\* its slot.
SlotAlwaysReleased ==
    (\A t \in Task : pc[t] = "out") => open = Cardinality(Idle)

\* pool.py:91: a fresh connection is opened "up to `max_per_user` concurrent".
\* False: a slot is given up before the connection that had it logs out, so
\* the server sees more.
ServerSideCap == Cardinality(Live) <= MaxPerUser

\* client.py:6: a connection "is not safe for concurrent use", "`pool.py` is
\* responsible for exclusive checkout".  False: checkout() logs a connection
\* out while the worker thread of the cancelled command still uses it.
OneThreadPerConnection == closing \cap running = {}

\* The clock runs, the sweep and the event loop do their work.
ClockFairness ==
    /\ WF_vars(Tick) /\ WF_vars(Sweep) /\ WF_vars(SweepDone)
    /\ \A t \in Task : WF_vars(Retry(t)) /\ WF_vars(AcquireTimedOut(t))

ClockSpec == Spec /\ ClockFairness

\* pool.py:164: a waiter "surfaces as a clear error after
\* ACQUIRE_TIMEOUT_SECONDS instead of hanging the caller forever".  False:
\* every wakeup starts a new wait_for, and the sweep wakes every waiter
\* before its timeout is due.
AcquireBounded ==
    \A t \in Task : pc[t] \in {"waiting", "notified"}
                      ~> pc[t] \notin {"waiting", "notified"}
=============================================================================
