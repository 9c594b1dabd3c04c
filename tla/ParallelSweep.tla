---------------------------- MODULE ParallelSweep ----------------------------
(***************************************************************************)
(* RequestContext.imap_parallel_map (context.py) over the connection pool: *)
(* the handlers that sweep the mailboxes (Mailbox/get, Mailbox/changes,    *)
(* Email/query, Thread/get, ...) keep a connection of their own checked    *)
(* out while asyncio.gather runs one task per chunk, each of which checks  *)
(* out another one.                                                        *)
(*                                                                         *)
(* The pool is BoundedLease, which ConnectionPool implements, without the  *)
(* connections' identities.  A waiting checkout may fail (timeout, failed  *)
(* connect), but nothing says it must: see AcquireBounded there.           *)
(***************************************************************************)
EXTENDS Integers, FiniteSets

CONSTANTS
    Request,      \* concurrent JMAP requests of one account
    Worker,       \* tasks that gather() may create
    None,
    MaxPerUser,   \* connection_pool_max_per_user
    MaxEntries    \* bound: mailboxes in a LIST reply

ASSUME SweepAssumption ==
    /\ IsFiniteSet(Request) /\ IsFiniteSet(Worker)
    /\ Request \cap Worker = {}
    /\ None \notin Request \cup Worker
    /\ MaxPerUser \in Nat
    /\ MaxEntries \in Nat

VARIABLES
    phase,    \* of each request: the handler's progress
    job,      \* of each worker: its chunk's progress
    owner,    \* the request whose gather() still awaits the worker
    granted   \* the tasks that hold a connection

vars == <<phase, job, owner, granted>>

Pool == INSTANCE BoundedLease WITH
    Task <- Request \cup Worker,
    Conn <- {},
    Bound <- MaxPerUser,
    lease <- [t \in Request \cup Worker |-> None]

Team(r) == {w \in Worker : owner[w] = r}
Failed(r) == {w \in Team(r) : job[w] = "failed"}
Unfinished(r) == {w \in Team(r) : job[w] # "done"}
Unused == {w \in Worker : job[w] = "none"}

Init ==
    /\ phase = [r \in Request |-> "idle"]
    /\ job = [w \in Worker |-> "none"]
    /\ owner = [w \in Worker |-> None]
    /\ Pool!Init

-----------------------------------------------------------------------------
Arrive(r) ==
    /\ phase[r] = "idle"
    /\ phase' = [phase EXCEPT ![r] = "opening"]
    /\ UNCHANGED <<job, owner, granted>>

Open(r) ==
    /\ phase[r] = "opening"
    /\ Pool!Grant(r)
    /\ phase' = [phase EXCEPT ![r] = "listing"]
    /\ UNCHANGED <<job, owner>>

OpenFails(r) ==
    /\ phase[r] = "opening"
    /\ phase' = [phase EXCEPT ![r] = "idle"]
    /\ UNCHANGED <<job, owner, granted>>

\* max(1, min(2, pool_max - 2)), and no more than there are entries.
Concurrency(n) ==
    LET most == IF MaxPerUser <= 3 THEN 1 ELSE 2
    IN IF n < most THEN n ELSE most

\* LIST returns n mailboxes; gather() creates one task per chunk.
Fork(r) ==
    /\ phase[r] = "listing"
    /\ \E n \in 1..MaxEntries, team \in SUBSET Unused :
        /\ Cardinality(team) = Concurrency(n)
        /\ job' = [w \in Worker |-> IF w \in team THEN "waiting" ELSE job[w]]
        /\ owner' = [w \in Worker |-> IF w \in team THEN r ELSE owner[w]]
    /\ phase' = [phase EXCEPT ![r] = "sweeping"]
    /\ UNCHANGED granted

\* The end of the handler's `async with ctx.imap()`, and of its interest in
\* the workers: those that still run go on by themselves.
Leave(r) ==
    /\ Pool!Release(r)
    /\ phase' = [phase EXCEPT ![r] = "idle"]
    /\ owner' = [w \in Worker |-> IF owner[w] = r THEN None ELSE owner[w]]
    /\ job' = [w \in Worker |-> IF owner[w] = r /\ job[w] \in {"done", "failed"}
                                THEN "none" ELSE job[w]]

\* No mailboxes, or LIST raised.
ListOnly(r) == phase[r] = "listing" /\ Leave(r)

Join(r) ==
    /\ phase[r] = "sweeping"
    /\ Unfinished(r) = {}
    /\ Leave(r)

\* gather() without return_exceptions raises the first exception at once and
\* leaves the other chunks running.
JoinRaises(r) ==
    /\ phase[r] = "sweeping"
    /\ Failed(r) # {}
    /\ Leave(r)

\* The client is gone: cancelling gather() cancels its tasks, and it ends
\* when they have ended.
Cancel(r) ==
    /\ phase[r] \in {"listing", "sweeping"}
    /\ phase' = [phase EXCEPT ![r] = "cancelling"]
    /\ UNCHANGED <<job, owner, granted>>

Cancelled(r) ==
    /\ phase[r] = "cancelling"
    /\ \A w \in Team(r) : job[w] \notin {"waiting", "working"}
    /\ Leave(r)

-----------------------------------------------------------------------------
OpenChunk(w) ==
    /\ job[w] = "waiting"
    /\ Pool!Grant(w)
    /\ job' = [job EXCEPT ![w] = "working"]
    /\ UNCHANGED <<phase, owner>>

\* A chunk's task ends; nobody looks at the result of an orphan.
End(w, result) ==
    job' = [job EXCEPT ![w] = IF owner[w] = None THEN "none" ELSE result]

ChunkWaitFails(w) ==
    /\ job[w] = "waiting"
    /\ End(w, "failed")
    /\ UNCHANGED <<phase, owner, granted>>

\* Mutant: the connections are returned after the gather, not by run_chunk.
ChunkDoneKeeps(w) ==
    /\ job[w] = "working"
    /\ End(w, "done")
    /\ UNCHANGED <<phase, owner, granted>>

ChunkDone(w) ==
    /\ job[w] = "working"
    /\ Pool!Release(w)
    /\ End(w, "done")
    /\ UNCHANGED <<phase, owner>>

ChunkFails(w) ==
    /\ job[w] = "working"
    /\ Pool!Release(w)
    /\ End(w, "failed")
    /\ UNCHANGED <<phase, owner>>

ChunkCancelled(w) ==
    /\ job[w] \in {"waiting", "working"}
    /\ owner[w] # None /\ phase[owner[w]] = "cancelling"
    /\ granted' = granted \ {w}
    /\ End(w, "failed")
    /\ UNCHANGED <<phase, owner>>

-----------------------------------------------------------------------------
RequestStep(r) ==
    \/ Arrive(r) \/ Open(r) \/ OpenFails(r)
    \/ Fork(r) \/ ListOnly(r) \/ Join(r) \/ JoinRaises(r)
    \/ Cancel(r) \/ Cancelled(r)

WorkerStep(w) ==
    \/ OpenChunk(w) \/ ChunkWaitFails(w)
    \/ ChunkDone(w) \/ ChunkFails(w) \/ ChunkCancelled(w)

Next == (\E r \in Request : RequestStep(r)) \/ (\E w \in Worker : WorkerStep(w))

Spec == Init /\ [][Next]_vars

\* What has begun goes on: LIST and the chunks' commands end, gather()
\* returns, a free connection is taken by a task that waits.
Fairness ==
    /\ \A r \in Request :
        /\ WF_vars(ListOnly(r) \/ Fork(r))
        /\ WF_vars(Join(r)) /\ WF_vars(JoinRaises(r)) /\ WF_vars(Cancelled(r))
        /\ WF_vars(Open(r))
    /\ \A w \in Worker :
        /\ WF_vars(ChunkDone(w) \/ ChunkFails(w))
        /\ WF_vars(ChunkCancelled(w))
        /\ WF_vars(OpenChunk(w))

FairSpec == Spec /\ Fairness

-----------------------------------------------------------------------------
\* Types, and what relates them: gather() awaits tasks it has created, and
\* only while its handler is in it.
TypeOK ==
    /\ phase \in [Request -> {"idle", "opening", "listing", "sweeping", "cancelling"}]
    /\ job \in [Worker -> {"none", "waiting", "working", "done", "failed"}]
    /\ owner \in [Worker -> Request \cup {None}]
    /\ granted \subseteq Request \cup Worker
    /\ \A w \in Worker : owner[w] # None =>
            job[w] # "none" /\ phase[owner[w]] \in {"sweeping", "cancelling"}

\* Whoever holds a connection is at work or can hand it back: a connection
\* is never kept by a task that has ended or has not started.
HoldersAreActive ==
    granted = {r \in Request : phase[r] \in {"listing", "sweeping", "cancelling"}}
              \cup {w \in Worker : job[w] = "working"}

\* A request that can only wait for tasks of its own that wait for the pool.
Blocked(r) ==
    /\ phase[r] = "sweeping"
    /\ Unfinished(r) # {}
    /\ \A w \in Unfinished(r) : job[w] = "waiting"

CanGoOn(t) ==
    \/ t \in Worker /\ job[t] = "working"
    \/ t \in Request /\ ~Blocked(t)

Hungry ==
    \/ \E r \in Request : phase[r] = "opening"
    \/ \E w \in Worker : job[w] = "waiting"

\* No hold-and-wait deadlock: while somebody waits for a connection, one is
\* free or one is held by a task that can go on without another.
SomebodyCanProceed ==
    Hungry => \/ Cardinality(granted) < MaxPerUser
              \/ \E t \in granted : CanGoOn(t)

\* Once requests stop arriving, every one that has begun ends.
SweepsComplete ==
    <>[][~\E r \in Request : Arrive(r)]_vars
        => \A r \in Request : phase[r] # "idle" ~> phase[r] = "idle"

-----------------------------------------------------------------------------
(***************************************************************************)
(* What the docs claim and the code does not do.                           *)
(***************************************************************************)
\* context.py:122: the default concurrency "leaves at least one connection
\* free on top of that for other concurrent activity", for a single request.
\* False: the chunk that survives a failed sweep still has its connection
\* when the next sweep takes three more.
LeavesOneFree == Cardinality(granted) < MaxPerUser

\* GAPS.md:127: the sweep's few connections are chosen "so a sweep can't
\* starve other concurrent requests sharing the same account's connections".
\* False when as many requests as the pool has connections have begun.
SweepsDontStarve == SomebodyCanProceed
=============================================================================
