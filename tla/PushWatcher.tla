----------------------------- MODULE PushWatcher -----------------------------
(***************************************************************************)
(* The push of push.py for one account: the /events streams that subscribe *)
(* to the registry's AccountWatcher, and the watcher's task, which polls   *)
(* the mailboxes' cursors over a connection of its own and pushes them to  *)
(* every subscriber when they differ from the previous poll's.             *)
(*                                                                         *)
(* A step of the task runs from one await to the next; the mailboxes may   *)
(* change, and streams come and go, at every one of them.                  *)
(***************************************************************************)
EXTENDS Integers, Sequences

CONSTANTS
    Client,      \* /events streams
    Watcher,     \* AccountWatcher objects
    Mailbox,     \* selectable mailboxes
    None,
    MaxChanges   \* bound: changes to the account's mailboxes

ASSUME PushAssumption ==
    /\ None \notin Watcher
    /\ MaxChanges \in Nat \ {0}

\* A cursor is the time of the mailbox's last change, 0 without a mailbox.
Cursors == [Mailbox -> 0..MaxChanges]

ASSUME NoneIsNoVector == None \notin Cursors

VARIABLES
    mail,        \* the server: the mailboxes' cursors
    time,        \* of the last change
    registered,  \* AccountWatcherRegistry._watchers of the account's key
    subs,        \* _subscribers of each watcher
    task,        \* where the watcher's _run waits
    conn,        \* whether its connection is open
    last,        \* _last_cursors
    todo,        \* mailboxes the poll has yet to SELECT
    seen,        \* cursors the poll has read
    queue,       \* of each stream: payloads pushed and not sent
    told         \* of each stream: the state its client has

server == <<mail, time>>
poller == <<task, conn, last, todo, seen>>
vars == <<server, poller, registered, subs, queue, told>>

Blank == [m \in Mailbox |-> 0]

Init ==
    /\ mail = [m \in Mailbox |-> 1] /\ time = 1
    /\ registered = None
    /\ subs = [w \in Watcher |-> {}]
    /\ task = [w \in Watcher |-> "ended"]
    /\ conn = [w \in Watcher |-> FALSE]
    /\ last = [w \in Watcher |-> None]
    /\ todo = [w \in Watcher |-> {}]
    /\ seen = [w \in Watcher |-> Blank]
    /\ queue = [c \in Client |-> <<>>]
    /\ told = [c \in Client |-> None]

Streaming(c) == \E w \in Watcher : c \in subs[w]

\* The last state pushed to a stream, whether its client has it or not yet.
Latest(c) == IF queue[c] = <<>> THEN told[c] ELSE queue[c][Len(queue[c])]

-----------------------------------------------------------------------------
(* The account: a delivery, a flag change, a mailbox created or deleted.   *)
Change(m) ==
    /\ time < MaxChanges
    /\ time' = time + 1
    /\ \E cursor \in {0, time + 1} :
        /\ cursor # mail[m]
        /\ mail' = [mail EXCEPT ![m] = cursor]
    /\ UNCHANGED <<poller, registered, subs, queue, told>>

-----------------------------------------------------------------------------
(* The streams.                                                            *)
\* The queue is new, and the watcher if the account has none.
Subscribe(c) ==
    /\ ~Streaming(c)
    /\ queue' = [queue EXCEPT ![c] = <<>>]
    /\ IF registered # None
         THEN /\ subs' = [subs EXCEPT ![registered] = @ \cup {c}]
              /\ told' = [told EXCEPT ![c] = last[registered]]
              /\ UNCHANGED <<poller, registered>>
         ELSE \E w \in Watcher :
              /\ task[w] = "ended"
              /\ registered' = w
              /\ subs' = [subs EXCEPT ![w] = {c}]
              /\ told' = [told EXCEPT ![c] = None]
              /\ task' = [task EXCEPT ![w] = "sleeping"]
              /\ last' = [last EXCEPT ![w] = None]
              /\ UNCHANGED <<conn, todo, seen>>
    /\ UNCHANGED server

\* Mutant: the payload that arrives as the ping falls due is lost.
DeliverOrDrop(c) ==
    /\ queue[c] # <<>>
    /\ told' \in {told, [told EXCEPT ![c] = Head(queue[c])]}
    /\ queue' = [queue EXCEPT ![c] = Tail(@)]
    /\ UNCHANGED <<server, poller, registered, subs>>

\* Mutant: the latest payload first.
DeliverNewest(c) ==
    /\ queue[c] # <<>>
    /\ told' = [told EXCEPT ![c] = Latest(c)]
    /\ queue' = [queue EXCEPT ![c] = SubSeq(@, 1, Len(@) - 1)]
    /\ UNCHANGED <<server, poller, registered, subs>>

\* wait_for(queue.get(), ping) never takes a payload it does not return.
Deliver(c) ==
    /\ queue[c] # <<>>
    /\ told' = [told EXCEPT ![c] = Head(queue[c])]
    /\ queue' = [queue EXCEPT ![c] = Tail(@)]
    /\ UNCHANGED <<server, poller, registered, subs>>

\* The local variables of a poll are gone.
DropPoll(w) ==
    /\ todo' = [todo EXCEPT ![w] = {}]
    /\ seen' = [seen EXCEPT ![w] = Blank]

\* Task.cancel(): the finally clause logs the connection out, if there is
\* one; nobody has the watcher any more.
CancelTask(w) ==
    /\ task' = [task EXCEPT ![w] = IF conn[w] THEN "closing" ELSE "ended"]
    /\ last' = [last EXCEPT ![w] = None]
    /\ DropPoll(w)

\* Mutant: the registry drops the watcher whoever leaves.
CloseDropsWatcher(c) ==
    /\ Streaming(c)
    /\ LET w == CHOOSE v \in Watcher : c \in subs[v] IN
        /\ subs' = [subs EXCEPT ![w] = @ \ {c}]
        /\ registered' = None
        /\ IF subs'[w] = {} THEN CancelTask(w)
                           ELSE UNCHANGED <<task, last, todo, seen>>
    /\ queue' = [queue EXCEPT ![c] = <<>>]
    /\ told' = [told EXCEPT ![c] = None]
    /\ UNCHANGED <<server, conn>>

\* The client disconnects: the stream's generator is closed, whatever its
\* queue still holds.
Close(c) ==
    /\ Streaming(c)
    /\ LET w == CHOOSE v \in Watcher : c \in subs[v] IN
        /\ subs' = [subs EXCEPT ![w] = @ \ {c}]
        /\ IF subs'[w] = {}
             THEN /\ registered' = IF registered = w THEN None ELSE registered
                  /\ CancelTask(w)
             ELSE UNCHANGED <<registered, task, last, todo, seen>>
    /\ queue' = [queue EXCEPT ![c] = <<>>]
    /\ told' = [told EXCEPT ![c] = None]
    /\ UNCHANGED <<server, conn>>

-----------------------------------------------------------------------------
(* The watcher's task.                                                     *)
streams == <<registered, subs>>

Goto(w, label) == task' = [task EXCEPT ![w] = label]

Wake(w) ==
    /\ task[w] = "sleeping"
    /\ Goto(w, IF conn[w] THEN "listing" ELSE "connecting")
    /\ UNCHANGED <<server, streams, conn, last, todo, seen, queue, told>>

ConnectOk(w) ==
    /\ task[w] = "connecting"
    /\ conn' = [conn EXCEPT ![w] = TRUE]
    /\ Goto(w, "listing")
    /\ UNCHANGED <<server, streams, last, todo, seen, queue, told>>

ConnectFails(w) ==
    /\ task[w] = "connecting"
    /\ Goto(w, "sleeping")
    /\ UNCHANGED <<server, streams, conn, last, todo, seen, queue, told>>

\* The poll has read every mailbox: _notify and the new _last_cursors.
Finish(w, cursors) ==
    /\ queue' = IF last[w] # None /\ last[w] # cursors
                  THEN [c \in Client |-> IF c \in subs[w] THEN Append(queue[c], cursors)
                                                          ELSE queue[c]]
                  ELSE queue
    /\ last' = [last EXCEPT ![w] = cursors]
    /\ Goto(w, "sleeping")

ListOk(w) ==
    /\ task[w] = "listing"
    /\ LET listed == {m \in Mailbox : mail[m] # 0} IN
        /\ todo' = [todo EXCEPT ![w] = listed]
        /\ seen' = [seen EXCEPT ![w] = Blank]
        /\ IF listed = {}
             THEN Finish(w, Blank)
             ELSE Goto(w, "selecting") /\ UNCHANGED <<last, queue>>
    /\ UNCHANGED <<server, streams, conn, told>>

\* list_mailboxes does not wrap imapclient's errors into ImapError: _run
\* ends with the exception, after the logout of its finally clause.
ListRaises(w) ==
    /\ task[w] = "listing"
    /\ Goto(w, "closing")
    /\ UNCHANGED <<server, streams, conn, last, todo, seen, queue, told>>

SelectOk(w) ==
    /\ task[w] = "selecting"
    /\ \E m \in todo[w] :
        LET left == todo[w] \ {m}
            read == [seen[w] EXCEPT ![m] = mail[m]]
        IN  /\ mail[m] # 0
            /\ IF left = {}
                 THEN Finish(w, read) /\ DropPoll(w)
                 ELSE /\ todo' = [todo EXCEPT ![w] = left]
                      /\ seen' = [seen EXCEPT ![w] = read]
                      /\ UNCHANGED <<task, last, queue>>
    /\ UNCHANGED <<server, streams, conn, told>>

\* The connection is lost, or a listed mailbox is gone.
SelectFails(w) ==
    /\ task[w] = "selecting"
    /\ Goto(w, "hangup")
    /\ DropPoll(w)
    /\ UNCHANGED <<server, streams, conn, last, queue, told>>

\* Mutant: a reconnect starts from a new baseline.
HangupForgets(w) ==
    /\ task[w] = "hangup"
    /\ conn' = [conn EXCEPT ![w] = FALSE]
    /\ last' = [last EXCEPT ![w] = None]
    /\ Goto(w, "sleeping")
    /\ UNCHANGED <<server, streams, todo, seen, queue, told>>

Hangup(w) ==
    /\ task[w] = "hangup"
    /\ conn' = [conn EXCEPT ![w] = FALSE]
    /\ Goto(w, "sleeping")
    /\ UNCHANGED <<server, streams, last, todo, seen, queue, told>>

Closed(w) ==
    /\ task[w] = "closing"
    /\ conn' = [conn EXCEPT ![w] = FALSE]
    /\ Goto(w, "ended")
    /\ UNCHANGED <<server, streams, last, todo, seen, queue, told>>

-----------------------------------------------------------------------------
StreamStep(c) == Subscribe(c) \/ Deliver(c) \/ Close(c)

PollStep(w) ==
    \/ Wake(w) \/ ConnectOk(w) \/ ConnectFails(w)
    \/ ListOk(w) \/ ListRaises(w) \/ SelectOk(w) \/ SelectFails(w)
    \/ Hangup(w) \/ Closed(w)

Next ==
    \/ \E m \in Mailbox : Change(m)
    \/ \E c \in Client : StreamStep(c)
    \/ \E w \in Watcher : PollStep(w)

Spec == Init /\ [][Next]_vars

\* The loop runs the task whenever its sleep or its thread has ended, and a
\* stream that has a payload sends it.
Fairness ==
    /\ \A w \in Watcher : WF_vars(PollStep(w))
    /\ \A c \in Client : WF_vars(Deliver(c))

FairSpec == Spec /\ Fairness

-----------------------------------------------------------------------------
\* Types; a task in a poll has a connection, and one that sleeps, connects
\* or has ended has no mailboxes left to read.
TypeOK ==
    /\ mail \in Cursors /\ time \in 1..MaxChanges
    /\ registered \in Watcher \cup {None}
    /\ subs \in [Watcher -> SUBSET Client]
    /\ task \in [Watcher -> {"sleeping", "connecting", "listing", "selecting",
                             "hangup", "closing", "ended"}]
    /\ conn \in [Watcher -> BOOLEAN]
    /\ last \in [Watcher -> Cursors \cup {None}]
    /\ todo \in [Watcher -> SUBSET Mailbox]
    /\ seen \in [Watcher -> Cursors]
    /\ queue \in [Client -> Seq(Cursors)]
    /\ told \in [Client -> Cursors \cup {None}]
    /\ \A w \in Watcher :
        /\ task[w] \in {"listing", "selecting", "hangup", "closing"} => conn[w]
        /\ task[w] \in {"connecting", "ended"} => ~conn[w]
        /\ task[w] = "selecting" => todo[w] # {}

\* Whatever streams open and close: an open stream's queue is one of the
\* registered watcher's, that watcher has an open stream, and no other one
\* polls or keeps a subscriber.
OnlyRegisteredWatches ==
    /\ \A w \in Watcher : subs[w] # {} <=> w = registered
    /\ \A w \in Watcher \ {registered} : task[w] \in {"closing", "ended"}

\* However polls fail and reconnect: the state last pushed to a stream is the
\* one the watcher will compare the next poll with, so no difference between
\* two polls goes unpushed, to any of the subscribers.
InSync ==
    \A w \in Watcher : \A c \in subs[w] :
        Latest(c) # None => Latest(c) = last[w]

\* A mailbox's pushed cursor never goes back to an older one: whatever runs
\* between its polls, only one task pushes to a stream, in the polls' order.
Older(new, old) == \E m \in Mailbox : 0 < new[m] /\ new[m] < old[m]

NeverBackwards ==
    [][\A c \in Client : told[c] # None /\ told'[c] # None
                            => ~Older(told'[c], told[c])]_vars

Dead == registered # None /\ task[registered] \in {"closing", "ended"}

FailuresStop ==
    <>[][~\E w \in Watcher : ConnectFails(w) \/ SelectFails(w)]_vars

\* Once the server stays reachable and unless the task has died, a client
\* that stays and was subscribed at a poll is told the account's state.
EventuallyTold ==
    FailuresStop =>
        \A c \in Client :
            Streaming(c) /\ Latest(c) # None
                ~> ~Streaming(c) \/ told[c] = mail \/ Dead

-----------------------------------------------------------------------------
(***************************************************************************)
(* What the docs claim and the code does not do.                           *)
(***************************************************************************)
\* push.py:26: a watcher "has to be able to reconnect on its own if its
\* dedicated connection drops".  False when it drops during LIST: the task
\* ends, _task stays set, and no later subscriber starts another one.
WatcherSurvives == registered # None => task[registered] # "ended"
=============================================================================
