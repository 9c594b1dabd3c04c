------------------------- MODULE PushWatcher_proofs -------------------------
(***************************************************************************)
(* Proofs about PushWatcher: its invariants, and that what a client is     *)
(* told never goes back.                                                   *)
(***************************************************************************)
EXTENDS PushWatcher, SequenceTheorems, TLAPS

USE PushAssumption, NoneIsNoVector

IInv == TypeOK /\ OnlyRegisteredWatches /\ InSync

LEMMA BlankType == Blank \in Cursors
BY DEF Blank, Cursors

LEMMA InitIInv == Init => IInv
<1> SUFFICES ASSUME Init PROVE IInv
  OBVIOUS
<1>1. mail \in Cursors /\ time \in 1..MaxChanges
  BY DEF Init, Cursors
<1>2. queue \in [Client -> Seq(Cursors)]
  BY EmptySeq DEF Init
<1>3. TypeOK
  BY <1>1, <1>2, BlankType DEF Init, TypeOK
<1>4. OnlyRegisteredWatches
  BY DEF Init, OnlyRegisteredWatches
<1>5. InSync
  BY DEF Init, InSync
<1> QED
  BY <1>3, <1>4, <1>5 DEF IInv

-----------------------------------------------------------------------------
\* The payloads' sequences.
LEMMA HeadTail ==
  ASSUME NEW s \in Seq(Cursors), s # <<>>
  PROVE  /\ Head(s) \in Cursors
         /\ Tail(s) \in Seq(Cursors)
         /\ s[Len(s)] \in Cursors
         /\ Tail(s) = <<>> => s[Len(s)] = Head(s)
         /\ Tail(s) # <<>> => Tail(s)[Len(Tail(s))] = s[Len(s)]
<1>1. Len(s) \in Nat /\ Len(s) # 0
  BY EmptySeq, LenProperties
<1>2. Head(s) = s[1] /\ s[1] \in Cursors /\ s[Len(s)] \in Cursors
  BY <1>1, ElementOfSeq
<1>3. Tail(s) \in Seq(Cursors) /\ Len(Tail(s)) = Len(s) - 1
  BY HeadTailProperties
<1>4. Tail(s) = <<>> => Len(s) = 1
  BY <1>1, <1>3
<1>5. Tail(s) # <<>> => Len(Tail(s)) \in 1..Len(Tail(s))
  BY <1>1, <1>3, EmptySeq, LenProperties
<1>6. \A i \in 1..Len(Tail(s)) : Tail(s)[i] = s[i+1]
  BY HeadTailProperties
<1> QED
  BY <1>1, <1>2, <1>3, <1>4, <1>5, <1>6

LEMMA AppendLast ==
  ASSUME NEW s \in Seq(Cursors), NEW x \in Cursors
  PROVE  /\ Append(s, x) \in Seq(Cursors)
         /\ Append(s, x) # <<>>
         /\ Append(s, x)[Len(Append(s, x))] = x
BY AppendProperties

LEMMA LatestType ==
  ASSUME TypeOK, NEW c \in Client
  PROVE  Latest(c) \in Cursors \cup {None}
<1>1. queue[c] \in Seq(Cursors) /\ told[c] \in Cursors \cup {None}
  BY DEF TypeOK
<1> QED
  BY <1>1, HeadTail DEF Latest

LEMMA LatestStays ==
  ASSUME NEW c \in Client, queue'[c] = queue[c], told'[c] = told[c]
  PROVE  Latest(c)' = Latest(c)
BY DEF Latest

-----------------------------------------------------------------------------
\* The streams.
LEMMA ChangeStep ==
  ASSUME IInv, NEW m \in Mailbox, Change(m)
  PROVE  IInv'
<1> USE DEF IInv, Change, server, poller
<1>1. time' \in 1..MaxChanges /\ mail' \in Cursors
  BY DEF TypeOK, Cursors
<1>2. TypeOK'
  BY <1>1 DEF TypeOK
<1>3. OnlyRegisteredWatches'
  BY DEF OnlyRegisteredWatches
<1>4. InSync'
  BY LatestStays DEF InSync, TypeOK
<1> QED
  BY <1>2, <1>3, <1>4

LEMMA SubscribeStep ==
  ASSUME IInv, NEW c \in Client, Subscribe(c)
  PROVE  IInv'
<1> USE DEF IInv
<1>0. /\ queue' = [queue EXCEPT ![c] = <<>>]
      /\ UNCHANGED <<mail, time>>
      /\ queue' \in [Client -> Seq(Cursors)]
      /\ queue'[c] = <<>>
      /\ \A d \in Client : d # c => queue'[d] = queue[d]
  BY EmptySeq DEF Subscribe, TypeOK, server
<1>1. CASE registered # None
  <2>1. /\ registered \in Watcher
        /\ subs' = [subs EXCEPT ![registered] = subs[registered] \cup {c}]
        /\ told' = [told EXCEPT ![c] = last[registered]]
        /\ UNCHANGED <<poller, registered>>
    BY <1>1 DEF Subscribe, TypeOK
  <2>2. TypeOK'
    BY <1>0, <2>1 DEF TypeOK, poller
  <2>3. OnlyRegisteredWatches'
    BY <2>1, <2>2 DEF OnlyRegisteredWatches, poller, TypeOK
  <2>4. InSync'
    <3> SUFFICES ASSUME NEW w \in Watcher, NEW d \in subs'[w]
                 PROVE  Latest(d)' # None => Latest(d)' = last'[w]
      BY DEF InSync
    <3>1. d \in Client /\ w = registered /\ last' = last
      BY <2>1, <2>2, <2>3 DEF TypeOK, OnlyRegisteredWatches, poller
    <3>2. CASE d # c
      BY <1>0, <2>1, <3>1, <3>2, LatestStays DEF InSync, TypeOK
    <3>3. CASE d = c
      BY <1>0, <2>1, <3>1, <3>3 DEF Latest, TypeOK
    <3> QED
      BY <3>2, <3>3
  <2> QED
    BY <2>2, <2>3, <2>4
<1>2. CASE registered = None
  <2>1. PICK w \in Watcher :
          /\ task[w] = "ended"
          /\ registered' = w
          /\ subs' = [subs EXCEPT ![w] = {c}]
          /\ told' = [told EXCEPT ![c] = None]
          /\ task' = [task EXCEPT ![w] = "sleeping"]
          /\ last' = [last EXCEPT ![w] = None]
          /\ UNCHANGED <<conn, todo, seen>>
    BY <1>2 DEF Subscribe
  <2>2. \A v \in Watcher : subs[v] = {} /\ task[v] \in {"closing", "ended"}
    BY <1>2 DEF OnlyRegisteredWatches
  <2>3. TypeOK'
    BY <1>0, <2>1 DEF TypeOK
  <2>4. OnlyRegisteredWatches'
    BY <2>1, <2>2 DEF OnlyRegisteredWatches, TypeOK
  <2>5. InSync'
    BY <1>0, <2>1, <2>2 DEF InSync, Latest, TypeOK
  <2> QED
    BY <2>3, <2>4, <2>5
<1> QED
  BY <1>1, <1>2

LEMMA DeliverStep ==
  ASSUME IInv, NEW c \in Client, Deliver(c)
  PROVE  IInv'
<1> USE DEF IInv
<1>1. /\ queue[c] # <<>>
      /\ queue[c] \in Seq(Cursors)
      /\ told' = [told EXCEPT ![c] = Head(queue[c])]
      /\ queue' = [queue EXCEPT ![c] = Tail(queue[c])]
      /\ UNCHANGED <<mail, time, task, conn, last, todo, seen, registered, subs>>
  BY DEF Deliver, server, poller, TypeOK
<1>2. /\ Head(queue[c]) \in Cursors
      /\ Tail(queue[c]) \in Seq(Cursors)
  BY <1>1, HeadTail
<1>3. TypeOK'
  BY <1>1, <1>2 DEF TypeOK
<1>4. \A d \in Client : Latest(d)' = Latest(d)
  <2> SUFFICES ASSUME NEW d \in Client PROVE Latest(d)' = Latest(d)
    OBVIOUS
  <2>1. CASE d = c
    <3>1. told'[c] = Head(queue[c]) /\ queue'[c] = Tail(queue[c])
      BY <1>1 DEF TypeOK
    <3> QED
      BY <1>1, <2>1, <3>1, HeadTail DEF Latest
  <2>2. CASE d # c
    BY <1>1, <2>2, LatestStays DEF TypeOK
  <2> QED
    BY <2>1, <2>2
<1>5. OnlyRegisteredWatches' /\ InSync'
  BY <1>1, <1>4 DEF OnlyRegisteredWatches, InSync, TypeOK
<1> QED
  BY <1>3, <1>5

LEMMA CloseStep ==
  ASSUME IInv, NEW c \in Client, Close(c)
  PROVE  IInv'
<1> USE DEF IInv
<1> DEFINE w == CHOOSE v \in Watcher : c \in subs[v]
<1>1. /\ w \in Watcher
      /\ c \in subs[w]
  BY DEF Close, Streaming
<1>2. w = registered
  BY <1>1 DEF OnlyRegisteredWatches
<1>3. /\ subs' = [subs EXCEPT ![w] = subs[w] \ {c}]
      /\ IF subs'[w] = {}
           THEN /\ registered' = None
                /\ task' = [task EXCEPT ![w] = IF conn[w] THEN "closing" ELSE "ended"]
                /\ last' = [last EXCEPT ![w] = None]
                /\ todo' = [todo EXCEPT ![w] = {}]
                /\ seen' = [seen EXCEPT ![w] = Blank]
           ELSE UNCHANGED <<registered, task, last, todo, seen>>
      /\ queue' = [queue EXCEPT ![c] = <<>>]
      /\ told' = [told EXCEPT ![c] = None]
      /\ UNCHANGED <<mail, time, conn>>
  BY <1>2 DEF Close, CancelTask, DropPoll, server
<1> HIDE DEF w
<1>4. queue' \in [Client -> Seq(Cursors)]
  BY <1>3, EmptySeq DEF TypeOK
<1>5. TypeOK'
  <2>1. CASE subs'[w] = {}
    <3>1. /\ last' \in [Watcher -> Cursors \cup {None}]
          /\ todo' \in [Watcher -> SUBSET Mailbox]
          /\ seen' \in [Watcher -> Cursors]
      <4>1. /\ last' = [last EXCEPT ![w] = None]
            /\ todo' = [todo EXCEPT ![w] = {}]
            /\ seen' = [seen EXCEPT ![w] = Blank]
        BY <1>3, <2>1
      <4>2. last' \in [Watcher -> Cursors \cup {None}]
        BY <4>1 DEF TypeOK
      <4>3. todo' \in [Watcher -> SUBSET Mailbox]
        BY <4>1 DEF TypeOK
      <4>4. seen' \in [Watcher -> Cursors]
        BY <4>1, BlankType DEF TypeOK
      <4> QED BY <4>2, <4>3, <4>4
    <3>2. \A v \in Watcher : v # w => todo'[v] = todo[v] /\ task'[v] = task[v]
      BY <1>3, <2>1 DEF TypeOK
    <3>3. task'[w] = IF conn[w] THEN "closing" ELSE "ended"
      BY <1>1, <1>3, <2>1 DEF TypeOK
    <3>4. /\ task' \in [Watcher -> {"sleeping", "connecting", "listing",
                                   "selecting", "hangup", "closing", "ended"}]
          /\ subs' \in [Watcher -> SUBSET Client]
          /\ told' \in [Client -> Cursors \cup {None}]
          /\ registered' = None
      BY <1>3, <2>1 DEF TypeOK
    <3> QED
      BY <1>3, <1>4, <3>1, <3>2, <3>3, <3>4 DEF TypeOK
  <2>2. CASE subs'[w] # {}
    BY <1>1, <1>3, <1>4, <2>2 DEF TypeOK
  <2> QED BY <2>1, <2>2
<1>6. OnlyRegisteredWatches'
  BY <1>1, <1>2, <1>3 DEF OnlyRegisteredWatches, TypeOK
<1>7. InSync'
  <2> SUFFICES ASSUME NEW v \in Watcher, NEW d \in subs'[v]
               PROVE  Latest(d)' # None => Latest(d)' = last'[v]
    BY DEF InSync
  <2>1. d \in Client /\ d \in subs[v]
    BY <1>3 DEF TypeOK
  <2>2. d # c
    BY <1>1, <1>2, <1>3, <2>1 DEF OnlyRegisteredWatches, TypeOK
  <2>3. Latest(d)' = Latest(d)
    BY <1>3, <2>1, <2>2, LatestStays DEF TypeOK
  <2>4. v = w
    BY <1>2, <2>1 DEF OnlyRegisteredWatches
  <2>5. last' = last
    BY <1>3, <2>4
  <2> QED
    BY <2>1, <2>3, <2>5 DEF InSync
<1> QED
  BY <1>5, <1>6, <1>7
-----------------------------------------------------------------------------
\* The task.  Only the registered watcher's is at an await other than its
\* last logout.
LEMMA QuietStep ==
  ASSUME IInv, TypeOK', NEW w \in Watcher, NEW label,
         task' = [task EXCEPT ![w] = label],
         label \in {"closing", "ended"} \/ task[w] \notin {"closing", "ended"},
         UNCHANGED <<registered, subs, last, queue, told>>
  PROVE  IInv'
<1> USE DEF IInv
<1>1. OnlyRegisteredWatches'
  BY DEF OnlyRegisteredWatches, TypeOK
<1>2. InSync'
  BY LatestStays DEF InSync, TypeOK
<1> QED
  BY <1>1, <1>2

LEMMA FinishStep ==
  ASSUME IInv, NEW w \in Watcher, NEW cursors \in Cursors,
         Finish(w, cursors), task[w] \in {"listing", "selecting"},
         UNCHANGED <<mail, time, registered, subs, conn, told>>,
         todo' \in [Watcher -> SUBSET Mailbox], seen' \in [Watcher -> Cursors],
         \A v \in Watcher \ {w} : todo'[v] = todo[v]
  PROVE  IInv'
<1> USE DEF IInv
<1>1. /\ last' = [last EXCEPT ![w] = cursors]
      /\ task' = [task EXCEPT ![w] = "sleeping"]
  BY DEF Finish, Goto
<1>2. w = registered
  BY DEF OnlyRegisteredWatches
<1> DEFINE push == last[w] # None /\ last[w] # cursors
<1>3. /\ \A c \in Client : queue'[c] = IF push /\ c \in subs[w]
                                         THEN Append(queue[c], cursors) ELSE queue[c]
      /\ queue' = [c \in Client |-> queue'[c]]
  BY DEF Finish, TypeOK
<1> HIDE DEF push
<1>4. ASSUME NEW c \in Client PROVE queue'[c] \in Seq(Cursors)
  <2>1. queue[c] \in Seq(Cursors)
    BY DEF TypeOK
  <2>2. Append(queue[c], cursors) \in Seq(Cursors)
    BY <2>1, AppendLast
  <2> QED
    BY ONLY <1>3, <2>1, <2>2
<1>5. queue' \in [Client -> Seq(Cursors)]
  <2>1. queue' = [c \in Client |-> queue'[c]]
    BY <1>3
  <2>2. [c \in Client |-> queue'[c]] \in [Client -> Seq(Cursors)]
    BY ONLY <1>4
  <2> QED
    BY ONLY <2>1, <2>2, Zenon
<1>6. TypeOK'
  BY <1>1, <1>5 DEF TypeOK
<1>7. OnlyRegisteredWatches'
  BY <1>1, <1>2 DEF OnlyRegisteredWatches, TypeOK
<1>8. InSync'
  <2> SUFFICES ASSUME NEW v \in Watcher, NEW c \in subs[v],
                      Latest(c)' # None
               PROVE  Latest(c)' = last'[v]
    BY DEF InSync
  <2>1. v = w /\ c \in Client /\ last'[v] = cursors
    BY <1>1, <1>2 DEF OnlyRegisteredWatches, TypeOK
  <2>2. CASE push
    <3>1. queue'[c] = Append(queue[c], cursors) /\ queue[c] \in Seq(Cursors)
      BY <1>3, <2>1, <2>2 DEF TypeOK
    <3> QED
      BY <2>1, <3>1, AppendLast DEF Latest
  <2>3. CASE ~push
    <3>1. Latest(c)' = Latest(c)
      BY <1>3, <2>1, <2>3, LatestStays DEF TypeOK
    <3>2. Latest(c) = last[w]
      BY <2>1, <3>1 DEF InSync
    <3>3. last[w] = cursors
      BY <2>3, <3>1, <3>2 DEF push
    <3> QED
      BY <2>1, <3>1, <3>2, <3>3
  <2> QED
    BY <2>2, <2>3
<1> QED
  BY <1>6, <1>7, <1>8

LEMMA ListStep ==
  ASSUME IInv, NEW w \in Watcher, ListOk(w)
  PROVE  IInv'
<1> USE DEF IInv
<1> DEFINE listed == {m \in Mailbox : mail[m] # 0}
<1>1. /\ task[w] = "listing"
      /\ todo' = [todo EXCEPT ![w] = listed]
      /\ seen' = [seen EXCEPT ![w] = Blank]
      /\ UNCHANGED <<mail, time, registered, subs, conn, told>>
  BY DEF ListOk, server, streams
<1>2. /\ todo' \in [Watcher -> SUBSET Mailbox]
      /\ seen' \in [Watcher -> Cursors]
      /\ \A v \in Watcher \ {w} : todo'[v] = todo[v]
  BY <1>1, BlankType DEF TypeOK
<1>3. CASE listed = {}
  <2>1. Finish(w, Blank)
    BY <1>3 DEF ListOk
  <2> QED
    BY <1>1, <1>2, <2>1, BlankType, FinishStep
<1>4. CASE listed # {}
  <2>1. task' = [task EXCEPT ![w] = "selecting"] /\ UNCHANGED <<last, queue>>
    BY <1>4 DEF ListOk, Goto
  <2>2. TypeOK'
    BY <1>1, <1>2, <1>4, <2>1 DEF TypeOK
  <2> QED
    BY <1>1, <2>1, <2>2, QuietStep
<1> QED
  BY <1>3, <1>4

LEMMA SelectStep ==
  ASSUME IInv, NEW w \in Watcher, SelectOk(w)
  PROVE  IInv'
<1> USE DEF IInv
<1>1. PICK m \in todo[w] :
        IF todo[w] \ {m} = {}
          THEN Finish(w, [seen[w] EXCEPT ![m] = mail[m]]) /\ DropPoll(w)
          ELSE /\ todo' = [todo EXCEPT ![w] = todo[w] \ {m}]
               /\ seen' = [seen EXCEPT ![w] = [seen[w] EXCEPT ![m] = mail[m]]]
               /\ UNCHANGED <<task, last, queue>>
  BY DEF SelectOk
<1>2. /\ task[w] = "selecting"
      /\ UNCHANGED <<mail, time, registered, subs, conn, told>>
  BY DEF SelectOk, server, streams
<1> DEFINE read == [seen[w] EXCEPT ![m] = mail[m]]
<1>3. m \in Mailbox /\ mail[m] \in 0..MaxChanges
  BY <1>1 DEF TypeOK, Cursors
<1>4. read \in Cursors
  BY <1>3 DEF TypeOK, Cursors
<1> HIDE DEF read
<1>5. CASE todo[w] \ {m} = {}
  <2>1. Finish(w, read) /\ DropPoll(w)
    BY <1>1, <1>5 DEF read
  <2>2. /\ todo' \in [Watcher -> SUBSET Mailbox] /\ seen' \in [Watcher -> Cursors]
        /\ \A v \in Watcher \ {w} : todo'[v] = todo[v]
    BY <2>1, BlankType DEF DropPoll, TypeOK
  <2> QED
    BY <1>2, <1>4, <2>1, <2>2, FinishStep
<1>6. CASE todo[w] \ {m} # {}
  <2>1. /\ todo' = [todo EXCEPT ![w] = todo[w] \ {m}]
        /\ seen' = [seen EXCEPT ![w] = read]
        /\ UNCHANGED <<task, last, queue>>
    BY <1>1, <1>6 DEF read
  <2>2. TypeOK'
    BY <1>2, <1>4, <1>6, <2>1 DEF TypeOK
  <2>3. task' = [task EXCEPT ![w] = "selecting"]
    BY <1>2, <2>1 DEF TypeOK
  <2> QED
    BY <1>2, <2>1, <2>2, <2>3, QuietStep
<1> QED
  BY <1>5, <1>6

LEMMA PollPreserves ==
  ASSUME IInv, NEW w \in Watcher, PollStep(w)
  PROVE  IInv'
<1> USE DEF IInv
<1>1. CASE Wake(w)
  <2>1. TypeOK'
    BY <1>1 DEF Wake, Goto, TypeOK, server, streams
  <2>2. PICK label : task' = [task EXCEPT ![w] = label]
    BY <1>1 DEF Wake, Goto
  <2> QED
    BY <1>1, <2>1, <2>2, QuietStep DEF Wake, streams
<1>2. CASE ConnectOk(w)
  <2>1. TypeOK'
    BY <1>2 DEF ConnectOk, Goto, TypeOK, server, streams
  <2> QED
    BY <1>2, <2>1, QuietStep DEF ConnectOk, Goto, streams
<1>3. CASE ConnectFails(w)
  <2>1. TypeOK'
    BY <1>3 DEF ConnectFails, Goto, TypeOK, server, streams
  <2> QED
    BY <1>3, <2>1, QuietStep DEF ConnectFails, Goto, streams
<1>4. CASE ListOk(w)
  BY <1>4, ListStep
<1>5. CASE SelectOk(w)
  BY <1>5, SelectStep
<1>6. CASE ListRaises(w)
  <2>1. TypeOK'
    BY <1>6 DEF ListRaises, Goto, TypeOK, server, streams
  <2> QED
    BY <1>6, <2>1, QuietStep DEF ListRaises, Goto, streams
<1>7. CASE SelectFails(w)
  <2>1. TypeOK'
    <3>1. todo' \in [Watcher -> SUBSET Mailbox] /\ seen' \in [Watcher -> Cursors]
      BY <1>7, BlankType DEF SelectFails, DropPoll, TypeOK
    <3>2. \A v \in Watcher \ {w} : todo'[v] = todo[v]
      BY <1>7 DEF SelectFails, DropPoll, TypeOK
    <3> QED
      BY <1>7, <3>1, <3>2 DEF SelectFails, Goto, TypeOK, server, streams
  <2> QED
    BY <1>7, <2>1, QuietStep DEF SelectFails, Goto, streams
<1>8. CASE Hangup(w) \/ Closed(w)
  <2>1. TypeOK'
    BY <1>8 DEF Hangup, Closed, Goto, TypeOK, server, streams
  <2> QED
    BY <1>8, <2>1, QuietStep DEF Hangup, Closed, Goto, streams
<1> QED
  BY <1>1, <1>2, <1>3, <1>4, <1>5, <1>6, <1>7, <1>8 DEF PollStep

LEMMA StutterStep == ASSUME IInv, UNCHANGED vars PROVE IInv'
<1> USE DEF IInv, vars, server, poller
<1>1. TypeOK'
  BY DEF TypeOK
<1>2. OnlyRegisteredWatches'
  BY DEF OnlyRegisteredWatches
<1>3. InSync'
  BY LatestStays DEF InSync, TypeOK
<1> QED
  BY <1>1, <1>2, <1>3

\* The inductive invariant is the conjunction of the checked ones.
THEOREM WatcherInvariance == Spec => []IInv
<1>1. IInv /\ [Next]_vars => IInv'
  <2>1. ASSUME IInv, Next PROVE IInv'
    <3>1. CASE \E m \in Mailbox : Change(m)
      BY <2>1, <3>1, ChangeStep
    <3>2. CASE \E c \in Client : StreamStep(c)
      BY <2>1, <3>2, SubscribeStep, DeliverStep, CloseStep DEF StreamStep
    <3>3. CASE \E w \in Watcher : PollStep(w)
      BY <2>1, <3>3, PollPreserves
    <3> QED
      BY <2>1, <3>1, <3>2, <3>3 DEF Next
  <2> QED
    BY <2>1, StutterStep
<1> QED
  BY InitIInv, <1>1, PTL DEF Spec

\* Types, and where a task has a connection.
THEOREM WatcherTypes == Spec => []TypeOK
BY WatcherInvariance, PTL DEF IInv

\* One poller per account, and every open stream is one of its subscribers
\* (push.py:176-190).
THEOREM OnePoller == Spec => []OnlyRegisteredWatches
BY WatcherInvariance, PTL DEF IInv

\* No difference between two polls goes unpushed to a subscriber, whatever
\* reconnects lie between them (push.py:129-131).
THEOREM NothingSkipped == Spec => []InSync
BY WatcherInvariance, PTL DEF IInv
-----------------------------------------------------------------------------
(* The inductive invariant of NeverBackwards.                              *)

\* Cursors x read before cursors y: no mailbox's is older in y.
Before(x, y) == x # None => \A m \in Mailbox : y[m] = 0 \/ x[m] <= y[m]

\* Cursors read so far.
Read(x) == Before(x, mail) /\ (x # None => \A m \in Mailbox : x[m] <= time)

\* What a stream's client has, then what its queue holds.
Sends(c) == 0..Len(queue[c])
Sent(c, i) == IF i = 0 THEN told[c] ELSE queue[c][i]

InThePast ==
    /\ \A m \in Mailbox : mail[m] <= time
    /\ \A w \in Watcher : Read(last[w]) /\ Read(seen[w])
    /\ \A c \in Client : \A i \in Sends(c) : Read(Sent(c, i))

\* A poll reads later than what was pushed before it.
PollsForward ==
    \A w \in Watcher :
        /\ Before(last[w], seen[w])
        /\ \A c \in subs[w] : \A i \in Sends(c) : Before(Sent(c, i), seen[w])

InOrder ==
    \A c \in Client : \A i, j \in Sends(c) : i < j => Before(Sent(c, i), Sent(c, j))

\* A closed stream has no client.
ClosedIsEmpty ==
    \A c \in Client : ~Streaming(c) => told[c] = None /\ queue[c] = <<>>

OrderIInv ==
    /\ IInv /\ InThePast /\ PollsForward /\ InOrder /\ ClosedIsEmpty

OrderParts == InThePast /\ PollsForward /\ InOrder /\ ClosedIsEmpty

LEMMA OrderInit == Init => OrderParts
<1> SUFFICES ASSUME Init PROVE OrderParts
  OBVIOUS
<1>1. \A c \in Client : \A i \in Sends(c) : i = 0 /\ Sent(c, i) = None
  <2>1. \A c \in Client : Len(queue[c]) = 0 /\ told[c] = None
    BY EmptySeq DEF Init
  <2> QED BY <2>1 DEF Sends, Sent
<1>2. \A m \in Mailbox : mail[m] <= time
  BY DEF Init
<1>3. \A w \in Watcher : last[w] = None /\ seen[w] = Blank
  BY DEF Init
<1>4. InThePast
  BY <1>1, <1>2, <1>3 DEF InThePast, Read, Before, Blank, Init
<1>5. PollsForward
  <2>1. \A w \in Watcher : subs[w] = {} /\ last[w] = None
    BY DEF Init
  <2> QED BY <2>1 DEF PollsForward, Before
<1>6. InOrder
  BY <1>1 DEF InOrder, Before
<1>7. ClosedIsEmpty
  BY DEF Init, ClosedIsEmpty
<1> QED BY <1>4, <1>5, <1>6, <1>7 DEF OrderParts

\* What a stream was sent are cursors.
LEMMA SentType ==
  ASSUME TypeOK, NEW c \in Client, NEW i \in Sends(c)
  PROVE  Sent(c, i) \in Cursors \cup {None} /\ i \in Nat
<1>1. queue[c] \in Seq(Cursors) /\ told[c] \in Cursors \cup {None}
  BY DEF TypeOK
<1>2. Len(queue[c]) \in Nat
  BY <1>1, LenProperties
<1>3. i # 0 => i \in 1..Len(queue[c])
  BY <1>2 DEF Sends
<1>4. i # 0 => queue[c][i] \in Cursors
  BY <1>1, <1>3, ElementOfSeq
<1> QED BY <1>1, <1>2, <1>4 DEF Sent, Sends

\* An unread mailbox is not older than anything.
LEMMA BlankLate ==
  ASSUME TypeOK
  PROVE  (\A x : Before(x, Blank)) /\ Read(Blank)
<1>1. \A x : Before(x, Blank)
  BY DEF Before, Blank
<1>2. Read(Blank)
  <2>1. \A m \in Mailbox : mail[m] \in Nat /\ time \in Nat
    BY DEF TypeOK, Cursors
  <2> QED BY <2>1 DEF Read, Before, Blank
<1> QED BY <1>1, <1>2

\* Nothing happened to a stream.
LEMMA SameSent ==
  ASSUME NEW c \in Client, queue'[c] = queue[c], told'[c] = told[c]
  PROVE  Sends(c)' = Sends(c) /\ \A i : Sent(c, i)' = Sent(c, i)
BY DEF Sends, Sent

LEMMA ChangeOrder ==
  ASSUME OrderIInv, NEW m \in Mailbox, Change(m)
  PROVE  OrderParts'
<1>0. TypeOK /\ InThePast /\ PollsForward /\ InOrder /\ ClosedIsEmpty
  BY DEF OrderIInv, IInv
<1>1. /\ time' = time + 1 /\ time \in Nat /\ mail \in Cursors
      /\ UNCHANGED <<poller, registered, subs, queue, told>>
  BY <1>0 DEF Change, TypeOK
<1>2. PICK cursor \in {0, time + 1} : mail' = [mail EXCEPT ![m] = cursor]
  BY DEF Change
<1>3. \A x \in Cursors \cup {None} : Read(x) => Read(x)'
  <2> SUFFICES ASSUME NEW x \in Cursors, x # None, Read(x), NEW k \in Mailbox
               PROVE  (mail'[k] = 0 \/ x[k] <= mail'[k]) /\ x[k] <= time'
    BY DEF Read, Before
  <2>1. x[k] \in Nat /\ x[k] <= time /\ (mail[k] = 0 \/ x[k] <= mail[k])
    BY DEF Read, Before, Cursors
  <2>2. mail'[k] = mail[k] \/ mail'[k] \in {0, time + 1}
    BY <1>1, <1>2 DEF Cursors
  <2> QED BY <1>1, <2>1, <2>2
<1>4. \A c \in Client : Sends(c)' = Sends(c) /\ \A i : Sent(c, i)' = Sent(c, i)
  BY <1>1, SameSent
<1>5. InThePast'
  <2>1. \A k \in Mailbox : mail'[k] <= time'
    BY <1>0, <1>1, <1>2 DEF InThePast, Cursors
  <2>2. \A w \in Watcher : /\ last[w] \in Cursors \cup {None}
                           /\ seen[w] \in Cursors \cup {None}
    BY <1>0 DEF TypeOK
  <2>3. UNCHANGED <<last, seen>>
    BY <1>1 DEF poller
  <2>4. \A w \in Watcher : Read(last[w])' /\ Read(seen[w])'
    BY <1>0, <1>3, <2>2, <2>3 DEF InThePast, Read, Before
  <2>5. \A c \in Client : \A i \in Sends(c)' : Read(Sent(c, i))'
    BY <1>0, <1>3, <1>4, SentType DEF InThePast, Read, Before
  <2> QED BY <2>1, <2>4, <2>5 DEF InThePast
<1>6. PollsForward'
  <2>1. \A w \in Watcher : subs[w] \subseteq Client
    BY <1>0 DEF TypeOK
  <2> QED BY <1>0, <1>1, <1>4, <2>1 DEF PollsForward, Before, poller
<1>7. InOrder'
  BY <1>0, <1>4 DEF InOrder, Before
<1>8. ClosedIsEmpty'
  BY <1>0, <1>1 DEF ClosedIsEmpty, Streaming
<1> QED BY <1>5, <1>6, <1>7, <1>8 DEF OrderParts

\* A stream that has just opened: its client is told what the watcher knows.
LEMMA SubscribeOrder ==
  ASSUME OrderIInv, IInv', NEW c \in Client, Subscribe(c)
  PROVE  OrderParts'
<1>0. /\ TypeOK /\ TypeOK' /\ OnlyRegisteredWatches /\ OnlyRegisteredWatches'
      /\ InThePast /\ PollsForward /\ InOrder /\ ClosedIsEmpty
  BY DEF OrderIInv, IInv
<1>1. /\ queue' = [queue EXCEPT ![c] = <<>>] /\ ~Streaming(c)
      /\ UNCHANGED <<mail, time, seen>>
  BY DEF Subscribe, server, poller
<1>2. PICK w \in Watcher :
        /\ w = registered'
        /\ told' = [told EXCEPT ![c] = last'[w]]
        /\ last' = last \/ last' = [last EXCEPT ![w] = None]
        /\ \A v \in Watcher : v # w => subs'[v] = subs[v]
        /\ subs'[w] = subs[w] \cup {c}
  <2>1. CASE registered # None
    <3>1. /\ registered' = registered /\ registered \in Watcher
          /\ told' = [told EXCEPT ![c] = last[registered]] /\ last' = last
          /\ subs' = [subs EXCEPT ![registered] = subs[registered] \cup {c}]
      BY <1>0, <2>1 DEF Subscribe, TypeOK, poller
    <3>2. /\ \A v \in Watcher : v # registered => subs'[v] = subs[v]
          /\ subs'[registered] = subs[registered] \cup {c}
      BY <1>0, <3>1 DEF TypeOK
    <3> QED BY <3>1, <3>2
  <2>2. CASE registered = None
    <3>1. PICK w \in Watcher :
            /\ registered' = w
            /\ subs' = [subs EXCEPT ![w] = {c}]
            /\ told' = [told EXCEPT ![c] = None]
            /\ last' = [last EXCEPT ![w] = None]
      BY <2>2 DEF Subscribe
    <3>2. subs[w] = {} /\ last'[w] = None
      <4>1. subs[w] = {}
        <5>1. w # registered
          BY <2>2
        <5> QED BY <1>0, <5>1, Zenon DEF OnlyRegisteredWatches
      <4>2. last'[w] = None
        BY <1>0, <3>1 DEF TypeOK
      <4> QED BY <4>1, <4>2
    <3>3. /\ \A v \in Watcher : v # w => subs'[v] = subs[v]
          /\ subs'[w] = subs[w] \cup {c}
      BY <1>0, <3>1, <3>2 DEF TypeOK
    <3> QED BY <3>1, <3>2, <3>3
  <2> QED BY <2>1, <2>2
<1>3. /\ \A d \in Client : d # c => /\ Sends(d)' = Sends(d)
                                   /\ \A i : Sent(d, i)' = Sent(d, i)
      /\ \A i \in Sends(c)' : i = 0 /\ Sent(c, i)' = last'[w]
  <2>1. \A d \in Client : d # c => queue'[d] = queue[d] /\ told'[d] = told[d]
    BY <1>0, <1>1, <1>2 DEF TypeOK
  <2>2. queue'[c] = <<>> /\ told'[c] = last'[w]
    BY <1>0, <1>1, <1>2 DEF TypeOK
  <2>3. Len(queue'[c]) = 0
    BY <2>2, EmptySeq
  <2>4. \A i \in Sends(c)' : i = 0 /\ Sent(c, i)' = last'[w]
    BY <2>2, <2>3 DEF Sends, Sent
  <2> QED BY <2>1, <2>4, SameSent
<1>4. \A v \in Watcher : last'[v] = last[v] \/ last'[v] = None
  BY <1>0, <1>2 DEF TypeOK
<1>5. InThePast'
  BY <1>0, <1>1, <1>2, <1>3, <1>4 DEF InThePast, Read, Before
<1>6. PollsForward'
  <2> SUFFICES ASSUME NEW v \in Watcher
               PROVE  /\ Before(last'[v], seen[v])
                      /\ \A d \in subs'[v] : \A i \in Sends(d)' :
                            Before(Sent(d, i)', seen[v])
    BY <1>1 DEF PollsForward, Before
  <2>1. Before(last'[v], seen[v])
    BY <1>0, <1>4 DEF PollsForward, Before
  <2>2. ASSUME NEW d \in subs'[v], NEW i \in Sends(d)'
        PROVE  Before(Sent(d, i)', seen[v])
    <3>1. d \in Client /\ v = w
      BY <1>0, <1>2, <2>2 DEF TypeOK, OnlyRegisteredWatches
    <3>2. CASE d = c
      BY <1>3, <2>1, <2>2, <3>1, <3>2
    <3>3. CASE d # c
      <4>1. d \in subs[w] /\ i \in Sends(d) /\ Sent(d, i)' = Sent(d, i)
        BY <1>2, <1>3, <2>2, <3>1, <3>3
      <4> QED BY <1>0, <3>1, <4>1 DEF PollsForward
    <3> QED BY <3>2, <3>3
  <2> QED BY <2>1, <2>2
<1>7. InOrder'
  <2> SUFFICES ASSUME NEW d \in Client, NEW i \in Sends(d)', NEW j \in Sends(d)',
                      i < j
               PROVE  Before(Sent(d, i)', Sent(d, j)')
    BY DEF InOrder, Before
  <2>1. CASE d = c
    BY <1>3, <2>1
  <2>2. CASE d # c
    BY <1>0, <1>3, <2>2 DEF InOrder
  <2> QED BY <2>1, <2>2
<1>8. ClosedIsEmpty'
  <2>1. \A d \in Client : d # c => queue'[d] = queue[d] /\ told'[d] = told[d]
    BY <1>0, <1>1, <1>2 DEF TypeOK
  <2>2. \A d \in Client : d # c /\ Streaming(d) => Streaming(d)'
    <3>1. \A v \in Watcher : subs[v] \subseteq subs'[v]
      BY <1>2
    <3> QED BY <3>1 DEF Streaming
  <2>3. Streaming(c)'
    BY <1>2 DEF Streaming
  <2> QED BY <1>0, <2>1, <2>2, <2>3 DEF ClosedIsEmpty
<1> QED BY <1>5, <1>6, <1>7, <1>8 DEF OrderParts

\* What a client is told next is what its queue held first.
LEMMA DeliverSent ==
  ASSUME TypeOK, NEW c \in Client, Deliver(c)
  PROVE  /\ 0 \in Sends(c) /\ 1 \in Sends(c)
         /\ told'[c] = Sent(c, 1) /\ told[c] = Sent(c, 0)
         /\ \A i \in Sends(c)' :
               i \in Nat /\ i + 1 \in Sends(c) /\ Sent(c, i)' = Sent(c, i + 1)
         /\ \A d \in Client : d # c => /\ queue'[d] = queue[d]
                                      /\ told'[d] = told[d]
<1> DEFINE s == queue[c]
<1>1. /\ s # <<>> /\ s \in Seq(Cursors)
      /\ told'[c] = Head(s) /\ queue'[c] = Tail(s)
      /\ \A d \in Client : d # c => queue'[d] = queue[d] /\ told'[d] = told[d]
  BY DEF Deliver, TypeOK
<1>2. Len(s) \in Nat /\ Len(s) # 0 /\ Len(s) >= 1
  BY <1>1, EmptySeq, LenProperties
<1>3. /\ Head(s) = s[1] /\ Len(Tail(s)) = Len(s) - 1
      /\ \A i \in 1..Len(Tail(s)) : Tail(s)[i] = s[i + 1]
  BY <1>1, HeadTailProperties
<1>4. 0 \in Sends(c) /\ 1 \in Sends(c) /\ Sends(c)' = 0..(Len(s) - 1)
  BY <1>1, <1>2, <1>3 DEF Sends
<1>5. told'[c] = Sent(c, 1) /\ told[c] = Sent(c, 0)
  BY <1>1, <1>3 DEF Sent
<1>6. ASSUME NEW i \in Sends(c)'
      PROVE  i \in Nat /\ i + 1 \in Sends(c) /\ Sent(c, i)' = Sent(c, i + 1)
  <2>1. i \in Nat /\ i + 1 # 0 /\ i + 1 \in Sends(c)
    BY <1>2, <1>4, <1>6 DEF Sends
  <2>2. CASE i = 0
    BY <1>5, <2>1, <2>2 DEF Sent
  <2>3. CASE i # 0
    <3>1. i \in 1..Len(Tail(s))
      BY <1>2, <1>3, <1>4, <1>6, <2>3
    <3> QED BY <1>1, <1>3, <2>1, <2>3, <3>1 DEF Sent
  <2> QED BY <2>1, <2>2, <2>3
<1> QED BY <1>1, <1>4, <1>5, <1>6

LEMMA DeliverOrder ==
  ASSUME OrderIInv, NEW c \in Client, Deliver(c)
  PROVE  OrderParts'
<1>0. TypeOK /\ InThePast /\ PollsForward /\ InOrder /\ ClosedIsEmpty
  BY DEF OrderIInv, IInv
<1>1. UNCHANGED <<mail, time, seen, last, subs>>
  BY DEF Deliver, server, poller
<1>2. ASSUME NEW d \in Client, d # c
      PROVE  Sends(d)' = Sends(d) /\ \A i : Sent(d, i)' = Sent(d, i)
  BY <1>0, <1>2, DeliverSent, SameSent
<1>3. ASSUME NEW d \in Client, NEW i \in Sends(d)'
      PROVE  \E k \in Sends(d) : Sent(d, i)' = Sent(d, k)
  BY <1>0, <1>2, <1>3, DeliverSent
<1>4. InThePast'
  BY <1>0, <1>1, <1>3 DEF InThePast, Read, Before
<1>5. PollsForward'
  <2>1. \A w \in Watcher : subs[w] \subseteq Client
    BY <1>0 DEF TypeOK
  <2> QED BY <1>0, <1>1, <1>3, <2>1 DEF PollsForward, Before
<1>6. InOrder'
  <2> SUFFICES ASSUME NEW d \in Client, NEW i \in Sends(d)', NEW j \in Sends(d)',
                      i < j
               PROVE  Before(Sent(d, i)', Sent(d, j)')
    BY DEF InOrder, Before
  <2>1. CASE d = c
    <3>1. /\ i \in Nat /\ i + 1 \in Sends(c) /\ Sent(c, i)' = Sent(c, i + 1)
          /\ j \in Nat /\ j + 1 \in Sends(c) /\ Sent(c, j)' = Sent(c, j + 1)
      BY <1>0, <2>1, DeliverSent
    <3>2. i + 1 < j + 1
      BY <3>1
    <3>3. Before(Sent(c, i + 1), Sent(c, j + 1))
      BY <1>0, <3>1, <3>2 DEF InOrder
    <3> QED BY <2>1, <3>1, <3>3
  <2>2. CASE d # c
    BY <1>0, <1>2, <2>2 DEF InOrder
  <2> QED BY <2>1, <2>2
<1>7. ClosedIsEmpty'
  <2>1. Streaming(c)
    BY <1>0 DEF ClosedIsEmpty, Deliver
  <2> QED BY <1>0, <1>1, <2>1, DeliverSent DEF ClosedIsEmpty, Streaming
<1> QED BY <1>4, <1>5, <1>6, <1>7 DEF OrderParts

LEMMA CloseOrder ==
  ASSUME OrderIInv, NEW c \in Client, Close(c)
  PROVE  OrderParts'
<1>0. /\ TypeOK /\ OnlyRegisteredWatches
      /\ InThePast /\ PollsForward /\ InOrder /\ ClosedIsEmpty
  BY DEF OrderIInv, IInv
<1> DEFINE w == CHOOSE v \in Watcher : c \in subs[v]
<1>1. w \in Watcher /\ c \in subs[w]
  BY DEF Close, Streaming
<1>2. /\ subs' = [subs EXCEPT ![w] = subs[w] \ {c}]
      /\ \/ last' = [last EXCEPT ![w] = None] /\ seen' = [seen EXCEPT ![w] = Blank]
         \/ UNCHANGED <<last, seen>>
      /\ queue' = [queue EXCEPT ![c] = <<>>]
      /\ told' = [told EXCEPT ![c] = None]
      /\ UNCHANGED <<mail, time>>
  BY DEF Close, CancelTask, DropPoll, server
<1> HIDE DEF w
<1>3. \A v \in Watcher :
         /\ last'[v] = last[v] \/ last'[v] = None
         /\ seen'[v] = seen[v] \/ seen'[v] = Blank
         /\ subs'[v] \subseteq subs[v] /\ c \notin subs'[v]
         /\ subs[v] \ {c} \subseteq subs'[v]
  BY <1>0, <1>1, <1>2 DEF TypeOK, OnlyRegisteredWatches
<1>4. /\ \A d \in Client : d # c => queue'[d] = queue[d] /\ told'[d] = told[d]
      /\ queue'[c] = <<>> /\ told'[c] = None
  BY <1>0, <1>2 DEF TypeOK
<1>5. /\ \A d \in Client : d # c => /\ Sends(d)' = Sends(d)
                                   /\ \A i : Sent(d, i)' = Sent(d, i)
      /\ \A i \in Sends(c)' : i = 0 /\ Sent(c, i)' = None
  <2>1. Len(queue'[c]) = 0
    BY <1>4, EmptySeq
  <2>2. \A i \in Sends(c)' : i = 0 /\ Sent(c, i)' = None
    BY <1>4, <2>1 DEF Sends, Sent
  <2> QED BY <1>4, <2>2, SameSent
<1>6. (\A x : Before(x, Blank)) /\ Read(Blank)
  BY <1>0, BlankLate
<1>7. InThePast'
  <2>1. \A v \in Watcher : Read(last'[v]) /\ Read(seen'[v])
    BY <1>0, <1>3, <1>6 DEF InThePast, Read, Before
  <2>2. \A d \in Client : \A i \in Sends(d)' : Read(Sent(d, i)')
    BY <1>0, <1>5 DEF InThePast, Read, Before
  <2> QED BY <1>0, <1>2, <2>1, <2>2 DEF InThePast, Read, Before
<1>8. PollsForward'
  <2> SUFFICES ASSUME NEW v \in Watcher
               PROVE  /\ Before(last'[v], seen'[v])
                      /\ \A d \in subs'[v] : \A i \in Sends(d)' :
                            Before(Sent(d, i)', seen'[v])
    BY DEF PollsForward, Before
  <2>1. Before(last'[v], seen'[v])
    BY <1>0, <1>3, <1>6 DEF PollsForward, Before
  <2>2. ASSUME NEW d \in subs'[v], NEW i \in Sends(d)'
        PROVE  Before(Sent(d, i)', seen'[v])
    <3>1. d \in Client /\ d # c /\ d \in subs[v]
      BY <1>0, <1>3, <2>2 DEF TypeOK
    <3>2. Before(Sent(d, i), seen[v])
      BY <1>0, <1>5, <2>2, <3>1 DEF PollsForward
    <3> QED BY <1>3, <1>5, <1>6, <3>1, <3>2
  <2> QED BY <2>1, <2>2
<1>9. InOrder' /\ ClosedIsEmpty'
  <2>1. InOrder'
    <3> SUFFICES ASSUME NEW d \in Client, NEW i \in Sends(d)', NEW j \in Sends(d)',
                        i < j
                 PROVE  Before(Sent(d, i)', Sent(d, j)')
      BY DEF InOrder, Before
    <3>1. CASE d = c
      BY <1>5, <3>1
    <3>2. CASE d # c
      BY <1>0, <1>5, <3>2 DEF InOrder
    <3> QED BY <3>1, <3>2
  <2>2. \A d \in Client : d # c /\ Streaming(d) => Streaming(d)'
    BY <1>3 DEF Streaming
  <2> QED BY <1>0, <1>4, <2>1, <2>2 DEF ClosedIsEmpty
<1> QED BY <1>7, <1>8, <1>9 DEF OrderParts

\* A poll under way has read one mailbox more, or starts again.
LEMMA PollOrder ==
  ASSUME OrderIInv, NEW w \in Watcher, NEW r \in Cursors,
         UNCHANGED <<mail, time, subs, last, queue, told>>,
         seen' = [seen EXCEPT ![w] = r], Read(r),
         \A x \in Cursors \cup {None} :
            Read(x) /\ Before(x, seen[w]) => Before(x, r)
  PROVE  OrderParts'
<1>0. TypeOK /\ InThePast /\ PollsForward /\ InOrder /\ ClosedIsEmpty
  BY DEF OrderIInv, IInv
<1>1. \A c \in Client : Sends(c)' = Sends(c) /\ \A i : Sent(c, i)' = Sent(c, i)
  BY SameSent
<1>2. seen'[w] = r /\ \A v \in Watcher : v # w => seen'[v] = seen[v]
  BY <1>0 DEF TypeOK
<1>3. InThePast'
  BY <1>0, <1>1, <1>2 DEF InThePast, Read, Before
<1>4. PollsForward'
  <2> SUFFICES ASSUME NEW v \in Watcher
               PROVE  /\ Before(last[v], seen'[v])
                      /\ \A d \in subs[v] : \A i \in Sends(d) :
                            Before(Sent(d, i), seen'[v])
    <3>1. \A u \in Watcher : subs[u] \subseteq Client
      BY <1>0 DEF TypeOK
    <3> QED BY <1>1, <3>1 DEF PollsForward, Before
  <2>1. CASE v # w
    BY <1>0, <1>2, <2>1 DEF PollsForward
  <2>2. CASE v = w
    <3>1. /\ last[w] \in Cursors \cup {None} /\ Read(last[w])
          /\ Before(last[w], seen[w])
      BY <1>0 DEF TypeOK, InThePast, PollsForward
    <3>2. ASSUME NEW d \in subs[w], NEW i \in Sends(d)
          PROVE  /\ Sent(d, i) \in Cursors \cup {None} /\ Read(Sent(d, i))
                 /\ Before(Sent(d, i), seen[w])
      <4>1. d \in Client
        BY <1>0 DEF TypeOK
      <4> QED BY <1>0, <4>1, SentType DEF InThePast, PollsForward
    <3> QED BY <1>2, <2>2, <3>1, <3>2
  <2> QED BY <2>1, <2>2
<1>5. InOrder' /\ ClosedIsEmpty'
  BY <1>0, <1>1 DEF InOrder, Before, ClosedIsEmpty, Streaming
<1> QED BY <1>3, <1>4, <1>5 DEF OrderParts

\* A step of the task that reads and pushes nothing.
LEMMA QuietOrder ==
  ASSUME OrderIInv, UNCHANGED <<mail, time, subs, last, seen, queue, told>>
  PROVE  OrderParts'
<1>0. TypeOK /\ InThePast /\ PollsForward /\ InOrder /\ ClosedIsEmpty
  BY DEF OrderIInv, IInv
<1>1. \A c \in Client : Sends(c)' = Sends(c) /\ \A i : Sent(c, i)' = Sent(c, i)
  BY SameSent
<1>2. InThePast'
  BY <1>0, <1>1 DEF InThePast, Read, Before
<1>3. PollsForward'
  <2>1. \A v \in Watcher : subs[v] \subseteq Client
    BY <1>0 DEF TypeOK
  <2> QED BY <1>0, <1>1, <2>1 DEF PollsForward, Before
<1>4. InOrder' /\ ClosedIsEmpty'
  BY <1>0, <1>1 DEF InOrder, Before, ClosedIsEmpty, Streaming
<1> QED BY <1>2, <1>3, <1>4 DEF OrderParts

\* A poll ends: its cursors are the watcher's, and perhaps pushed.
LEMMA FinishOrder ==
  ASSUME OrderIInv, NEW w \in Watcher, NEW r \in Cursors, Finish(w, r),
         UNCHANGED <<mail, time, subs, told>>,
         seen' = [seen EXCEPT ![w] = Blank], Read(r),
         \A x \in Cursors \cup {None} :
            Read(x) /\ Before(x, seen[w]) => Before(x, r)
  PROVE  OrderParts'
<1>0. /\ TypeOK /\ OnlyRegisteredWatches
      /\ InThePast /\ PollsForward /\ InOrder /\ ClosedIsEmpty
  BY DEF OrderIInv, IInv
<1>1. /\ last'[w] = r /\ \A v \in Watcher : v # w => last'[v] = last[v]
      /\ seen'[w] = Blank /\ \A v \in Watcher : v # w => seen'[v] = seen[v]
  BY <1>0 DEF Finish, TypeOK
<1>2. ASSUME NEW c \in Client
      PROVE  \/ Sends(c)' = Sends(c) /\ \A i : Sent(c, i)' = Sent(c, i)
             \/ /\ c \in subs[w]
                /\ \A i \in Sends(c) : Sent(c, i)' = Sent(c, i)
                /\ \A i \in Sends(c)' : i \notin Sends(c) => Sent(c, i)' = r
                /\ \A i, j \in Sends(c)' : i < j => i \in Sends(c)
  <2> DEFINE s == queue[c]
  <2>1. s \in Seq(Cursors) /\ Len(s) \in Nat
    BY <1>0, LenProperties DEF TypeOK
  <2>2. queue'[c] = queue[c] \/ (c \in subs[w] /\ queue'[c] = Append(s, r))
    BY <1>0 DEF Finish, TypeOK
  <2>3. CASE queue'[c] = queue[c]
    BY <2>3, SameSent
  <2>4. CASE c \in subs[w] /\ queue'[c] = Append(s, r)
    <3>1. /\ Len(Append(s, r)) = Len(s) + 1
          /\ \A i \in 1..Len(s) : Append(s, r)[i] = s[i]
          /\ Append(s, r)[Len(s) + 1] = r
      BY <2>1, AppendProperties
    <3>2. Sends(c) = 0..Len(s) /\ Sends(c)' = 0..(Len(s) + 1)
      BY <2>4, <3>1 DEF Sends
    <3>3. \A i \in Sends(c) : Sent(c, i)' = Sent(c, i)
      <4> SUFFICES ASSUME NEW i \in Sends(c) PROVE Sent(c, i)' = Sent(c, i)
        OBVIOUS
      <4>1. i = 0 \/ i \in 1..Len(s)
        BY <2>1, <3>2
      <4> QED BY <2>4, <3>1, <4>1 DEF Sent
    <3>4. \A i \in Sends(c)' : i \notin Sends(c) => Sent(c, i)' = r
      <4> SUFFICES ASSUME NEW i \in Sends(c)', i \notin Sends(c)
                   PROVE  Sent(c, i)' = r
        OBVIOUS
      <4>1. i = Len(s) + 1 /\ i # 0
        BY <2>1, <3>2
      <4> QED BY <2>4, <3>1, <4>1 DEF Sent
    <3>5. \A i, j \in Sends(c)' : i < j => i \in Sends(c)
      BY <2>1, <3>2
    <3> QED BY <2>4, <3>3, <3>4, <3>5
  <2> QED BY <2>2, <2>3, <2>4
<1>3. ASSUME NEW c \in Client, NEW i \in Sends(c)'
      PROVE  \/ i \in Sends(c) /\ Sent(c, i)' = Sent(c, i)
             \/ c \in subs[w] /\ Sent(c, i)' = r
  BY <1>2, <1>3
<1>4. ASSUME NEW c \in Client, NEW i \in Sends(c)
      PROVE  /\ Sent(c, i) \in Cursors \cup {None} /\ Read(Sent(c, i))
             /\ c \in subs[w] => Before(Sent(c, i), r)
  <2>1. Sent(c, i) \in Cursors \cup {None} /\ Read(Sent(c, i))
    BY <1>0, <1>4, SentType DEF InThePast
  <2>2. ASSUME c \in subs[w] PROVE Before(Sent(c, i), seen[w])
    BY <1>0, <1>4, <2>2 DEF PollsForward
  <2> QED BY <2>1, <2>2
<1>5. (\A x : Before(x, Blank)) /\ Read(Blank)
  BY <1>0, BlankLate
<1>6. InThePast'
  <2>1. \A v \in Watcher : Read(last'[v]) /\ Read(seen'[v])
    BY <1>0, <1>1, <1>5 DEF InThePast
  <2>2. \A c \in Client : \A i \in Sends(c)' : Read(Sent(c, i)')
    BY <1>3, <1>4
  <2> QED BY <1>0, <2>1, <2>2 DEF InThePast, Read, Before
<1>7. PollsForward'
  <2> SUFFICES ASSUME NEW v \in Watcher
               PROVE  /\ Before(last'[v], seen'[v])
                      /\ \A d \in subs[v] : \A i \in Sends(d)' :
                            Before(Sent(d, i)', seen'[v])
    BY DEF PollsForward, Before
  <2>1. CASE v = w
    BY <1>1, <1>5, <2>1
  <2>2. CASE v # w
    <3>1. last'[v] = last[v] /\ seen'[v] = seen[v]
      BY <1>1, <2>2
    <3>2. ASSUME NEW d \in subs[v], NEW i \in Sends(d)'
          PROVE  Before(Sent(d, i)', seen[v])
      <4>1. d \in Client /\ d \notin subs[w]
        BY <1>0, <2>2 DEF TypeOK, OnlyRegisteredWatches
      <4>2. i \in Sends(d) /\ Sent(d, i)' = Sent(d, i)
        BY <1>3, <3>2, <4>1
      <4> QED BY <1>0, <4>2 DEF PollsForward
    <3> QED BY <1>0, <3>1, <3>2 DEF PollsForward
  <2> QED BY <2>1, <2>2
<1>8. InOrder'
  <2> SUFFICES ASSUME NEW c \in Client, NEW i \in Sends(c)', NEW j \in Sends(c)',
                      i < j
               PROVE  Before(Sent(c, i)', Sent(c, j)')
    BY DEF InOrder, Before
  <2>1. CASE Sends(c)' = Sends(c) /\ \A k : Sent(c, k)' = Sent(c, k)
    BY <1>0, <2>1 DEF InOrder
  <2>2. CASE /\ c \in subs[w]
             /\ \A k \in Sends(c) : Sent(c, k)' = Sent(c, k)
             /\ \A k \in Sends(c)' : k \notin Sends(c) => Sent(c, k)' = r
             /\ \A k, l \in Sends(c)' : k < l => k \in Sends(c)
    <3>1. i \in Sends(c) /\ Sent(c, i)' = Sent(c, i)
      BY <2>2
    <3>2. CASE j \in Sends(c)
      BY <1>0, <2>2, <3>1, <3>2 DEF InOrder
    <3>3. CASE j \notin Sends(c)
      BY <1>4, <2>2, <3>1, <3>3
    <3> QED BY <3>2, <3>3
  <2> QED BY <1>2, <2>1, <2>2
<1>9. ClosedIsEmpty'
  <2>1. \A c \in Client : queue'[c] = queue[c] \/ c \in subs[w]
    BY <1>0 DEF Finish, TypeOK
  <2>2. \A c \in Client : Streaming(c)' <=> Streaming(c)
    BY DEF Streaming
  <2>3. \A c \in Client : c \in subs[w] => Streaming(c)
    BY DEF Streaming
  <2> QED BY <1>0, <2>1, <2>2, <2>3 DEF ClosedIsEmpty
<1> QED BY <1>6, <1>7, <1>8, <1>9 DEF OrderParts

\* What a poll reads of one mailbox.
LEMMA ReadOne ==
  ASSUME TypeOK, InThePast, NEW w \in Watcher, NEW m \in Mailbox, mail[m] # 0,
         NEW r, r = [seen[w] EXCEPT ![m] = mail[m]]
  PROVE  /\ r \in Cursors /\ Read(r)
         /\ \A x \in Cursors \cup {None} :
               Read(x) /\ Before(x, seen[w]) => Before(x, r)
<1>1. /\ seen[w] \in Cursors /\ mail \in Cursors /\ Read(seen[w]) /\ seen[w] # None
      /\ mail[m] \in 0..MaxChanges /\ mail[m] <= time /\ mail[m] <= mail[m]
  BY DEF TypeOK, InThePast, Cursors
<1>2. /\ r[m] = mail[m] /\ \A k \in Mailbox : k # m => r[k] = seen[w][k]
      /\ r \in Cursors
  BY <1>1 DEF Cursors
<1>3. Read(r)
  BY <1>1, <1>2 DEF Read, Before
<1>4. ASSUME NEW x \in Cursors \cup {None}, Read(x), Before(x, seen[w])
      PROVE  Before(x, r)
  BY <1>2, <1>4 DEF Read, Before
<1> QED BY <1>2, <1>3, <1>4

LEMMA PollStepOrder ==
  ASSUME OrderIInv, NEW w \in Watcher, PollStep(w)
  PROVE  OrderParts'
<1>0. TypeOK /\ InThePast
  BY DEF OrderIInv, IInv
<1>1. CASE \/ Wake(w) \/ ConnectOk(w) \/ ConnectFails(w) \/ ListRaises(w)
           \/ Hangup(w) \/ Closed(w)
  BY <1>1, QuietOrder DEF Wake, ConnectOk, ConnectFails, ListRaises, Hangup,
     Closed, server, streams
<1>2. CASE SelectFails(w)
  BY <1>0, <1>2, BlankType, BlankLate, PollOrder
  DEF SelectFails, DropPoll, server, streams
<1>3. CASE ListOk(w)
  <2>1. /\ UNCHANGED <<mail, time, subs, told>>
        /\ seen' = [seen EXCEPT ![w] = Blank]
        /\ Finish(w, Blank) \/ UNCHANGED <<last, queue>>
    BY <1>3 DEF ListOk, server, streams
  <2> QED BY <1>0, <2>1, BlankType, BlankLate, PollOrder, FinishOrder
<1>4. CASE SelectOk(w)
  <2>1. PICK m \in todo[w] :
          /\ mail[m] # 0
          /\ IF todo[w] \ {m} = {}
               THEN /\ Finish(w, [seen[w] EXCEPT ![m] = mail[m]])
                    /\ DropPoll(w)
               ELSE /\ seen' = [seen EXCEPT ![w] = [seen[w] EXCEPT ![m] = mail[m]]]
                    /\ UNCHANGED <<last, queue>>
    BY <1>4 DEF SelectOk
  <2>2. UNCHANGED <<mail, time, subs, told>>
    BY <1>4 DEF SelectOk, server, streams
  <2>3. PICK r : r = [seen[w] EXCEPT ![m] = mail[m]]
    OBVIOUS
  <2>4. m \in Mailbox
    BY <1>0 DEF TypeOK
  <2>5. /\ r \in Cursors /\ Read(r)
        /\ \A x \in Cursors \cup {None} :
              Read(x) /\ Before(x, seen[w]) => Before(x, r)
    BY <1>0, <2>1, <2>3, <2>4, ReadOne
  <2>6. CASE todo[w] \ {m} = {}
    <3>1. Finish(w, r) /\ seen' = [seen EXCEPT ![w] = Blank]
      BY <2>1, <2>3, <2>6 DEF DropPoll
    <3> QED BY <2>2, <2>5, <3>1, FinishOrder
  <2>7. CASE todo[w] \ {m} # {}
    <3>1. seen' = [seen EXCEPT ![w] = r] /\ UNCHANGED <<last, queue>>
      BY <2>1, <2>3, <2>7
    <3> QED BY <2>2, <2>5, <3>1, PollOrder
  <2> QED BY <2>6, <2>7
<1> QED BY <1>1, <1>2, <1>3, <1>4 DEF PollStep

LEMMA OrderNext == OrderIInv /\ IInv' /\ [Next]_vars => OrderIInv'
<1> SUFFICES ASSUME OrderIInv, IInv', [Next]_vars PROVE OrderParts'
  BY DEF OrderIInv, OrderParts
<1>1. ASSUME NEW m \in Mailbox, Change(m) PROVE OrderParts'
  BY <1>1, ChangeOrder
<1>2. ASSUME NEW c \in Client, StreamStep(c) PROVE OrderParts'
  BY <1>2, SubscribeOrder, DeliverOrder, CloseOrder DEF StreamStep
<1>3. ASSUME NEW w \in Watcher, PollStep(w) PROVE OrderParts'
  BY <1>3, PollStepOrder
<1>4. CASE UNCHANGED vars
  BY <1>4, QuietOrder DEF vars, server, poller
<1> QED BY <1>1, <1>2, <1>3, <1>4 DEF Next

LEMMA TellsForward ==
  ASSUME OrderIInv, Next, NEW c \in Client, told[c] # None, told'[c] # None
  PROVE  ~Older(told'[c], told[c])
<1>0. TypeOK /\ InOrder /\ ClosedIsEmpty
  BY DEF OrderIInv, IInv
<1>1. told[c] \in Cursors
  BY <1>0 DEF TypeOK
<1>2. CASE told'[c] = told[c]
  BY <1>1, <1>2 DEF Older, Cursors
<1>3. CASE \E d \in Client : Deliver(d)
  <2>1. PICK d \in Client : Deliver(d)
    BY <1>3
  <2>2. CASE d = c
    <3>1. 0 \in Sends(c) /\ 1 \in Sends(c) /\ told'[c] = Sent(c, 1)
          /\ told[c] = Sent(c, 0)
      BY <1>0, <2>1, <2>2, DeliverSent
    <3>2. Before(told[c], told'[c])
      BY <1>0, <3>1 DEF InOrder
    <3>3. told'[c] \in Cursors
      BY <1>0, <3>1, SentType
    <3> QED BY <1>1, <3>2, <3>3 DEF Before, Older, Cursors
  <2>3. CASE d # c
    BY <1>0, <1>2, <2>1, <2>3, DeliverSent
  <2> QED BY <2>2, <2>3
<1>4. CASE \E d \in Client : Subscribe(d)
  <2>1. PICK d \in Client : Subscribe(d)
    BY <1>4
  <2>2. c # d
    BY <1>0, <2>1 DEF Subscribe, ClosedIsEmpty
  <2>3. told'[c] = told[c]
    BY <1>0, <2>1, <2>2 DEF Subscribe, TypeOK
  <2> QED BY <1>2, <2>3
<1>5. CASE \E d \in Client : Close(d)
  <2>1. told'[c] = told[c]
    BY <1>0, <1>5 DEF Close, TypeOK
  <2> QED BY <1>2, <2>1
<1>6. CASE \E m \in Mailbox : Change(m)
  BY <1>2, <1>6 DEF Change
<1>7. CASE \E w \in Watcher : PollStep(w)
  BY <1>2, <1>7 DEF PollStep, Wake, ConnectOk, ConnectFails, ListOk, ListRaises,
     SelectOk, SelectFails, Hangup, Closed
<1> QED BY <1>3, <1>4, <1>5, <1>6, <1>7 DEF Next, StreamStep

\* No client is ever told an older cursor of a mailbox than it was told before,
\* whatever streams open and close and however polls fail (push.py:123-139).
THEOREM NoStepBack == Spec => NeverBackwards
<1>1. Init /\ IInv => OrderIInv
  BY OrderInit DEF OrderIInv, OrderParts
<1>2. Spec => []IInv
  BY WatcherInvariance
<1>3. OrderIInv /\ IInv' /\ [Next]_vars => OrderIInv'
  BY OrderNext
<1>4. OrderIInv /\ [Next]_vars =>
         [\A c \in Client : told[c] # None /\ told'[c] # None
                               => ~Older(told'[c], told[c])]_vars
  BY TellsForward
<1> QED BY <1>1, <1>2, <1>3, <1>4, PTL DEF Spec, NeverBackwards
=============================================================================
