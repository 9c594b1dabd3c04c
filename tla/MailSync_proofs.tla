---------------------------- MODULE MailSync_proofs ----------------------------
(***************************************************************************)
(* Proofs about MailSync: types, that a finished batch has an answer for   *)
(* all it asked, so that what the client adopts is well typed, and that a  *)
(* client whose first state string comes of a sweep before its first       *)
(* search misses no message or change but what email.py:747 leaves out.    *)
(*                                                                         *)
(* Then about MailboxNames, which shares no state with it: that no mailbox *)
(* is deleted unasked, that no id leads to another mailbox than its own,   *)
(* and that renames keep the ids that top-level mailboxes had at first.    *)
(***************************************************************************)
EXTENDS MailSync, MCMailboxNames, IdRedirect_proofs

\* What a call has fetched, and that Email/changes swept every mailbox the
\* old state string names.
Filled ==
    /\ call.plan = ChangesPlan /\ call.at > 2 =>
          DOMAIN token \subseteq DOMAIN call.sweep
    /\ call.at > 0 =>
          /\ call.at < Len(call.plan) - 1 => DOMAIN call.got = {}
          /\ call.at = Len(call.plan) - 1 =>
                DOMAIN call.got = DOMAIN call.found \ call.todo
          /\ call.at = Len(call.plan) => DOMAIN call.got = DOMAIN call.found

-----------------------------------------------------------------------------
LEMMA EmptyMap == ASSUME NEW S PROVE IsMap(Empty, S) /\ DOMAIN Empty = {}
BY DEF IsMap, Empty

LEMMA Plans ==
    /\ Len(MailboxesFirst) = 5 /\ Len(QueryFirst) = 4 /\ Len(ChangesPlan) = 4
    /\ MailboxesFirst # ChangesPlan /\ QueryFirst # ChangesPlan
<1>1. Len(MailboxesFirst) = 5 /\ Len(QueryFirst) = 4 /\ Len(ChangesPlan) = 4
  BY DEF MailboxesFirst, QueryFirst, ChangesPlan
<1>2. MailboxesFirst[2] # ChangesPlan[2] /\ QueryFirst[1] # ChangesPlan[1]
  BY DEF MailboxesFirst, QueryFirst, ChangesPlan
<1> QED BY <1>1, <1>2

\* A cursor read from a mailbox is one.
LEMMA CursorType ==
    ASSUME BoxOK, NEW m \in DOMAIN box PROVE IsCursor(Cursor(box[m]))
<1>1. DOMAIN box[m].msgs \in SUBSET Nat
  BY DEF BoxOK, IsMessages, IsMap
<1>2. /\ box[m].uv \in 1..(changes + 1)
      /\ box[m].next \in Nat /\ box[m].modseq \in Nat
  BY DEF BoxOK
<1> QED BY <1>1, <1>2 DEF IsCursor, Cursor

\* No call in progress is well typed.
LEMMA BatchType ==
    ASSUME NEW plan \in Boots \cup {ChangesPlan}, NEW at \in 0..5,
           at # 0 => at <= Len(plan) /\ (synced' <=> plan = ChangesPlan),
           (plan[at] # "compare" /\ plan[at] # "get") \/ at = 0,
           call' = Batch(plan, at)
    PROVE  CallOK'
BY EmptyMap, SMTT(30) DEF CallOK, Batch, Idle, InPhase, IsMap

\* What other clients do leaves the bridge's part alone.
LEMMA OutsideType ==
    ASSUME TypeOK, Outside, BoxOK', UNCHANGED <<client, call>>
    PROVE  TypeOK'
<1>1. changes \in Nat /\ changes' = changes + 1
  BY DEF TypeOK, BoxOK, Outside
<1>2. \A n : n \in 1..(changes + 1) => n \in 1..(changes' + 1)
  BY <1>1
<1>3. ClientOK'
  BY <1>2 DEF TypeOK, ClientOK, IsCursor, client
<1>4. CallOK'
  BY <1>2 DEF TypeOK, CallOK, IsCursor, client, Idle, InPhase
<1> QED BY <1>3, <1>4 DEF TypeOK

\* A mailbox is made of its parts.
LEMMA Parts ==
    ASSUME NEW uv, NEW next, NEW modseq, NEW msgs
    PROVE  LET b == Mail(uv, next, modseq, msgs)
           IN  /\ b.uv = uv /\ b.next = next
               /\ b.modseq = modseq /\ b.msgs = msgs
BY DEF Mail

\* A mailbox another client changed.
LEMMA OthersType ==
    ASSUME TypeOK, NEW m \in DOMAIN box, NEW next \in Nat, NEW modseq \in Nat,
           NEW msgs, IsMessages(msgs),
           \A u \in DOMAIN msgs : u < next /\ msgs[u] <= modseq,
           Others(m, Mail(box[m].uv, next, modseq, msgs))
    PROVE  TypeOK'
<1> DEFINE b == Mail(box[m].uv, next, modseq, msgs)
<1>1. /\ DOMAIN box' = DOMAIN box /\ box'[m] = b
      /\ \A x \in DOMAIN box : x # m => box'[x] = box[x]
      /\ IsMap(box', Mailbox)
  BY DEF Others, TypeOK, BoxOK, IsMap
<1>2. changes \in Nat /\ changes' = changes + 1 /\ changes' \in 0..MaxChanges
  BY SyncAssumption DEF TypeOK, BoxOK, Others, Outside
<1>3. \A n : n \in 1..(changes + 1) => n \in 1..(changes' + 1)
  BY <1>2
<1>4. ASSUME NEW x \in DOMAIN box'
      PROVE  /\ box'[x] \in [uv : 1..(changes' + 1), next : Nat, modseq : Nat,
                             msgs : {box'[x].msgs}]
             /\ IsMessages(box'[x].msgs)
             /\ \A u \in DOMAIN box'[x].msgs :
                   u < box'[x].next /\ box'[x].msgs[u] <= box'[x].modseq
  <2>1. CASE x = m
    <3>1. box[m].uv \in 1..(changes' + 1)
      BY <1>3 DEF TypeOK, BoxOK
    <3>2. b \in [uv : 1..(changes' + 1), next : Nat, modseq : Nat,
                 msgs : {b.msgs}]
      BY <3>1 DEF Mail
    <3> QED BY <2>1, <1>1, <3>2, Parts
  <2>2. CASE x # m
    BY <2>2, <1>1, <1>3 DEF TypeOK, BoxOK
  <2> QED BY <2>1, <2>2
<1>5. server' \in Servers
  BY DEF Others, TypeOK, BoxOK
<1>6. BoxOK'
  BY <1>1, <1>2, <1>4, <1>5 DEF BoxOK, IsMessages
<1> QED BY <1>6, OutsideType DEF Others

LEMMA ChangingType == ASSUME TypeOK, Changing PROVE TypeOK'
<1>1. PICK m \in Mailbox :
        \/ Deliver(m) \/ Create(m) \/ Drop(m)
        \/ m \in DOMAIN box /\ \E u \in DOMAIN box[m].msgs :
              SetFlags(m, u) \/ Expunge(m, u)
  BY DEF Changing
<1> DEFINE b == box[m]
<1>a. ASSUME m \in DOMAIN box
      PROVE  /\ b.next \in Nat /\ b.modseq \in Nat /\ IsMap(b.msgs, Nat)
             /\ \A u \in DOMAIN b.msgs : /\ u \in Nat /\ b.msgs[u] \in Nat
                                         /\ u < b.next
                                         /\ b.msgs[u] <= b.modseq
  BY <1>a DEF TypeOK, BoxOK, IsMessages, IsMap
<1>2. CASE Deliver(m)
  <2> DEFINE msgs == With(b.msgs, b.next, b.modseq + 1)
  <2>1. m \in DOMAIN box /\ Others(m, Mail(b.uv, b.next + 1, b.modseq + 1, msgs))
    BY <1>2 DEF Deliver
  <2>3. /\ IsMap(msgs, Nat) /\ DOMAIN msgs = DOMAIN b.msgs \cup {b.next}
        /\ msgs[b.next] = b.modseq + 1
        /\ \A x \in DOMAIN b.msgs : x # b.next => msgs[x] = b.msgs[x]
    <3> DEFINE old == b.msgs  n == b.next  k == b.modseq + 1
    <3>1. n \in Nat /\ IsMap(old, Nat)
      BY <2>1, <1>a
    <3> HIDE DEF old, n, k
    <3>2. /\ IsMap(With(old, n, k), Nat)
          /\ DOMAIN With(old, n, k) = DOMAIN old \cup {n}
          /\ With(old, n, k)[n] = k
          /\ \A x \in DOMAIN old : x # n => With(old, n, k)[x] = old[x]
      BY <3>1 DEF With, IsMap
    <3> QED BY <3>2, Zenon DEF old, n, k
  <2> HIDE DEF msgs
  <2>4. \A u \in DOMAIN msgs :
           u < b.next + 1 /\ msgs[u] \in Nat /\ msgs[u] <= b.modseq + 1
    BY <2>1, <2>3, <1>a
  <2>5. IsMessages(msgs)
    BY <2>3, <2>4 DEF IsMessages
  <2>6. b.next + 1 \in Nat /\ b.modseq + 1 \in Nat
    BY <2>1, <1>a
  <2> QED BY <2>1, <2>4, <2>5, <2>6, OthersType
<1>3. ASSUME m \in DOMAIN box, NEW u \in DOMAIN box[m].msgs, SetFlags(m, u)
      PROVE  TypeOK'
  <2> DEFINE msgs == With(b.msgs, u, b.modseq + 1)
  <2>1. Others(m, Mail(b.uv, b.next, b.modseq + 1, msgs))
    BY <1>3 DEF SetFlags
  <2>3. /\ IsMap(msgs, Nat) /\ DOMAIN msgs = DOMAIN b.msgs \cup {u}
        /\ msgs[u] = b.modseq + 1
        /\ \A x \in DOMAIN b.msgs : x # u => msgs[x] = b.msgs[x]
    <3> DEFINE old == b.msgs  k == b.modseq + 1
    <3>1. u \in Nat /\ IsMap(old, Nat)
      BY <1>3, <1>a
    <3> HIDE DEF old, k
    <3>2. /\ IsMap(With(old, u, k), Nat)
          /\ DOMAIN With(old, u, k) = DOMAIN old \cup {u}
          /\ With(old, u, k)[u] = k
          /\ \A x \in DOMAIN old : x # u => With(old, u, k)[x] = old[x]
      BY <3>1 DEF With, IsMap
    <3> QED BY <3>2, Zenon DEF old, k
  <2> HIDE DEF msgs
  <2>4. \A v \in DOMAIN msgs :
           v < b.next /\ msgs[v] \in Nat /\ msgs[v] <= b.modseq + 1
    BY <2>3, <1>3, <1>a
  <2>5. IsMessages(msgs)
    BY <2>3, <2>4 DEF IsMessages
  <2>6. b.next \in Nat /\ b.modseq + 1 \in Nat
    BY <1>3, <1>a
  <2> QED BY <1>3, <2>1, <2>4, <2>5, <2>6, OthersType
<1>4. ASSUME m \in DOMAIN box, NEW u \in DOMAIN box[m].msgs, Expunge(m, u)
      PROVE  TypeOK'
  <2> DEFINE msgs == [v \in DOMAIN b.msgs \ {u} |-> b.msgs[v]]
             modseq == IF server = "qresync" THEN b.modseq + 1 ELSE b.modseq
  <2>1. Others(m, Mail(b.uv, b.next, modseq, msgs))
    BY <1>4 DEF Expunge
  <2>2. b.next \in Nat /\ modseq \in Nat /\ modseq >= b.modseq
    BY <1>4, <1>a
  <2>3. /\ IsMap(msgs, Nat) /\ DOMAIN msgs \subseteq DOMAIN b.msgs
        /\ \A v \in DOMAIN msgs : msgs[v] = b.msgs[v]
    BY <1>4, <1>a DEF IsMap
  <2> HIDE DEF msgs, modseq
  <2>4. \A v \in DOMAIN msgs :
           v < b.next /\ msgs[v] \in Nat /\ msgs[v] <= modseq
    BY <2>2, <2>3, <1>4, <1>a
  <2>5. IsMessages(msgs)
    BY <2>3, <2>4 DEF IsMessages
  <2> QED BY <1>4, <2>1, <2>2, <2>4, <2>5, OthersType
<1>5. CASE Create(m)
  <2> DEFINE new == Mail(changes + 2, 1, 0, Empty)
  <2>0. /\ Outside /\ UNCHANGED <<client, call>> /\ server' \in Servers
        /\ m \notin DOMAIN box /\ box' = With(box, m, new)
    BY <1>5 DEF Create, TypeOK, BoxOK
  <2> HIDE DEF new
  <2>1. /\ IsMap(box', Mailbox) /\ DOMAIN box' = DOMAIN box \cup {m}
        /\ box'[m] = new
        /\ \A x \in DOMAIN box : box'[x] = box[x]
    <3>1. IsMap(box, Mailbox)
      BY DEF TypeOK, BoxOK
    <3>2. /\ IsMap(With(box, m, new), Mailbox)
          /\ DOMAIN With(box, m, new) = DOMAIN box \cup {m}
          /\ With(box, m, new)[m] = new
          /\ \A x \in DOMAIN box : x # m => With(box, m, new)[x] = box[x]
      BY <3>1 DEF With, IsMap
    <3> QED BY <2>0, <3>2
  <2>2. changes \in Nat /\ changes' = changes + 1 /\ changes' \in 0..MaxChanges
    BY <2>0, SyncAssumption DEF TypeOK, BoxOK, Outside
  <2>3. \A n : n \in 1..(changes + 1) => n \in 1..(changes' + 1)
    BY <2>2
  <2>4. ASSUME NEW x \in DOMAIN box'
        PROVE  /\ box'[x] \in [uv : 1..(changes' + 1), next : Nat,
                               modseq : Nat, msgs : {box'[x].msgs}]
               /\ IsMessages(box'[x].msgs)
               /\ \A u \in DOMAIN box'[x].msgs :
                     u < box'[x].next /\ box'[x].msgs[u] <= box'[x].modseq
    <3>1. CASE x \in DOMAIN box
      BY <3>1, <2>1, <2>3 DEF TypeOK, BoxOK
    <3>2. CASE x = m
      <4>1. changes + 2 \in 1..(changes' + 1)
        BY <2>2
      <4>2. new \in [uv : 1..(changes' + 1), next : Nat,
                     modseq : Nat, msgs : {new.msgs}]
        BY <4>1 DEF new, Mail
      <4>3. IsMessages(new.msgs) /\ DOMAIN new.msgs = {}
        BY EmptyMap, Parts DEF IsMessages, new
      <4> QED BY <3>2, <2>1, <4>2, <4>3
    <3> QED BY <3>1, <3>2, <2>1
  <2>5. BoxOK'
    BY <2>0, <2>1, <2>2, <2>4 DEF BoxOK, IsMessages
  <2> QED BY <2>0, <2>5, OutsideType
<1>6. CASE Drop(m)
  <2>1. /\ Outside /\ UNCHANGED <<client, call>> /\ server' \in Servers
        /\ IsMap(box', Mailbox) /\ DOMAIN box' \subseteq DOMAIN box
        /\ \A x \in DOMAIN box' : box'[x] = box[x]
    BY <1>6 DEF Drop, TypeOK, BoxOK, IsMap
  <2>2. changes \in Nat /\ changes' = changes + 1 /\ changes' \in 0..MaxChanges
    BY <2>1, SyncAssumption DEF TypeOK, BoxOK, Outside
  <2>3. \A n : n \in 1..(changes + 1) => n \in 1..(changes' + 1)
    BY <2>2
  <2>5. BoxOK'
    BY <2>1, <2>2, <2>3 DEF TypeOK, BoxOK, IsMessages
  <2> QED BY <2>1, <2>5, OutsideType
<1> QED BY <1>1, <1>2, <1>3, <1>4, <1>5, <1>6

\* A step of a handler that leaves everything but the call.
LEMMA AnswerType ==
    ASSUME TypeOK, UNCHANGED <<env, client>>, CallOK' PROVE TypeOK'
BY DEF TypeOK, env, client, BoxOK, ClientOK, IsCursor

\* A step of a call that keeps to its plan, field by field.
LEMMA CallType ==
    ASSUME TypeOK, UNCHANGED <<env, client>>,
           call' = [x \in DOMAIN call |-> call'[x]],
           call'.plan = call.plan, call'.at = call.at,
           call'.listed \in BOOLEAN, call'.swept \in BOOLEAN,
           call'.todo \subseteq Mailbox,
           InPhase("get") => call'.todo \subseteq DOMAIN call'.found,
           InPhase("compare") => call'.todo \subseteq DOMAIN call'.sweep,
           IsMap(call'.sweep, Mailbox),
           \A m \in DOMAIN call'.sweep : IsCursor(call'.sweep[m]),
           IsMap(call'.news, Mailbox),
           \A m \in DOMAIN call'.news : call'.news[m] \subseteq Nat,
           IsMap(call'.found, Mailbox),
           \A m \in DOMAIN call'.found :
              call'.found[m] \in [uv : 1..(changes + 1), uids : SUBSET Nat],
           IsMap(call'.got, DOMAIN call'.found),
           \A m \in DOMAIN call'.got : IsMessages(call'.got[m])
    PROVE  TypeOK'
<1>1. DOMAIN call = {"plan", "at", "listed", "todo", "swept", "sweep",
                     "news", "found", "got"}
  BY DEF TypeOK, CallOK
<1>2. call.plan \in Boots \cup {ChangesPlan} /\ call.at \in 0..5
  BY DEF TypeOK, CallOK
<1>3. call' \in [plan : Boots \cup {ChangesPlan}, at : 0..5,
                 listed : BOOLEAN, todo : SUBSET Mailbox, swept : BOOLEAN,
                 sweep : {call'.sweep}, news : {call'.news},
                 found : {call'.found}, got : {call'.got}]
  BY <1>1, <1>2
<1>4. InPhase("get")' = InPhase("get") /\ InPhase("compare")' = InPhase("compare")
      /\ Idle' = Idle /\ synced' = synced /\ changes' = changes
  BY DEF InPhase, Idle, env, client
<1>5. ~Idle => call.at <= Len(call.plan) /\ (synced <=> call.plan = ChangesPlan)
  BY DEF TypeOK, CallOK
<1>6. CallOK'
  BY <1>3, <1>4, <1>5, SMTT(30) DEF CallOK, IsMap, IsMessages, IsCursor
<1> QED BY <1>6, AnswerType

LEMMA DropsType ==
    ASSUME TypeOK, call' = NoCall PROVE CallOK'
<1>1. ChangesPlan \in Boots \cup {ChangesPlan} /\ 0 \in 0..5
  OBVIOUS
<1> QED BY <1>1, BatchType DEF NoCall

LEMMA StartType == ASSUME TypeOK, Start PROVE TypeOK'
<1>1. UNCHANGED <<env, client>>
  BY DEF Start, Answer
<1>2. PICK plan \in Boots \cup {ChangesPlan} :
         call' = Batch(plan, 1) /\ (synced <=> plan = ChangesPlan)
  BY Plans, SyncAssumption DEF Start, Answer
<1>3. /\ 1 \in 0..5 /\ 1 <= Len(plan) /\ plan[1] # "compare" /\ plan[1] # "get"
  BY <1>2, Plans, SyncAssumption DEF MailboxesFirst, QueryFirst, ChangesPlan
<1>4. synced' <=> plan = ChangesPlan
  BY <1>1, <1>2 DEF client
<1> QED BY <1>1, <1>2, <1>3, <1>4, BatchType, AnswerType

\* What the type says of the call's fields.
LEMMA Fields ==
    ASSUME TypeOK
    PROVE  /\ DOMAIN call = {"plan", "at", "listed", "todo", "swept", "sweep",
                             "news", "found", "got"}
           /\ call.listed \in BOOLEAN /\ call.swept \in BOOLEAN
           /\ call.todo \subseteq Mailbox /\ call.at \in 0..5
           /\ call.plan \in Boots \cup {ChangesPlan}
           /\ InPhase("get") => call.todo \subseteq DOMAIN call.found
           /\ InPhase("compare") => call.todo \subseteq DOMAIN call.sweep
           /\ IsMap(call.sweep, Mailbox)
           /\ \A m \in DOMAIN call.sweep : IsCursor(call.sweep[m])
           /\ IsMap(call.news, Mailbox)
           /\ \A m \in DOMAIN call.news : call.news[m] \subseteq Nat
           /\ IsMap(call.found, Mailbox)
           /\ \A m \in DOMAIN call.found :
                 call.found[m] \in [uv : 1..(changes + 1), uids : SUBSET Nat]
           /\ IsMap(call.got, DOMAIN call.found)
           /\ \A m \in DOMAIN call.got : IsMessages(call.got[m])
BY DEF TypeOK, CallOK

\* A map stays one when what it may range over grows.
LEMMA WiderMap ==
    ASSUME NEW f, NEW S, NEW T, IsMap(f, S), S \subseteq T PROVE IsMap(f, T)
BY DEF IsMap

\* What each step does, field by field.
LEMMA ListStep ==
    ASSUME TypeOK, List
    PROVE  /\ UNCHANGED <<env, client>> /\ ~InPhase("get") /\ ~InPhase("compare")
           /\ call' = [x \in DOMAIN call |-> call'[x]] /\ ~Idle
           /\ call'.listed = TRUE /\ call'.todo = DOMAIN box
           /\ \A x \in {"plan", "at", "swept", "sweep", "news", "found", "got"} :
                 call'[x] = call[x]
<1>1. /\ UNCHANGED <<env, client>>
      /\ call' = [call EXCEPT !.listed = TRUE, !.todo = DOMAIN box]
      /\ ~InPhase("get") /\ ~InPhase("compare") /\ ~Idle
  BY DEF List, Answer, InPhase
<1> QED BY <1>1, Fields

LEMMA SelectStep ==
    ASSUME TypeOK, NEW m, Select(m)
    PROVE  /\ UNCHANGED <<env, client>> /\ InPhase("state") /\ ~Idle
           /\ ~InPhase("get") /\ ~InPhase("compare")
           /\ m \in DOMAIN box /\ m \in Mailbox
           /\ call' = [x \in DOMAIN call |-> call'[x]]
           /\ call'.todo = call.todo \ {m}
           /\ call'.sweep = With(call.sweep, m, Cursor(box[m]))
           /\ \A x \in {"plan", "at", "listed", "swept", "news", "found", "got"} :
                 call'[x] = call[x]
<1> DEFINE f == With(call.sweep, m, Cursor(box[m]))
<1>1. /\ UNCHANGED <<env, client>> /\ m \in DOMAIN box /\ m \in Mailbox
      /\ call' = [call EXCEPT !.todo = call.todo \ {m}, !.sweep = f]
      /\ InPhase("state") /\ ~InPhase("get") /\ ~InPhase("compare") /\ ~Idle
  BY DEF Select, Answer, TypeOK, BoxOK, IsMap, InPhase
<1> HIDE DEF f
<1>2. /\ call' = [x \in DOMAIN call |-> call'[x]]
      /\ call'.todo = call.todo \ {m} /\ call'.sweep = f
      /\ \A x \in {"plan", "at", "listed", "swept", "news", "found", "got"} :
            call'[x] = call[x]
  BY <1>1, Fields
<1> QED BY <1>1, <1>2 DEF f

LEMMA SearchStep ==
    ASSUME TypeOK, NEW m, Search(m)
    PROVE  /\ UNCHANGED <<env, client>> /\ InPhase("search") /\ ~Idle
           /\ ~InPhase("get") /\ ~InPhase("compare")
           /\ m \in DOMAIN box /\ m \in Mailbox
           /\ call' = [x \in DOMAIN call |-> call'[x]]
           /\ call'.todo = call.todo \ {m}
           /\ call'.found = With(call.found, m,
                 [uv |-> box[m].uv, uids |-> DOMAIN box[m].msgs])
           /\ \A x \in {"plan", "at", "listed", "swept", "news", "sweep", "got"} :
                 call'[x] = call[x]
<1> DEFINE f == With(call.found, m,
                     [uv |-> box[m].uv, uids |-> DOMAIN box[m].msgs])
<1>1. /\ UNCHANGED <<env, client>> /\ m \in DOMAIN box /\ m \in Mailbox
      /\ call' = [call EXCEPT !.todo = call.todo \ {m}, !.found = f]
      /\ InPhase("search") /\ ~InPhase("get") /\ ~InPhase("compare") /\ ~Idle
  BY DEF Search, Answer, TypeOK, BoxOK, IsMap, InPhase
<1> HIDE DEF f
<1>2. /\ call' = [x \in DOMAIN call |-> call'[x]]
      /\ call'.todo = call.todo \ {m} /\ call'.found = f
      /\ \A x \in {"plan", "at", "listed", "swept", "news", "sweep", "got"} :
            call'[x] = call[x]
  BY <1>1, Fields
<1> QED BY <1>1, <1>2 DEF f

LEMMA SkipStep ==
    ASSUME TypeOK, NEW m, Skip(m)
    PROVE  /\ UNCHANGED <<env, client>> /\ InPhase("compare") /\ ~Idle
           /\ m \in call.todo /\ DOMAIN token \subseteq DOMAIN call.sweep
           /\ m \in DOMAIN token => /\ token[m].uv = call.sweep[m].uv
                                    /\ token[m].modseq = call.sweep[m].modseq
           /\ call' = [x \in DOMAIN call |-> call'[x]]
           /\ call'.todo = call.todo \ {m}
           /\ \A x \in {"plan", "at", "listed", "swept", "news", "sweep", "found",
                        "got"} : call'[x] = call[x]
<1>1. /\ UNCHANGED <<env, client>> /\ InPhase("compare") /\ ~Idle
      /\ m \in call.todo /\ DOMAIN token \subseteq DOMAIN call.sweep
      /\ m \in DOMAIN token => /\ token[m].uv = call.sweep[m].uv
                               /\ token[m].modseq = call.sweep[m].modseq
      /\ call' = [call EXCEPT !.todo = call.todo \ {m}]
  BY DEF Skip, Answer, Comparing, InPhase
<1> QED BY <1>1, Fields

LEMMA FindStep ==
    ASSUME TypeOK, NEW m, Find(m)
    PROVE  /\ UNCHANGED <<env, client>> /\ InPhase("compare") /\ ~Idle
           /\ Differs(m) /\ m \in DOMAIN box /\ DOMAIN call.news = {}
           /\ call' = [x \in DOMAIN call |-> call'[x]]
           /\ call'.news =
                With(call.news, m,
                     IF call.sweep[m].next > token[m].next
                       THEN FromUid(DOMAIN box[m].msgs, token[m].next) ELSE {})
           /\ \A x \in {"plan", "at", "listed", "todo", "swept", "sweep", "found",
                        "got"} : call'[x] = call[x]
<1> DEFINE f == With(call.news, m,
                     IF call.sweep[m].next > token[m].next
                       THEN FromUid(DOMAIN box[m].msgs, token[m].next) ELSE {})
<1>1. /\ UNCHANGED <<env, client>> /\ Differs(m) /\ m \in DOMAIN box
      /\ DOMAIN call.news = {} /\ call' = [call EXCEPT !.news = f]
  BY DEF Find, Answer
<1>2. InPhase("compare") /\ ~Idle
  BY <1>1 DEF Differs, Comparing, InPhase
<1> HIDE DEF f
<1>3. /\ call' = [x \in DOMAIN call |-> call'[x]] /\ call'.news = f
      /\ \A x \in {"plan", "at", "listed", "todo", "swept", "sweep", "found",
                   "got"} : call'[x] = call[x]
  BY <1>1, Fields
<1> QED BY <1>1, <1>2, <1>3 DEF f

\* The ids FetchChanged reports.
Reported(m) ==
    [uv |-> call.sweep[m].uv,
     uids |-> call.news[m] \cup
              {u \in DOMAIN box[m].msgs : box[m].msgs[u] > token[m].modseq}]

LEMMA FetchStep ==
    ASSUME TypeOK, NEW m, FetchChanged(m)
    PROVE  /\ UNCHANGED <<env, client>> /\ InPhase("compare") /\ ~Idle
           /\ ~InPhase("get") /\ Differs(m)
           /\ m \in DOMAIN box /\ m \in DOMAIN call.news /\ m \in DOMAIN call.sweep
           /\ call' = [x \in DOMAIN call |-> call'[x]]
           /\ call'.todo = call.todo \ {m} /\ call'.news = Empty
           /\ call'.found = With(call.found, m, Reported(m))
           /\ \A x \in {"plan", "at", "listed", "swept", "sweep", "got"} :
                 call'[x] = call[x]
<1> DEFINE f == With(call.found, m, Reported(m))
<1>1. /\ UNCHANGED <<env, client>> /\ Differs(m)
      /\ m \in DOMAIN box /\ m \in DOMAIN call.news
      /\ call' = [call EXCEPT !.todo = call.todo \ {m}, !.news = Empty,
                              !.found = f]
  BY DEF FetchChanged, Answer, Reported
<1>2. /\ InPhase("compare") /\ ~Idle /\ ~InPhase("get")
      /\ m \in DOMAIN call.sweep
  BY <1>1, Fields DEF Differs, Comparing, InPhase
<1> HIDE DEF f
<1>3. /\ call' = [x \in DOMAIN call |-> call'[x]]
      /\ call'.todo = call.todo \ {m} /\ call'.found = f /\ call'.news = Empty
      /\ \A x \in {"plan", "at", "listed", "swept", "sweep", "got"} :
            call'[x] = call[x]
  BY <1>1, Fields
<1> QED BY <1>1, <1>2, <1>3 DEF f

\* The messages Get returns.
Fetched(m) ==
    LET there == m \in DOMAIN box /\ box[m].uv = call.found[m].uv
        uids  == IF there THEN call.found[m].uids \cap DOMAIN box[m].msgs
                          ELSE {}
    IN  [u \in uids |-> box[m].msgs[u]]

LEMMA GetStep ==
    ASSUME TypeOK, NEW m, Get(m)
    PROVE  /\ UNCHANGED <<env, client>> /\ InPhase("get") /\ ~Idle
           /\ ~InPhase("compare") /\ m \in DOMAIN call.found /\ m \in call.todo
           /\ call' = [x \in DOMAIN call |-> call'[x]]
           /\ call'.todo = call.todo \ {m}
           /\ call'.got = With(call.got, m, Fetched(m))
           /\ \A x \in {"plan", "at", "listed", "swept", "sweep", "found", "news"} :
                 call'[x] = call[x]
<1> DEFINE f == With(call.got, m, Fetched(m))
<1>1. /\ UNCHANGED <<env, client>> /\ m \in call.todo
      /\ InPhase("get") /\ ~InPhase("compare") /\ ~Idle
      /\ call' = [call EXCEPT !.todo = call.todo \ {m}, !.got = f]
  BY DEF Get, Answer, InPhase, Fetched
<1>2. m \in DOMAIN call.found
  BY <1>1, Fields
<1> HIDE DEF f
<1>3. /\ call' = [x \in DOMAIN call |-> call'[x]]
      /\ call'.todo = call.todo \ {m} /\ call'.got = f
      /\ \A x \in {"plan", "at", "listed", "swept", "sweep", "found", "news"} :
            call'[x] = call[x]
  BY <1>1, Fields
<1> QED BY <1>1, <1>2, <1>3 DEF f

LEMMA NextPhaseStep ==
    ASSUME TypeOK, NextPhase
    PROVE  /\ UNCHANGED <<env, client>> /\ ~Idle /\ call.at < Len(call.plan)
           /\ Finished
           /\ call' = [x \in DOMAIN call |-> call'[x]]
           /\ call'.at = call.at + 1 /\ call'.listed = FALSE
           /\ call'.swept = (call.swept \/ InPhase("state"))
           /\ call'.todo =
                IF call.plan[call.at + 1] = "compare" THEN DOMAIN call.sweep
                ELSE IF call.plan[call.at + 1] = "get" THEN DOMAIN call.found
                ELSE {}
           /\ \A x \in {"plan", "sweep", "found", "news", "got"} :
                 call'[x] = call[x]
<1> DEFINE todo == IF call.plan[call.at + 1] = "compare" THEN DOMAIN call.sweep
                   ELSE IF call.plan[call.at + 1] = "get" THEN DOMAIN call.found
                   ELSE {}
           swept == call.swept \/ InPhase("state")
<1>1. /\ UNCHANGED <<env, client>> /\ ~Idle /\ call.at < Len(call.plan)
      /\ Finished
      /\ call' = [call EXCEPT !.at = call.at + 1, !.listed = FALSE,
                              !.swept = swept, !.todo = todo]
  BY DEF NextPhase, Finished, Answer
<1> HIDE DEF swept, todo
<1>2. /\ call' = [x \in DOMAIN call |-> call'[x]]
      /\ call'.at = call.at + 1 /\ call'.todo = todo
      /\ call'.swept = swept /\ call'.listed = FALSE
      /\ \A x \in {"plan", "sweep", "found", "news", "got"} : call'[x] = call[x]
  BY <1>1, Fields
<1> QED BY <1>1, <1>2 DEF swept, todo

LEMMA ListType == ASSUME TypeOK, List PROVE TypeOK'
<1>1. DOMAIN box \subseteq Mailbox
  BY DEF TypeOK, BoxOK, IsMap
<1> QED BY <1>1, ListStep, Fields, CallType

LEMMA SelectType == ASSUME TypeOK, NEW m, Select(m) PROVE TypeOK'
<1> DEFINE c == Cursor(box[m])  f == With(call.sweep, m, c)
<1>1. m \in DOMAIN box /\ m \in Mailbox /\ call'.sweep = f
  BY SelectStep
<1>2. IsCursor(c)
  BY <1>1, CursorType DEF TypeOK
<1> HIDE DEF c
<1>3. IsMap(f, Mailbox) /\ \A x \in DOMAIN f : IsCursor(f[x])
  BY <1>1, <1>2, Fields DEF IsMap, With
<1> HIDE DEF f
<1> QED BY <1>1, <1>3, SelectStep, Fields, CallType

LEMMA SearchType == ASSUME TypeOK, NEW m, Search(m) PROVE TypeOK'
<1> DEFINE c == [uv |-> box[m].uv, uids |-> DOMAIN box[m].msgs]
           f == With(call.found, m, c)
<1>1. m \in DOMAIN box /\ m \in Mailbox /\ call'.found = f
  BY SearchStep
<1>2. c \in [uv : 1..(changes + 1), uids : SUBSET Nat]
  <2>1. DOMAIN box[m].msgs \in SUBSET Nat
    BY <1>1 DEF TypeOK, BoxOK, IsMessages, IsMap
  <2>2. box[m].uv \in 1..(changes + 1)
    BY <1>1 DEF TypeOK, BoxOK
  <2> QED BY <2>1, <2>2
<1> HIDE DEF c
<1>3. /\ IsMap(f, Mailbox) /\ DOMAIN call.found \subseteq DOMAIN f
      /\ \A x \in DOMAIN f : f[x] \in [uv : 1..(changes + 1), uids : SUBSET Nat]
  BY <1>1, <1>2, Fields DEF IsMap, With
<1> HIDE DEF f
<1>4. IsMap(call.got, DOMAIN f)
  BY <1>3, Fields, WiderMap
<1> QED BY <1>1, <1>3, <1>4, SearchStep, Fields, CallType

LEMMA SkipType == ASSUME TypeOK, NEW m, Skip(m) PROVE TypeOK'
BY SkipStep, Fields, CallType

LEMMA FindType == ASSUME TypeOK, NEW m \in Mailbox, Find(m) PROVE TypeOK'
<1> DEFINE n == IF call.sweep[m].next > token[m].next
                  THEN FromUid(DOMAIN box[m].msgs, token[m].next) ELSE {}
           f == With(call.news, m, n)
<1>1. m \in DOMAIN box /\ call'.news = f
  BY FindStep
<1>2. n \subseteq Nat
  <2>1. DOMAIN box[m].msgs \subseteq Nat
    BY <1>1 DEF TypeOK, BoxOK, IsMessages, IsMap
  <2> QED BY <2>1 DEF FromUid
<1> HIDE DEF n
<1>3. IsMap(f, Mailbox) /\ \A x \in DOMAIN f : f[x] \subseteq Nat
  BY <1>2, Fields DEF IsMap, With
<1> HIDE DEF f
<1> QED BY <1>1, <1>3, FindStep, Fields, CallType

LEMMA FetchChangedType ==
    ASSUME TypeOK, NEW m \in Mailbox, FetchChanged(m) PROVE TypeOK'
<1> DEFINE c == Reported(m)  f == With(call.found, m, c)
<1>1. /\ m \in DOMAIN box /\ m \in DOMAIN call.news /\ m \in DOMAIN call.sweep
      /\ call'.found = f
  BY FetchStep
<1>2. c \in [uv : 1..(changes + 1), uids : SUBSET Nat]
  <2> DEFINE changed ==
         {u \in DOMAIN box[m].msgs : box[m].msgs[u] > token[m].modseq}
  <2>1. changed \subseteq Nat
    BY <1>1 DEF TypeOK, BoxOK, IsMessages, IsMap
  <2>2. call.sweep[m].uv \in 1..(changes + 1)
    BY <1>1, Fields DEF IsCursor
  <2>3. call.news[m] \subseteq Nat
    BY <1>1, Fields
  <2>4. c = [uv |-> call.sweep[m].uv, uids |-> call.news[m] \cup changed]
    BY DEF Reported
  <2> HIDE DEF changed, c
  <2>5. call.news[m] \cup changed \in SUBSET Nat
    BY <2>1, <2>3
  <2> QED BY <2>2, <2>4, <2>5
<1> HIDE DEF c
<1>3. /\ IsMap(f, Mailbox) /\ DOMAIN call.found \subseteq DOMAIN f
      /\ \A x \in DOMAIN f : f[x] \in [uv : 1..(changes + 1), uids : SUBSET Nat]
  BY <1>1, <1>2, Fields DEF IsMap, With
<1> HIDE DEF f
<1>4. IsMap(call.got, DOMAIN f)
  BY <1>3, Fields, WiderMap
<1> QED BY <1>1, <1>3, <1>4, FetchStep, Fields, CallType, EmptyMap

LEMMA GetType == ASSUME TypeOK, NEW m \in Mailbox, Get(m) PROVE TypeOK'
<1> DEFINE g == Fetched(m)  f == With(call.got, m, g)
<1>1. m \in DOMAIN call.found /\ call'.got = f
  BY GetStep
<1>2. IsMessages(g)
  <2>1. \A u \in DOMAIN box[m].msgs : m \in DOMAIN box =>
           u \in Nat /\ box[m].msgs[u] \in Nat
    BY DEF TypeOK, BoxOK, IsMessages, IsMap
  <2> QED BY <2>1 DEF IsMessages, IsMap, Fetched
<1> HIDE DEF g
<1>3. /\ IsMap(f, DOMAIN call.found)
      /\ \A x \in DOMAIN f : IsMessages(f[x])
  BY <1>1, <1>2, Fields DEF IsMap, With
<1> HIDE DEF f
<1> QED BY <1>1, <1>3, GetStep, Fields, CallType

LEMMA RefuseType == ASSUME TypeOK, Refuse PROVE TypeOK'
<1>1. CallOK'
  BY DropsType DEF Refuse
<1>2. ClientOK'
  BY EmptyMap DEF Refuse, ClientOK
<1>3. BoxOK'
  BY DEF Refuse, env, TypeOK, BoxOK
<1> QED BY <1>1, <1>2, <1>3 DEF TypeOK

LEMMA MissingType == ASSUME TypeOK, Missing PROVE TypeOK'
BY DropsType, AnswerType DEF Missing, Answer

LEMMA LostType == ASSUME TypeOK, Lost PROVE TypeOK'
<1>1. CallOK'
  BY DropsType DEF Lost
<1>2. changes \in Nat /\ changes' = changes + 1 /\ changes' \in 0..MaxChanges
  BY SyncAssumption DEF TypeOK, BoxOK, Lost, Outside
<1>3. \A n : n \in 1..(changes + 1) => n \in 1..(changes' + 1)
  BY <1>2
<1>4. BoxOK'
  BY <1>2, <1>3 DEF Lost, TypeOK, BoxOK
<1>5. ClientOK'
  BY <1>3 DEF Lost, client, TypeOK, ClientOK, IsCursor
<1> QED BY <1>1, <1>4, <1>5 DEF TypeOK

LEMMA NextPhaseType == ASSUME TypeOK, NextPhase PROVE TypeOK'
<1>1. /\ UNCHANGED <<env, client>> /\ ~Idle /\ call.at < Len(call.plan)
      /\ call' = [x \in DOMAIN call |-> call'[x]]
      /\ call'.at = call.at + 1 /\ call'.listed = FALSE
      /\ call'.plan = call.plan
      /\ \A x \in {"sweep", "found", "news", "got"} : call'[x] = call[x]
  BY NextPhaseStep
<1>2. /\ call'.swept \in BOOLEAN /\ call'.todo \subseteq Mailbox
      /\ call.plan[call.at + 1] = "get" => call'.todo = DOMAIN call.found
      /\ call.plan[call.at + 1] = "compare" => call'.todo = DOMAIN call.sweep
  BY NextPhaseStep, Fields DEF IsMap, InPhase
<1>3. call.at + 1 \in 0..5 /\ call.at + 1 <= Len(call.plan)
  <2>1. call.at \in 0..5 /\ call.plan \in {MailboxesFirst, QueryFirst, ChangesPlan}
    BY Fields, SyncAssumption
  <2>2. Len(call.plan) = 4 \/ Len(call.plan) = 5
    BY <2>1, Plans
  <2>3. call.at < Len(call.plan) /\ call.at \in Int /\ 0 <= call.at
    BY <1>1, <2>1
  <2>4. ASSUME NEW i \in Int, NEW l \in Int, i < l, l = 4 \/ l = 5
        PROVE  i < 5 /\ i + 1 <= l
    BY <2>4
  <2>5. Len(call.plan) \in Int
    BY <2>2
  <2>6. call.at < 5 /\ call.at + 1 <= Len(call.plan)
    BY <2>2, <2>3, <2>4, <2>5, Zenon
  <2> QED BY <2>3, <2>6
<1>5. call' \in [plan : Boots \cup {ChangesPlan}, at : 0..5,
                 listed : BOOLEAN, todo : SUBSET Mailbox, swept : BOOLEAN,
                 sweep : {call'.sweep}, news : {call'.news},
                 found : {call'.found}, got : {call'.got}]
  BY <1>1, <1>2, <1>3, Fields
<1>6. /\ ~Idle' => call'.at <= Len(call'.plan)
                   /\ (synced' <=> call'.plan = ChangesPlan)
      /\ InPhase("get")' => call'.todo \subseteq DOMAIN call'.found
      /\ InPhase("compare")' => call'.todo \subseteq DOMAIN call'.sweep
  BY <1>1, <1>2, <1>3 DEF TypeOK, CallOK, client, InPhase, Idle
<1>7. CallOK'
  BY <1>1, <1>5, <1>6, Fields, SMTT(30)
  DEF CallOK, IsMap, IsMessages, IsCursor, env
<1> QED BY <1>1, <1>7, AnswerType

LEMMA AdoptType == ASSUME TypeOK, Filled, Adopt PROVE TypeOK'
<1>1. CallOK' /\ BoxOK'
  BY DropsType DEF Adopt, env, TypeOK, BoxOK
<1>2. synced' \in BOOLEAN /\ token' = call.sweep /\ changes' = changes
  BY DEF Adopt, env
<1>3. IsMap(token', Mailbox) /\ (\A m \in DOMAIN token : IsCursor(token[m]))'
  BY <1>2, Fields DEF IsCursor
<1>4. DOMAIN call.got = DOMAIN call.found /\ call.at = Len(call.plan) /\ call.at > 0
  BY Fields DEF Adopt, Finished, Idle, Filled
<1>5. /\ IsMap(mirror', DOMAIN token') /\ IsMap(since', DOMAIN mirror')
      /\ DOMAIN since' = DOMAIN mirror'
      /\ \A m \in DOMAIN mirror' : IsMessages(mirror'[m]) /\ since'[m] \in Nat
  <2>1. CASE synced
    <3>1. /\ mirror' = [m \in DOMAIN call.sweep |-> Refreshed(m)]
          /\ since' = [m \in DOMAIN call.sweep |->
                          IF m \in DOMAIN mirror THEN since[m]
                                                ELSE call.sweep[m].modseq]
      BY <2>1 DEF Adopt
    <3>2. ASSUME NEW m PROVE IsMessages(Copies(m))
      <4>1. IsMessages(Empty)
        BY EmptyMap DEF IsMessages
      <4> QED BY <4>1 DEF Copies, TypeOK, ClientOK
    <3>3. ASSUME NEW m \in DOMAIN call.sweep PROVE IsMessages(Refreshed(m))
      <4>1. CASE m \notin DOMAIN call.found
        BY <3>2, <4>1 DEF Refreshed
      <4>2. CASE m \in DOMAIN call.found
        <5> DEFINE got == call.got[m]
                   had == Copies(m)
                   all == (DOMAIN had \ call.found[m].uids) \cup DOMAIN got
                   f == [u \in all |-> IF u \in DOMAIN got THEN got[u]
                                                           ELSE had[u]]
        <5>1. Refreshed(m) = f
          BY <4>2 DEF Refreshed
        <5>2. IsMessages(got) /\ IsMessages(had)
          BY <3>2, <4>2, <1>4, Fields
        <5> HIDE DEF had, got
        <5>3. all \subseteq Nat /\ \A u \in all : f[u] \in Nat
          BY <5>2 DEF IsMessages, IsMap
        <5> HIDE DEF all
        <5>4. IsMessages(f)
          BY <5>3 DEF IsMessages, IsMap
        <5> QED BY <5>1, <5>4
      <4> QED BY <4>1, <4>2
    <3>4. ASSUME NEW m \in DOMAIN call.sweep PROVE since'[m] \in Nat
      <4>1. call.sweep[m].modseq \in Nat
        BY Fields DEF IsCursor
      <4> QED BY <3>1, <4>1 DEF TypeOK, ClientOK
    <3> QED BY <3>1, <3>3, <3>4, <1>2 DEF IsMap
  <2>2. CASE ~synced
    <3>1. mirror' = [m \in Booted |-> call.got[m]] /\ since' = [m \in Booted |-> 0]
      BY <2>2 DEF Adopt
    <3>2. Booted \subseteq DOMAIN call.sweep /\ Booted \subseteq DOMAIN call.got
      BY DEF Booted
    <3> QED BY <3>1, <3>2, <1>2, Fields DEF IsMap
  <2> QED BY <2>1, <2>2
<1>6. ClientOK'
  BY <1>2, <1>3, <1>5 DEF ClientOK, IsMessages
<1> QED BY <1>1, <1>6 DEF TypeOK

\* The phases of a plan.
LEMMA PlanPhases ==
    ASSUME NEW p \in {MailboxesFirst, QueryFirst, ChangesPlan},
           NEW i \in 1..Len(p)
    PROVE  /\ p[i] = "get" <=> i = Len(p) - 1
           /\ p[i] = "search" => i < Len(p) - 1
           /\ p[i] = "compare" <=> p = ChangesPlan /\ i = 2
           /\ Len(p) \in Int
<1>1. CASE p = MailboxesFirst
  <2>1. i = 1 \/ i = 2 \/ i = 3 \/ i = 4 \/ i = 5
    BY <1>1, Plans
  <2> QED BY <2>1, <1>1, Plans DEF MailboxesFirst
<1>2. CASE p = QueryFirst
  <2>1. i = 1 \/ i = 2 \/ i = 3 \/ i = 4
    BY <1>2, Plans
  <2> QED BY <2>1, <1>2, Plans DEF QueryFirst
<1>3. CASE p = ChangesPlan
  <2>1. i = 1 \/ i = 2 \/ i = 3 \/ i = 4
    BY <1>3, Plans
  <2> QED BY <2>1, <1>3, Plans DEF ChangesPlan
<1> QED BY <1>1, <1>2, <1>3

LEMMA Phases ==
    ASSUME TypeOK, ~Idle
    PROVE  /\ call.at \in 1..Len(call.plan) /\ Len(call.plan) \in Int
           /\ InPhase("get") <=> call.at = Len(call.plan) - 1
           /\ InPhase("search") => call.at < Len(call.plan) - 1
           /\ InPhase("compare") <=> call.plan = ChangesPlan /\ call.at = 2
           /\ synced <=> call.plan = ChangesPlan
<1>1. call.plan \in {MailboxesFirst, QueryFirst, ChangesPlan}
  BY Fields, SyncAssumption
<1>2. call.at \in 0..5 /\ call.at # 0 /\ call.at <= Len(call.plan)
      /\ (synced <=> call.plan = ChangesPlan)
  BY DEF TypeOK, CallOK, Idle
<1>3. Len(call.plan) \in Int
  BY <1>1, Plans
<1>4. call.at \in 1..Len(call.plan)
  BY <1>2, <1>3
<1> QED BY <1>1, <1>2, <1>3, <1>4, PlanPhases DEF InPhase

LEMMA FilledStart ==
    ASSUME NEW plan \in {MailboxesFirst, QueryFirst, ChangesPlan},
           NEW at \in {0, 1}, call' = Batch(plan, at)
    PROVE  Filled'
BY EmptyMap, Plans DEF Filled, Batch

\* The steps that keep to a phase.
LEMMA FilledPhase ==
    ASSUME TypeOK, Filled,
           \/ List
           \/ \E m \in Mailbox : Select(m) \/ Search(m) \/ Skip(m) \/ Find(m)
                                 \/ FetchChanged(m) \/ Get(m)
    PROVE  Filled'
<1>1. CASE List
  <2>1. UNCHANGED token
    BY <1>1, ListStep DEF client
  <2> QED BY <2>1, <1>1, ListStep, Phases DEF Filled
<1>2. ASSUME NEW m \in Mailbox, Select(m) PROVE Filled'
  <2>1. DOMAIN call.sweep \subseteq DOMAIN call'.sweep /\ UNCHANGED token
    BY <1>2, SelectStep DEF With, client
  <2>2. ~InPhase("get")
    BY <1>2, SelectStep
  <2> QED BY <2>1, <2>2, <1>2, SelectStep, Phases DEF Filled
<1>3. ASSUME NEW m \in Mailbox, Search(m) PROVE Filled'
  <2>1. InPhase("search") /\ UNCHANGED token /\ ~Idle
    BY <1>3, SearchStep DEF client
  <2>2. call.at < Len(call.plan) - 1 /\ Len(call.plan) \in Int /\ call.at \in Int
        /\ call.at > 0
    BY <2>1, Phases
  <2>3. /\ call'.plan = call.plan /\ call'.at = call.at
        /\ call'.got = call.got /\ call'.sweep = call.sweep
    BY <1>3, SearchStep
  <2> QED BY <2>1, <2>2, <2>3 DEF Filled
<1>4. ASSUME NEW m \in Mailbox, Skip(m) PROVE Filled'
  <2>1. InPhase("compare") /\ UNCHANGED token /\ ~InPhase("get") /\ ~Idle
    BY <1>4, SkipStep DEF client, InPhase
  <2> QED BY <2>1, <1>4, SkipStep, Phases DEF Filled
<1>5. ASSUME NEW m \in Mailbox, Find(m) PROVE Filled'
  <2>1. UNCHANGED token
    BY <1>5, FindStep DEF client
  <2> QED BY <2>1, <1>5, FindStep DEF Filled
<1>6. ASSUME NEW m \in Mailbox, FetchChanged(m) PROVE Filled'
  <2>1. call.plan = ChangesPlan /\ call.at = 2 /\ Len(call.plan) = 4
    BY <1>6, FetchStep, Phases, Plans
  <2>2. call'.plan = call.plan /\ call'.at = call.at /\ call'.got = call.got
    BY <1>6, FetchStep
  <2> QED BY <2>1, <2>2 DEF Filled
<1>7. ASSUME NEW m \in Mailbox, Get(m) PROVE Filled'
  <2>1. call.at = Len(call.plan) - 1 /\ ~Idle /\ UNCHANGED token
        /\ Len(call.plan) \in Int /\ call.at > 0
    BY <1>7, GetStep, Phases DEF client
  <2>2. DOMAIN call'.got = DOMAIN call.got \cup {m}
    BY <1>7, GetStep DEF With
  <2>3. DOMAIN call.got = DOMAIN call.found \ call.todo
    BY <2>1 DEF Filled
  <2>4. DOMAIN call'.got = DOMAIN call'.found \ call'.todo
    BY <1>7, GetStep, <2>2, <2>3
  <2>5. call'.plan = call.plan /\ call'.at = call.at /\ call'.sweep = call.sweep
    BY <1>7, GetStep
  <2> QED BY <2>1, <2>4, <2>5 DEF Filled
<1> QED BY <1>1, <1>2, <1>3, <1>4, <1>5, <1>6, <1>7

LEMMA FilledNextPhase == ASSUME TypeOK, Filled, NextPhase PROVE Filled'
<1> DEFINE l == Len(call.plan)
<1>1. /\ ~Idle /\ call.at < l /\ Finished /\ UNCHANGED token
      /\ call'.at = call.at + 1 /\ call'.plan = call.plan
      /\ call'.sweep = call.sweep /\ call'.got = call.got
      /\ call'.found = call.found
  BY NextPhaseStep DEF client
<1>2. /\ call.at \in 1..l /\ l \in Int /\ call.plan \in {MailboxesFirst, QueryFirst, ChangesPlan}
      /\ call.at > 0
  BY <1>1, Phases, Fields, SyncAssumption
<1>3. ASSUME call.plan = ChangesPlan, call.at + 1 > 2
      PROVE  DOMAIN token \subseteq DOMAIN call.sweep
  <2>1. CASE call.at = 2
    BY <2>1, <1>1, <1>3, Phases DEF Finished
  <2>2. CASE call.at > 2
    BY <2>2, <1>3 DEF Filled
  <2> QED BY <2>1, <2>2, <1>3, <1>2
<1>4. ASSUME call.at + 1 < l - 1 PROVE DOMAIN call.got = {}
  BY <1>2, <1>4 DEF Filled
<1>5. ASSUME call.at + 1 = l - 1 PROVE DOMAIN call.got = DOMAIN call.found \ call'.todo
  <2>1. DOMAIN call.got = {}
    BY <1>2, <1>5 DEF Filled
  <2>2. call.at + 1 \in 1..l
    BY <1>1, <1>2
  <2>3. call.plan[call.at + 1] = "get"
    BY <1>2, <1>5, <2>2, PlanPhases
  <2>4. call'.todo = DOMAIN call.found
    BY <2>3, NextPhaseStep
  <2> QED BY <2>1, <2>4
<1>6. ASSUME call.at + 1 = l PROVE DOMAIN call.got = DOMAIN call.found
  <2>1. call.at = l - 1
    BY <1>2, <1>6
  <2>2. DOMAIN call.got = DOMAIN call.found \ call.todo
    BY <1>2, <2>1 DEF Filled
  <2> QED BY <2>2, <1>1 DEF Finished
<1> QED BY <1>1, <1>3, <1>4, <1>5, <1>6 DEF Filled

TypeIInv == TypeOK /\ Filled

LEMMA InitType == Init => TypeIInv
<1> SUFFICES ASSUME Init PROVE TypeIInv
  OBVIOUS
<1>1. BoxOK
  <2>1. PICK present \in SUBSET Mailbox :
          box = [m \in present |-> Mail(1, InitialMail + 1, InitialMail,
                                        [u \in 1..InitialMail |-> u])]
    BY DEF Init
  <2> DEFINE b == Mail(1, InitialMail + 1, InitialMail,
                       [u \in 1..InitialMail |-> u])
             msgs == [u \in 1..InitialMail |-> u]
  <2>2. changes = 0 /\ changes \in 0..MaxChanges /\ 1 \in 1..(changes + 1)
    BY SyncAssumption DEF Init
  <2>3. /\ IsMap(msgs, Nat)
        /\ \A u \in DOMAIN msgs :
              msgs[u] \in Nat /\ u < InitialMail + 1 /\ msgs[u] <= InitialMail
    BY SyncAssumption DEF IsMap
  <2>4. /\ b \in [uv : 1..(changes + 1), next : Nat, modseq : Nat, msgs : {b.msgs}]
        /\ b.msgs = msgs /\ b.next = InitialMail + 1 /\ b.modseq = InitialMail
    BY <2>2, SyncAssumption DEF Mail
  <2>5. IsMap(box, Mailbox) /\ \A m \in DOMAIN box : box[m] = b
    BY <2>1 DEF IsMap
  <2> HIDE DEF b, msgs
  <2>6. server \in Servers
    BY DEF Init
  <2> QED BY <2>2, <2>3, <2>4, <2>5, <2>6 DEF BoxOK, IsMessages
<1>2. ClientOK
  BY EmptyMap DEF Init, ClientOK
<1>3. CallOK /\ Filled
  <2>1. call = Batch(ChangesPlan, 0)
    BY DEF Init, NoCall
  <2>2. Filled
    BY <2>1, EmptyMap DEF Filled, Batch
  <2>3. CallOK
    BY <2>1, EmptyMap, SMTT(30) DEF CallOK, Batch, Idle, InPhase, IsMap
  <2> QED BY <2>2, <2>3
<1> QED BY <1>1, <1>2, <1>3 DEF TypeIInv, TypeOK

LEMMA NextType == TypeIInv /\ [Next]_vars => TypeIInv'
<1> SUFFICES ASSUME TypeOK, Filled, [Next]_vars PROVE TypeIInv'
  BY DEF TypeIInv
<1>1. CASE Changing
  <2>1. UNCHANGED <<client, call>>
    BY <1>1 DEF Changing, Deliver, SetFlags, Expunge, Others, Create, Drop
  <2>2. Filled'
    BY <2>1 DEF Filled, client
  <2> QED BY <1>1, <2>2, ChangingType DEF TypeIInv
<1>2. CASE Start
  <2>1. PICK plan \in {MailboxesFirst, QueryFirst, ChangesPlan} :
           call' = Batch(plan, 1)
    BY <1>2, SyncAssumption DEF Start, Answer
  <2> QED BY <1>2, <2>1, FilledStart, StartType DEF TypeIInv
<1>3. CASE Refuse \/ Missing \/ Adopt \/ Lost
  <2>1. call' = Batch(ChangesPlan, 0)
    BY <1>3 DEF Refuse, Missing, Adopt, Lost, Answer, NoCall
  <2>2. Filled'
    BY <2>1, FilledStart
  <2> QED BY <1>3, <2>2, RefuseType, MissingType, AdoptType, LostType DEF TypeIInv
<1>4. CASE NextPhase
  BY <1>4, FilledNextPhase, NextPhaseType DEF TypeIInv
<1>5. CASE List
  BY <1>5, FilledPhase, ListType DEF TypeIInv
<1>6. ASSUME NEW m \in Mailbox,
             \/ Select(m) \/ Search(m) \/ Skip(m) \/ Find(m)
             \/ FetchChanged(m) \/ Get(m)
      PROVE  TypeIInv'
  BY <1>6, FilledPhase, SelectType, SearchType, SkipType, FindType,
     FetchChangedType, GetType DEF TypeIInv
<1>7. CASE UNCHANGED vars
  BY <1>7, SMTT(30) DEF vars, TypeIInv, TypeOK, BoxOK, ClientOK, CallOK, Filled,
     Idle, InPhase, IsCursor
<1> QED BY <1>1, <1>2, <1>3, <1>4, <1>5, <1>6, <1>7 DEF Next, Working

\* The type invariant of the mail state string's clients and calls, whatever
\* plan the client boots with and whatever the server counts.
THEOREM TypeCorrect == Spec => []TypeOK
<1>1. TypeIInv => TypeOK
  BY DEF TypeIInv
<1> QED BY <1>1, InitType, NextType, PTL DEF Spec
-----------------------------------------------------------------------------
(* The inductive invariant of MirrorComplete.                              *)

\* Mailbox m is still the one cursor c was taken of.
Still(m, c) == m \in DOMAIN box /\ box[m].uv = c.uv

\* A cursor c and a later state d of the same mailbox.
Later(c, d) ==
    /\ c.next <= d.next /\ c.modseq <= d.modseq
    /\ c.next < d.next => c.modseq < d.modseq

\* f has each message of mailbox m that came or changed after the mailbox came
\* into the state string, and not after cursor c.
Covers(f, c, m) ==
    \A u \in DOMAIN box[m].msgs :
        /\ u < c.next
        /\ since[m] < box[m].msgs[u] /\ box[m].msgs[u] <= c.modseq
        => u \in DOMAIN f /\ f[u] = box[m].msgs[u]

\* The sweep comes first: before anything is searched, compared or fetched.
SweptFirst ==
    /\ call.at <= 1 => DOMAIN call.news = {} /\ DOMAIN call.found = {}
                       /\ DOMAIN call.got = {}
    /\ call.at > 1 => call.swept /\ (InPhase("state") => call.todo = {})
    /\ InPhase("search") => call.at > 1

\* Cursors taken in this order grow in this order.
Order ==
    /\ \A m \in DOMAIN token : Still(m, token[m]) => Later(token[m], box[m])
    /\ \A m \in DOMAIN call.sweep :
          Still(m, call.sweep[m]) => Later(call.sweep[m], box[m])
    /\ \A m \in DOMAIN token \cap DOMAIN call.sweep :
          token[m].uv = call.sweep[m].uv => Later(token[m], call.sweep[m])

\* What the client's copies miss is newer than its state string.
MirrorCovers ==
    \A m \in DOMAIN mirror :
        Still(m, token[m]) => Covers(mirror[m], token[m], m)

\* The search of Email/changes found what arrived before the sweep.
NewsFound ==
    \A m \in DOMAIN call.news :
        m \in DOMAIN call.sweep /\ Still(m, call.sweep[m]) =>
            \A u \in DOMAIN box[m].msgs :
                token[m].next <= u /\ u < call.sweep[m].next
                    => u \in call.news[m]

\* What the client will hold of message u without fetching it.
Kept(m, u) ==
    synced /\ u \in DOMAIN mirror[m] /\ mirror[m][u] = box[m].msgs[u]

\* A message of mailbox m from before the sweep, that the client is to have.
Wanted(m, u) ==
    /\ u < call.sweep[m].next /\ box[m].msgs[u] <= call.sweep[m].modseq
    /\ synced => since[m] < box[m].msgs[u]

\* The ids a batch fetches: all from before the sweep that the client lacks.
FoundAll ==
    \A m \in DOMAIN call.found \cap DOMAIN call.sweep :
        Still(m, call.sweep[m]) /\ (synced => m \in DOMAIN mirror) =>
            /\ call.found[m].uv = call.sweep[m].uv
            /\ \A u \in DOMAIN box[m].msgs : Wanted(m, u) =>
                  u \in call.found[m].uids \/ Kept(m, u)

\* A mailbox passed over did not change between the two state strings.
Skipped ==
    synced /\ call.at > 1 =>
        \A m \in (DOMAIN token \cap DOMAIN call.sweep) \ DOMAIN call.found :
            \/ call.at = 2 /\ m \in call.todo
            \/ /\ token[m].uv = call.sweep[m].uv
               /\ token[m].modseq = call.sweep[m].modseq

\* What Email/get returned.
GotFresh ==
    \A m \in DOMAIN call.got :
        /\ DOMAIN call.got[m] \subseteq call.found[m].uids
        /\ m \in DOMAIN call.sweep /\ Still(m, call.sweep[m])
           /\ call.found[m].uv = call.sweep[m].uv =>
              \A u \in DOMAIN box[m].msgs :
                u \in call.found[m].uids /\ u < call.sweep[m].next =>
                    /\ u \in DOMAIN call.got[m]
                    /\ box[m].msgs[u] <= call.sweep[m].modseq =>
                          call.got[m][u] = box[m].msgs[u]

\* A mailbox of the first sweep that the search after it did not meet is gone.
Searched ==
    ~synced /\ (call.at > 2 \/ (call.at = 2 /\ call.listed)) =>
        \A m \in DOMAIN call.sweep \ DOMAIN call.found :
            \/ call.at = 2 /\ m \in call.todo
            \/ ~Still(m, call.sweep[m])

\* So is one of the state string of which the client has no copies.
NoCopies ==
    \A m \in DOMAIN token \ DOMAIN mirror : ~Still(m, token[m])

MirrorParts ==
    /\ SweptFirst /\ Order /\ MirrorCovers
    /\ NewsFound /\ FoundAll /\ Skipped /\ GotFresh
    /\ Searched /\ NoCopies

MirrorIInv == TypeIInv /\ MirrorParts

-----------------------------------------------------------------------------
(* What other clients do to a mailbox.                                     *)

\* Mailbox b became d: a message it has is new, or unchanged, or its change
\* is counted.
Grown(b, d) ==
    /\ Later(b, d)
    /\ \A u \in DOMAIN d.msgs : u < b.next =>
          u \in DOMAIN b.msgs
          /\ (d.msgs[u] = b.msgs[u] \/ d.msgs[u] > b.modseq)

LEMMA BoxFields ==
    ASSUME TypeOK, NEW m \in DOMAIN box
    PROVE  /\ m \in Mailbox /\ box[m].uv \in 1..(changes + 1)
           /\ box[m].next \in Nat /\ box[m].modseq \in Nat
           /\ IsMap(box[m].msgs, Nat)
           /\ \A u \in DOMAIN box[m].msgs :
                 /\ u \in Nat /\ u < box[m].next
                 /\ box[m].msgs[u] \in Nat /\ box[m].msgs[u] <= box[m].modseq
BY DEF TypeOK, BoxOK, IsMessages, IsMap

LEMMA CursorFields ==
    ASSUME TypeOK
    PROVE  /\ \A m \in DOMAIN token :
                 /\ token[m].uv \in 1..(changes + 1)
                 /\ token[m].next \in Nat /\ token[m].modseq \in Nat
           /\ \A m \in DOMAIN call.sweep :
                 /\ call.sweep[m].uv \in 1..(changes + 1)
                 /\ call.sweep[m].next \in Nat /\ call.sweep[m].modseq \in Nat
           /\ DOMAIN mirror \subseteq DOMAIN token
BY DEF TypeOK, ClientOK, CallOK, IsCursor, IsMap

\* Unchanged is a way to grow.
LEMMA SameGrown ==
    ASSUME TypeOK, NEW m \in DOMAIN box PROVE Grown(box[m], box[m])
BY BoxFields DEF Grown, Later

\* One mailbox changed by another client.
LEMMA OthersGrown ==
    ASSUME TypeOK, NEW m \in DOMAIN box, NEW next \in Nat, NEW modseq \in Nat,
           NEW msgs, Others(m, Mail(box[m].uv, next, modseq, msgs)),
           box[m].next <= next, box[m].modseq <= modseq,
           box[m].next < next => box[m].modseq < modseq,
           \A u \in DOMAIN msgs : u < box[m].next =>
              u \in DOMAIN box[m].msgs
              /\ (msgs[u] = box[m].msgs[u] \/ msgs[u] > box[m].modseq),
           NEW x \in DOMAIN box'
    PROVE  x \in DOMAIN box /\ box'[x].uv = box[x].uv /\ Grown(box[x], box'[x])
<1> DEFINE b == Mail(box[m].uv, next, modseq, msgs)
<1>1. DOMAIN box' = DOMAIN box /\ box' = [box EXCEPT ![m] = b]
  BY DEF Others, TypeOK, BoxOK, IsMap
<1>2. b.uv = box[m].uv /\ b.next = next /\ b.modseq = modseq /\ b.msgs = msgs
  BY Parts
<1>3. Grown(box[m], b)
  BY <1>2 DEF Grown, Later
<1> HIDE DEF b
<1>4. CASE x = m
  BY <1>1, <1>2, <1>3, <1>4
<1>5. CASE x # m
  BY <1>1, <1>5, SameGrown
<1> QED BY <1>4, <1>5

LEMMA ChangingGrows ==
    ASSUME TypeOK, Changing, NEW x \in DOMAIN box',
           box'[x].uv \in 1..(changes + 1)
    PROVE  x \in DOMAIN box /\ box'[x].uv = box[x].uv /\ Grown(box[x], box'[x])
<1>1. PICK m \in Mailbox :
        \/ Deliver(m) \/ Create(m) \/ Drop(m)
        \/ m \in DOMAIN box /\ \E u \in DOMAIN box[m].msgs :
              SetFlags(m, u) \/ Expunge(m, u)
  BY DEF Changing
<1> DEFINE b == box[m]
<1>a. ASSUME m \in DOMAIN box
      PROVE  /\ b.next \in Nat /\ b.modseq \in Nat
             /\ b.next + 1 \in Nat /\ b.modseq + 1 \in Nat
             /\ \A u \in DOMAIN b.msgs : u \in Nat /\ b.msgs[u] \in Nat
  BY <1>a, BoxFields
<1>2. CASE Deliver(m)
  <2> DEFINE msgs == With(b.msgs, b.next, b.modseq + 1)
  <2>1. m \in DOMAIN box /\ Others(m, Mail(b.uv, b.next + 1, b.modseq + 1, msgs))
    BY <1>2 DEF Deliver
  <2>2. /\ DOMAIN msgs = DOMAIN b.msgs \cup {b.next}
        /\ \A v \in DOMAIN b.msgs : v # b.next => msgs[v] = b.msgs[v]
    BY DEF With
  <2> HIDE DEF msgs
  <2>3. \A v \in DOMAIN msgs : v < b.next =>
           v \in DOMAIN b.msgs /\ msgs[v] = b.msgs[v]
    BY <2>1, <2>2, <1>a
  <2>4. b.next <= b.next + 1 /\ b.modseq < b.modseq + 1 /\ b.modseq <= b.modseq + 1
    BY <2>1, <1>a
  <2> QED BY <2>1, <2>3, <2>4, <1>a, OthersGrown
<1>3. ASSUME m \in DOMAIN box, NEW u \in DOMAIN box[m].msgs, SetFlags(m, u)
      PROVE  x \in DOMAIN box /\ box'[x].uv = box[x].uv /\ Grown(box[x], box'[x])
  <2> DEFINE msgs == With(b.msgs, u, b.modseq + 1)
  <2>1. Others(m, Mail(b.uv, b.next, b.modseq + 1, msgs))
    BY <1>3 DEF SetFlags
  <2>2. /\ DOMAIN msgs = DOMAIN b.msgs \cup {u}
        /\ msgs[u] = b.modseq + 1
        /\ \A v \in DOMAIN b.msgs : v # u => msgs[v] = b.msgs[v]
    BY DEF With
  <2> HIDE DEF msgs
  <2>3. \A v \in DOMAIN msgs :
           v \in DOMAIN b.msgs /\ (msgs[v] = b.msgs[v] \/ msgs[v] > b.modseq)
    BY <1>3, <2>2, <1>a
  <2>4. b.next <= b.next /\ b.modseq <= b.modseq + 1 /\ ~(b.next < b.next)
    BY <1>3, <1>a
  <2> QED BY <1>3, <2>1, <2>3, <2>4, <1>a, OthersGrown
<1>4. ASSUME m \in DOMAIN box, NEW u \in DOMAIN box[m].msgs, Expunge(m, u)
      PROVE  x \in DOMAIN box /\ box'[x].uv = box[x].uv /\ Grown(box[x], box'[x])
  <2> DEFINE msgs == [v \in DOMAIN b.msgs \ {u} |-> b.msgs[v]]
             modseq == IF server = "qresync" THEN b.modseq + 1 ELSE b.modseq
  <2>1. Others(m, Mail(b.uv, b.next, modseq, msgs))
    BY <1>4 DEF Expunge
  <2>2. modseq \in Nat /\ b.modseq <= modseq /\ b.next <= b.next /\ ~(b.next < b.next)
    BY <1>4, <1>a
  <2>3. \A v \in DOMAIN msgs : v \in DOMAIN b.msgs /\ msgs[v] = b.msgs[v]
    OBVIOUS
  <2> HIDE DEF msgs, modseq
  <2> QED BY <1>4, <2>1, <2>2, <2>3, <1>a, OthersGrown
<1>5. CASE Create(m)
  <2>1. /\ box' = With(box, m, Mail(changes + 2, 1, 0, Empty))
        /\ m \notin DOMAIN box
    BY <1>5 DEF Create
  <2>2. CASE x = m
    <3>1. box'[x].uv = changes + 2
      BY <2>1, <2>2 DEF With, Mail
    <3> QED BY <3>1 DEF TypeOK, BoxOK
  <2>3. CASE x # m
    BY <2>1, <2>3, SameGrown DEF With
  <2> QED BY <2>2, <2>3
<1>6. CASE Drop(m)
  BY <1>6, SameGrown DEF Drop
<1> QED BY <1>1, <1>2, <1>3, <1>4, <1>5, <1>6

\* A mailbox a cursor still belongs to has only grown.
LEMMA StillGrown ==
    ASSUME TypeOK, Changing, NEW c, c.uv \in 1..(changes + 1),
           NEW m \in DOMAIN box', box'[m].uv = c.uv
    PROVE  m \in DOMAIN box /\ Still(m, c) /\ Grown(box[m], box'[m])
BY ChangingGrows DEF Still

\* What came of the mailbox since a cursor, when the mailbox grows.
LEMMA GrownSince ==
    ASSUME NEW c, NEW b, NEW d, Later(c, b), Grown(b, d),
           c.next \in Nat, c.modseq \in Nat, b.next \in Nat, b.modseq \in Nat,
           d.next \in Nat, d.modseq \in Nat,
           \A u \in DOMAIN d.msgs : u \in Nat /\ d.msgs[u] \in Nat
    PROVE  /\ Later(c, d)
           /\ \A u \in DOMAIN d.msgs : u < c.next =>
                 /\ u \in DOMAIN b.msgs
                 /\ d.msgs[u] <= c.modseq => b.msgs[u] = d.msgs[u]
<1>1. Later(c, d)
  BY DEF Later, Grown
<1>2. ASSUME NEW u \in DOMAIN d.msgs, u < c.next
      PROVE  /\ u \in DOMAIN b.msgs
             /\ d.msgs[u] <= c.modseq => b.msgs[u] = d.msgs[u]
  <2>1. u < b.next /\ c.modseq <= b.modseq
    BY <1>2 DEF Later
  <2>2. u \in DOMAIN b.msgs /\ (d.msgs[u] = b.msgs[u] \/ d.msgs[u] > b.modseq)
    BY <2>1 DEF Grown
  <2> QED BY <2>1, <2>2
<1> QED BY <1>1, <1>2

\* The same of a cursor that was taken of a mailbox.
LEMMA StillSince ==
    ASSUME TypeOK, TypeOK', Changing, NEW c, NEW m \in DOMAIN box',
           c.uv \in 1..(changes + 1), c.next \in Nat, c.modseq \in Nat,
           Still(m, c) => Later(c, box[m]), box'[m].uv = c.uv
    PROVE  /\ Still(m, c) /\ m \in DOMAIN box
           /\ Later(c, box[m]) /\ Later(c, box'[m])
           /\ \A u \in DOMAIN box'[m].msgs : u < c.next =>
                 /\ u \in DOMAIN box[m].msgs
                 /\ box[m].msgs[u] \in Nat /\ box'[m].msgs[u] \in Nat
                 /\ box'[m].msgs[u] <= c.modseq =>
                       box[m].msgs[u] = box'[m].msgs[u]
<1>1. Still(m, c) /\ m \in DOMAIN box /\ Grown(box[m], box'[m])
  BY StillGrown
<1>2. Later(c, box[m])
  BY <1>1
<1>3. /\ box[m].next \in Nat /\ box[m].modseq \in Nat
      /\ \A u \in DOMAIN box[m].msgs : box[m].msgs[u] \in Nat
  BY <1>1, BoxFields
<1>4. /\ box'[m].next \in Nat /\ box'[m].modseq \in Nat
      /\ \A u \in DOMAIN box'[m].msgs : u \in Nat /\ box'[m].msgs[u] \in Nat
  BY DEF TypeOK, BoxOK, IsMessages, IsMap
<1> QED BY <1>1, <1>2, <1>3, <1>4, GrownSince

\* Other clients' steps.
LEMMA ChangingMirror ==
    ASSUME MirrorIInv, Changing, TypeOK' PROVE MirrorParts'
<1>0. /\ TypeOK /\ SweptFirst /\ Order /\ MirrorCovers
      /\ NewsFound /\ FoundAll /\ Skipped /\ GotFresh /\ Searched /\ NoCopies
  BY DEF MirrorIInv, TypeIInv, MirrorParts
<1>1. UNCHANGED <<synced, token, mirror, since, call>>
  BY DEF Changing, Deliver, SetFlags, Expunge, Others, Create, Drop, client
<1>t. ASSUME NEW m \in DOMAIN token, m \in DOMAIN box', box'[m].uv = token[m].uv
      PROVE  /\ Still(m, token[m]) /\ m \in DOMAIN box /\ Later(token[m], box'[m])
             /\ \A u \in DOMAIN box'[m].msgs : u < token[m].next =>
                   /\ u \in DOMAIN box[m].msgs
                   /\ box'[m].msgs[u] <= token[m].modseq =>
                         box[m].msgs[u] = box'[m].msgs[u]
  BY <1>0, <1>t, CursorFields, StillSince DEF Order
<1>s. ASSUME NEW m \in DOMAIN call.sweep, m \in DOMAIN box',
             box'[m].uv = call.sweep[m].uv
      PROVE  /\ Still(m, call.sweep[m]) /\ m \in DOMAIN box
             /\ Later(call.sweep[m], box'[m])
             /\ \A u \in DOMAIN box'[m].msgs : u < call.sweep[m].next =>
                   /\ u \in DOMAIN box[m].msgs
                   /\ box'[m].msgs[u] <= call.sweep[m].modseq =>
                         box[m].msgs[u] = box'[m].msgs[u]
  BY <1>0, <1>s, CursorFields, StillSince DEF Order
<1>2. SweptFirst' /\ Skipped'
  BY <1>0, <1>1 DEF SweptFirst, Skipped, InPhase, Idle
<1>3. Order'
  BY <1>0, <1>1, <1>t, <1>s DEF Order, Still
<1>4. MirrorCovers'
  <2>1. ASSUME NEW m \in DOMAIN mirror, m \in DOMAIN box', box'[m].uv = token[m].uv,
               NEW u \in DOMAIN box'[m].msgs, u < token[m].next,
               since[m] < box'[m].msgs[u], box'[m].msgs[u] <= token[m].modseq
        PROVE  u \in DOMAIN mirror[m] /\ mirror[m][u] = box'[m].msgs[u]
    <3>1. m \in DOMAIN token
      BY <1>0, CursorFields
    <3>2. Covers(mirror[m], token[m], m)
      BY <1>0, <1>t, <2>1, <3>1 DEF MirrorCovers
    <3> QED BY <3>1, <3>2, <1>t, <2>1 DEF Covers
  <2> QED BY <2>1, <1>1 DEF MirrorCovers, Covers, Still
<1>5. NewsFound'
  BY <1>0, <1>1, <1>s DEF NewsFound, Still
<1>6. FoundAll'
  <2>1. ASSUME NEW m \in DOMAIN call.found \cap DOMAIN call.sweep,
               m \in DOMAIN box', box'[m].uv = call.sweep[m].uv,
               synced => m \in DOMAIN mirror
        PROVE  /\ call.found[m].uv = call.sweep[m].uv
               /\ \A u \in DOMAIN box'[m].msgs :
                     /\ u < call.sweep[m].next
                     /\ box'[m].msgs[u] <= call.sweep[m].modseq
                     /\ synced => since[m] < box'[m].msgs[u]
                     => \/ u \in call.found[m].uids
                        \/ /\ synced /\ u \in DOMAIN mirror[m]
                           /\ mirror[m][u] = box'[m].msgs[u]
    BY <1>0, <1>s, <2>1 DEF FoundAll, Kept, Wanted
  <2> QED BY <2>1, <1>1 DEF FoundAll, Kept, Wanted, Still
<1>7. GotFresh'
  <2>1. ASSUME NEW m \in DOMAIN call.got, m \in DOMAIN call.sweep,
               m \in DOMAIN box', box'[m].uv = call.sweep[m].uv,
               call.found[m].uv = call.sweep[m].uv,
               NEW u \in DOMAIN box'[m].msgs,
               u \in call.found[m].uids, u < call.sweep[m].next
        PROVE  /\ u \in DOMAIN call.got[m]
               /\ box'[m].msgs[u] <= call.sweep[m].modseq =>
                     call.got[m][u] = box'[m].msgs[u]
    BY <1>0, <1>s, <2>1 DEF GotFresh
  <2> QED BY <2>1, <1>0, <1>1 DEF GotFresh, Still
<1>8. Searched' /\ NoCopies'
  BY <1>0, <1>1, <1>t, <1>s DEF Searched, NoCopies, Still
<1> QED BY <1>2, <1>3, <1>4, <1>5, <1>6, <1>7, <1>8 DEF MirrorParts

\* A batch that begins, or none.
LEMMA FreshBatch ==
    ASSUME NEW plan \in {MailboxesFirst, ChangesPlan}, NEW at \in {0, 1},
           call' = Batch(plan, at)
    PROVE  /\ SweptFirst' /\ NewsFound' /\ FoundAll' /\ Skipped' /\ GotFresh'
           /\ Searched' /\ DOMAIN call'.sweep = {}
<1>1. /\ call'.plan = plan /\ call'.at = at /\ DOMAIN call'.sweep = {}
      /\ DOMAIN call'.news = {} /\ DOMAIN call'.found = {}
      /\ DOMAIN call'.got = {}
  BY EmptyMap DEF Batch
<1>2. plan[1] # "search"
  BY DEF MailboxesFirst, ChangesPlan
<1>3. SweptFirst'
  BY <1>1, <1>2 DEF SweptFirst, InPhase, Idle
<1> QED BY <1>1, <1>3 DEF NewsFound, FoundAll, Skipped, GotFresh, Searched

\* A batch ends or begins while the client keeps what it has.
LEMMA FreshMirror ==
    ASSUME MirrorIInv, NEW plan \in {MailboxesFirst, ChangesPlan},
           NEW at \in {0, 1}, call' = Batch(plan, at),
           UNCHANGED <<box, synced, token, mirror, since>>
    PROVE  MirrorParts'
<1>1. Order /\ MirrorCovers /\ NoCopies
  BY DEF MirrorIInv, MirrorParts
<1>2. Order'
  BY <1>1, FreshBatch DEF Order, Still
<1>3. MirrorCovers' /\ NoCopies'
  BY <1>1 DEF MirrorCovers, NoCopies, Covers, Still
<1> QED BY <1>2, <1>3, FreshBatch DEF MirrorParts

LEMMA RefuseMirror == ASSUME Refuse PROVE MirrorParts'
<1>1. call' = Batch(ChangesPlan, 0) /\ DOMAIN token' = {} /\ DOMAIN mirror' = {}
  BY EmptyMap DEF Refuse, NoCall
<1>2. Order' /\ MirrorCovers' /\ NoCopies'
  BY <1>1, FreshBatch DEF Order, MirrorCovers, NoCopies
<1> QED BY <1>1, <1>2, FreshBatch DEF MirrorParts

\* The client takes over what the batch brought.
LEMMA AdoptMirror == ASSUME MirrorIInv, Adopt PROVE MirrorParts'
<1>0. /\ TypeOK /\ Filled /\ SweptFirst /\ Order /\ MirrorCovers
      /\ NewsFound /\ FoundAll /\ Skipped /\ GotFresh /\ Searched
  BY DEF MirrorIInv, TypeIInv, MirrorParts
<1>1. /\ call' = Batch(ChangesPlan, 0) /\ UNCHANGED box /\ token' = call.sweep
      /\ Finished /\ ~Idle /\ call.at = Len(call.plan)
  BY DEF Adopt, NoCall, Finished, env
<1>2. /\ call.at > 1 /\ call.at > 2 /\ call.at # 2
      /\ DOMAIN call.got = DOMAIN call.found
      /\ synced <=> call.plan = ChangesPlan
  <2>1. call.plan \in {MailboxesFirst, QueryFirst, ChangesPlan}
    BY <1>0, Fields, SyncAssumption
  <2>2. call.at = 4 \/ call.at = 5
    BY <1>1, <2>1, Plans
  <2>3. DOMAIN call.got = DOMAIN call.found
    <3>1. call.at > 0
      BY <2>2
    <3> QED BY <1>0, <1>1, <3>1, Zenon DEF Filled
  <2>4. synced <=> call.plan = ChangesPlan
    BY <1>0, <1>1, Phases
  <2> QED BY <2>2, <2>3, <2>4
<1>3. Order'
  BY <1>0, <1>1, FreshBatch DEF Order, Still
<1>4. ASSUME NEW m \in DOMAIN call.got \cap DOMAIN call.sweep,
             Still(m, call.sweep[m]), synced => m \in DOMAIN mirror,
             NEW u \in DOMAIN box[m].msgs, Wanted(m, u)
      PROVE  \/ /\ u \in call.found[m].uids /\ u \in DOMAIN call.got[m]
                /\ call.got[m][u] = box[m].msgs[u]
             \/ u \notin call.found[m].uids /\ Kept(m, u)
  <2>1. /\ call.found[m].uv = call.sweep[m].uv
        /\ u \in call.found[m].uids \/ Kept(m, u)
    BY <1>0, <1>2, <1>4 DEF FoundAll
  <2> QED BY <2>1, <1>0, <1>4 DEF GotFresh, Wanted
<1>5. CASE ~synced
  <2>1. mirror' = [m \in Booted |-> call.got[m]]
    BY <1>5 DEF Adopt
  <2>2. MirrorCovers'
    BY <2>1, <1>1, <1>4, <1>5 DEF MirrorCovers, Covers, Still, Kept, Wanted, Booted
  <2>3. NoCopies'
    BY <2>1, <1>0, <1>1, <1>2, <1>5 DEF NoCopies, Searched, Still, Booted
  <2> QED BY <2>2, <2>3, <1>1, <1>3, FreshBatch DEF MirrorParts
<1>6. CASE synced
  <2>1. /\ mirror' = [m \in DOMAIN call.sweep |-> Refreshed(m)]
        /\ since' = [m \in DOMAIN call.sweep |->
                        IF m \in DOMAIN mirror THEN since[m]
                                              ELSE call.sweep[m].modseq]
    BY <1>6 DEF Adopt
  <2>2. ASSUME NEW m \in DOMAIN mirror, Still(m, call.sweep[m]),
               NEW u \in DOMAIN box[m].msgs, Wanted(m, u)
        PROVE  u \in DOMAIN Refreshed(m) /\ Refreshed(m)[u] = box[m].msgs[u]
    <3>1. m \in DOMAIN token /\ m \in DOMAIN call.sweep
      BY <1>0, <1>2, <1>6, CursorFields DEF Filled
    <3>2. CASE m \in DOMAIN call.found
      <4> DEFINE got == call.got[m]
      <4>1. Refreshed(m) =
              [v \in (DOMAIN mirror[m] \ call.found[m].uids) \cup DOMAIN got |->
                  IF v \in DOMAIN got THEN got[v] ELSE mirror[m][v]]
        BY <3>2 DEF Refreshed, Copies
      <4>2. DOMAIN got \subseteq call.found[m].uids
        BY <3>2, <1>0, <1>2 DEF GotFresh
      <4>3. \/ u \in DOMAIN got /\ got[u] = box[m].msgs[u]
            \/ /\ u \notin call.found[m].uids /\ u \in DOMAIN mirror[m]
               /\ mirror[m][u] = box[m].msgs[u]
        BY <1>2, <1>4, <2>2, <3>1, <3>2 DEF Kept
      <4> HIDE DEF got
      <4> QED BY <4>1, <4>2, <4>3
    <3>3. CASE m \notin DOMAIN call.found
      <4>1. Refreshed(m) = mirror[m]
        BY <3>3 DEF Refreshed, Copies
      <4>2. token[m].uv = call.sweep[m].uv /\ token[m].modseq = call.sweep[m].modseq
        BY <3>1, <3>3, <1>0, <1>2, <1>6 DEF Skipped
      <4>3. token[m].next = call.sweep[m].next
        BY <3>1, <4>2, <1>0, CursorFields DEF Order, Later
      <4>4. Covers(mirror[m], token[m], m)
        BY <4>2, <2>2, <1>0 DEF MirrorCovers, Still
      <4> QED BY <4>1, <4>2, <4>3, <4>4, <2>2, <1>6 DEF Covers, Wanted
    <3> QED BY <3>2, <3>3
  <2>3. ASSUME NEW m \in DOMAIN call.sweep, Still(m, call.sweep[m]),
               NEW u \in DOMAIN box[m].msgs, u < call.sweep[m].next,
               since'[m] < box[m].msgs[u], box[m].msgs[u] <= call.sweep[m].modseq
        PROVE  u \in DOMAIN Refreshed(m) /\ Refreshed(m)[u] = box[m].msgs[u]
    <3>1. CASE m \in DOMAIN mirror
      BY <2>1, <2>2, <2>3, <3>1 DEF Wanted
    <3>2. CASE m \notin DOMAIN mirror
      <4>1. since'[m] = call.sweep[m].modseq
        BY <2>1, <3>2
      <4>2. call.sweep[m].modseq \in Nat /\ box[m].msgs[u] \in Nat
        BY <1>0, <2>3, CursorFields, BoxFields DEF Still
      <4> QED BY <2>3, <4>1, <4>2
    <3> QED BY <3>1, <3>2
  <2>4. MirrorCovers' /\ NoCopies'
    BY <2>1, <2>3, <1>1 DEF MirrorCovers, NoCopies, Covers, Still
  <2> QED BY <2>4, <1>1, <1>3, FreshBatch DEF MirrorParts
<1> QED BY <1>5, <1>6

-----------------------------------------------------------------------------
(* The steps of a batch.                                                   *)

\* Nothing changes but the call.
LEMMA KeptMirror ==
    ASSUME MirrorIInv, UNCHANGED <<env, client>>
    PROVE  /\ TypeOK /\ Filled /\ SweptFirst /\ Order /\ MirrorCovers
           /\ NewsFound /\ FoundAll /\ Skipped /\ GotFresh /\ Searched
           /\ UNCHANGED <<box, synced, token, mirror, since>>
           /\ MirrorCovers' /\ NoCopies'
<1>1. UNCHANGED <<box, synced, token, mirror, since>>
  BY DEF env, client
<1>2. /\ TypeOK /\ Filled /\ SweptFirst /\ Order /\ MirrorCovers
      /\ NewsFound /\ FoundAll /\ Skipped /\ GotFresh /\ Searched /\ NoCopies
  BY DEF MirrorIInv, TypeIInv, MirrorParts
<1>3. MirrorCovers' /\ NoCopies'
  BY <1>1, <1>2 DEF MirrorCovers, NoCopies, Covers, Still
<1> QED BY <1>1, <1>2, <1>3

\* What was read stays as it was.
LEMMA SameRead ==
    ASSUME MirrorIInv, UNCHANGED <<env, client>>,
           call'.sweep = call.sweep, call'.news = call.news,
           call'.found = call.found, call'.got = call.got
    PROVE  /\ Order' /\ MirrorCovers' /\ NewsFound' /\ FoundAll' /\ GotFresh'
           /\ NoCopies'
<1>1. /\ Order /\ NewsFound /\ FoundAll /\ GotFresh /\ MirrorCovers' /\ NoCopies'
      /\ UNCHANGED <<box, synced, token, mirror, since>>
  BY KeptMirror
<1> QED BY <1>1 DEF Order, NewsFound, FoundAll, Kept, Wanted, GotFresh, Still

LEMMA ListMirror == ASSUME MirrorIInv, List PROVE MirrorParts'
<1>0. /\ UNCHANGED <<env, client>> /\ ~InPhase("compare") /\ ~Idle
      /\ \A x \in {"plan", "at", "swept", "sweep", "news", "found", "got"} :
            call'[x] = call[x]
      /\ call'.todo = DOMAIN box
  BY ListStep DEF MirrorIInv, TypeIInv
<1>1. /\ call'.plan = call.plan /\ call'.at = call.at /\ call'.swept = call.swept
      /\ call'.sweep = call.sweep /\ call'.news = call.news
      /\ call'.found = call.found /\ call'.got = call.got
  BY <1>0
<1>2. /\ Order' /\ MirrorCovers' /\ NewsFound' /\ FoundAll' /\ GotFresh'
      /\ NoCopies'
  BY <1>0, <1>1, SameRead
<1>3. TypeOK /\ SweptFirst /\ Skipped /\ Searched /\ UNCHANGED <<box, synced, token>>
  BY <1>0, KeptMirror
<1>4. (InPhase("state") /\ ~call.swept) \/ InPhase("search")
  BY DEF List
<1>5. SweptFirst'
  BY <1>1, <1>3, <1>4 DEF SweptFirst, InPhase, Idle
<1>6. ~(synced /\ call.at = 2)
  BY <1>0, <1>3, Phases
<1>7. Skipped'
  BY <1>1, <1>3, <1>6 DEF Skipped
<1>8. Searched'
  BY <1>0, <1>1, <1>3 DEF Searched, Still
<1> QED BY <1>2, <1>5, <1>7, <1>8 DEF MirrorParts

LEMMA NextPhaseMirror ==
    ASSUME MirrorIInv, Boots \subseteq {MailboxesFirst}, NextPhase
    PROVE  MirrorParts'
<1>0. /\ UNCHANGED <<env, client>> /\ ~Idle /\ Finished
      /\ call'.at = call.at + 1
      /\ call'.swept = (call.swept \/ InPhase("state"))
      /\ call'.plan = call.plan
      /\ call'.sweep = call.sweep /\ call'.news = call.news
      /\ call'.found = call.found /\ call'.got = call.got
      /\ call'.todo =
            IF call.plan[call.at + 1] = "compare" THEN DOMAIN call.sweep
            ELSE IF call.plan[call.at + 1] = "get" THEN DOMAIN call.found
            ELSE {}
      /\ call.at < Len(call.plan)
  BY NextPhaseStep DEF MirrorIInv, TypeIInv
<1>1. /\ Order' /\ MirrorCovers' /\ NewsFound' /\ FoundAll' /\ GotFresh'
      /\ NoCopies'
  BY <1>0, SameRead
<1>2. TypeOK /\ SweptFirst /\ Skipped /\ Searched /\ UNCHANGED <<box, synced, token>>
  BY <1>0, KeptMirror
<1>3. /\ call.at \in Nat /\ call.at > 0
      /\ call.plan \in {MailboxesFirst, ChangesPlan}
  BY <1>0, <1>2, Fields DEF Idle
<1>4. call.swept \/ InPhase("state")
  <2>1. CASE call.at > 1
    BY <2>1, <1>2 DEF SweptFirst
  <2>2. CASE call.at = 1
    <3>1. call.plan[1] = "state"
      BY <1>3 DEF MailboxesFirst, ChangesPlan
    <3> QED BY <3>1, <2>2, <1>0 DEF InPhase
  <2> QED BY <2>1, <2>2, <1>3
<1>5. SweptFirst'
  <2>1. call'.at > 1
    BY <1>0, <1>3
  <2>2. InPhase("state")' => call'.todo = {}
    BY <1>0 DEF InPhase
  <2>3. call'.swept
    BY <1>0, <1>4, Zenon
  <2>4. ~(call'.at <= 1)
    BY <1>0, <1>3
  <2> QED BY <2>1, <2>2, <2>3, <2>4 DEF SweptFirst
<1>6. Skipped'
  <2>1. SUFFICES ASSUME synced,
                        NEW m \in (DOMAIN token \cap DOMAIN call.sweep)
                                     \ DOMAIN call.found
                 PROVE  \/ call'.at = 2 /\ m \in call'.todo
                        \/ /\ token[m].uv = call.sweep[m].uv
                           /\ token[m].modseq = call.sweep[m].modseq
    BY <1>0, <1>2 DEF Skipped
  <2>2. call.plan = ChangesPlan
    BY <2>1, <1>0, <1>2, Phases
  <2>3. CASE call.at = 1
    <3>1. call.plan[call.at + 1] = "compare" /\ call'.at = 2
      BY <2>2, <2>3, <1>0 DEF ChangesPlan
    <3> QED BY <3>1, <1>0
  <2>4. CASE call.at > 1
    <3>1. call.todo = {}
      BY <1>0 DEF Finished
    <3> QED BY <3>1, <2>1, <2>4, <1>2 DEF Skipped
  <2> QED BY <2>3, <2>4, <1>3
<1>7. Searched'
  <2>1. SUFFICES ASSUME ~synced, call.at + 1 > 2,
                        NEW m \in DOMAIN call.sweep \ DOMAIN call.found
                 PROVE  ~Still(m, call.sweep[m])
    <3>1. ~(call'.at = 2 /\ call'.listed)
      BY NextPhaseStep, <1>2
    <3> QED BY <3>1, <1>0, <1>2 DEF Searched, Still
  <2>2. call.plan = MailboxesFirst /\ call.todo = {}
    BY <2>1, <1>0, <1>2, <1>3, Phases DEF Finished
  <2>3. call.at = 2 => call.listed
    BY <2>2, <1>0 DEF Finished, InPhase, MailboxesFirst
  <2>4. call.at > 2 \/ call.at = 2
    BY <2>1, <1>3
  <2> QED BY <2>1, <2>2, <2>3, <2>4, <1>2 DEF Searched
<1> QED BY <1>1, <1>5, <1>6, <1>7 DEF MirrorParts

\* A cursor is at the mailbox it is taken of.
LEMMA CursorOf ==
    ASSUME TypeOK, "plain" \notin Servers, NEW m \in DOMAIN box
    PROVE  /\ Cursor(box[m]).uv = box[m].uv
           /\ Cursor(box[m]).next = box[m].next
           /\ Cursor(box[m]).modseq = box[m].modseq
           /\ Cursor(box[m]).uids = DOMAIN box[m].msgs
BY DEF Cursor, TypeOK, BoxOK

LEMMA SelectMirror ==
    ASSUME MirrorIInv, "plain" \notin Servers, NEW m, Select(m)
    PROVE  MirrorParts'
<1> DEFINE c == Cursor(box[m])
<1>0. /\ UNCHANGED <<env, client>> /\ InPhase("state")
      /\ m \in DOMAIN box /\ call'.todo = call.todo \ {m}
      /\ call'.sweep = With(call.sweep, m, c)
      /\ call'.plan = call.plan /\ call'.at = call.at /\ call'.swept = call.swept
      /\ call'.news = call.news
      /\ call'.found = call.found /\ call'.got = call.got
  BY SelectStep DEF MirrorIInv, TypeIInv
<1>1. /\ TypeOK /\ SweptFirst /\ Order /\ MirrorCovers' /\ NoCopies'
      /\ UNCHANGED <<box, synced, token, mirror, since>>
  BY <1>0, KeptMirror
<1>2. /\ c.uv = box[m].uv /\ c.next = box[m].next /\ c.modseq = box[m].modseq
      /\ box[m].next \in Nat /\ box[m].modseq \in Nat
  BY <1>0, <1>1, CursorOf, BoxFields
<1> HIDE DEF c
<1>3. /\ DOMAIN call'.sweep = DOMAIN call.sweep \cup {m} /\ call'.sweep[m] = c
      /\ \A x \in DOMAIN call.sweep : x # m => call'.sweep[x] = call.sweep[x]
  BY <1>0 DEF With
<1>4. call.at <= 1
  <2>1. m \in call.todo /\ call.at \in Nat
    BY <1>1, Fields DEF Select
  <2> QED BY <2>1, <1>0, <1>1 DEF SweptFirst
<1>5. SweptFirst' /\ NewsFound' /\ FoundAll' /\ GotFresh' /\ Skipped' /\ Searched'
  <2>1. call.at \in Nat
    BY <1>1, Fields
  <2>2. /\ DOMAIN call'.news = {} /\ DOMAIN call'.found = {}
        /\ DOMAIN call'.got = {} /\ call'.at <= 1 /\ ~(call'.at > 1)
        /\ ~(call'.at > 2) /\ call'.at # 2
        /\ ~InPhase("search")'
    BY <2>1, <1>0, <1>1, <1>4 DEF SweptFirst, InPhase, Idle
  <2> QED BY <2>2 DEF SweptFirst, NewsFound, FoundAll, GotFresh, Skipped, Searched
<1>6. Order'
  <2>1. ASSUME NEW x \in DOMAIN call'.sweep, x \in DOMAIN box,
               box[x].uv = call'.sweep[x].uv
        PROVE  Later(call'.sweep[x], box[x])
    BY <2>1, <1>1, <1>2, <1>3 DEF Order, Still, Later
  <2>2. ASSUME NEW x \in DOMAIN token, x \in DOMAIN call'.sweep,
               token[x].uv = call'.sweep[x].uv
        PROVE  Later(token[x], call'.sweep[x])
    <3>1. CASE x = m
      <4>1. Later(token[m], box[m])
        BY <3>1, <2>2, <1>0, <1>1, <1>2, <1>3 DEF Order, Still
      <4> QED BY <4>1, <3>1, <1>2, <1>3 DEF Later
    <3>2. CASE x # m
      BY <3>2, <2>2, <1>1, <1>3 DEF Order
    <3> QED BY <3>1, <3>2
  <2> QED BY <2>1, <2>2, <1>1 DEF Order, Still
<1> QED BY <1>1, <1>5, <1>6 DEF MirrorParts

LEMMA SearchMirror ==
    ASSUME MirrorIInv, NEW m, Search(m) PROVE MirrorParts'
<1> DEFINE c == [uv |-> box[m].uv, uids |-> DOMAIN box[m].msgs]
<1>0. /\ UNCHANGED <<env, client>> /\ InPhase("search") /\ ~Idle
      /\ ~InPhase("compare")
      /\ m \in DOMAIN box /\ call'.todo = call.todo \ {m}
      /\ call'.found = With(call.found, m, c)
      /\ call'.plan = call.plan /\ call'.at = call.at /\ call'.swept = call.swept
      /\ call'.sweep = call.sweep
      /\ call'.news = call.news /\ call'.got = call.got
  BY SearchStep DEF MirrorIInv, TypeIInv
<1>1. /\ TypeOK /\ SweptFirst /\ Order /\ MirrorCovers' /\ NewsFound /\ FoundAll
      /\ NoCopies' /\ Searched /\ Skipped /\ Filled /\ UNCHANGED <<box, synced, token, mirror, since>>
  BY <1>0, KeptMirror
<1>2. c.uv = box[m].uv /\ c.uids = DOMAIN box[m].msgs
  OBVIOUS
<1> HIDE DEF c
<1>3. /\ DOMAIN call'.found = DOMAIN call.found \cup {m} /\ call'.found[m] = c
      /\ \A x \in DOMAIN call.found : x # m => call'.found[x] = call.found[x]
  BY <1>0 DEF With
<1>4. DOMAIN call.got = {}
  <2>1. /\ call.at < Len(call.plan) - 1 /\ call.at > 0
    BY <1>0, <1>1, Phases
  <2> QED BY <2>1, <1>1, Zenon DEF Filled
<1>5. Order' /\ NewsFound' /\ GotFresh'
  BY <1>0, <1>1, <1>4 DEF Order, NewsFound, GotFresh, Still
<1>6. SweptFirst'
  <2>1. call.at > 1 /\ call.at \in Nat
    BY <1>0, <1>1, Fields DEF SweptFirst
  <2>2. ~(call'.at <= 1) /\ call'.at > 1
    BY <2>1, <1>0
  <2>3. call'.swept /\ ~InPhase("state")'
    BY <2>1, <1>0, <1>1 DEF SweptFirst, InPhase, Idle
  <2> QED BY <2>2, <2>3 DEF SweptFirst
<1>7. Skipped'
  <2>1. ~(synced /\ call.at = 2)
    BY <1>0, <1>1, Phases
  <2> QED BY <2>1, <1>0, <1>1, <1>3 DEF Skipped
<1>8. FoundAll'
  <2>1. ASSUME NEW x \in DOMAIN call'.found, x \in DOMAIN call.sweep,
               x \in DOMAIN box, box[x].uv = call.sweep[x].uv,
               synced => x \in DOMAIN mirror
        PROVE  /\ call'.found[x].uv = call.sweep[x].uv
               /\ \A u \in DOMAIN box[x].msgs : Wanted(x, u) =>
                     u \in call'.found[x].uids \/ Kept(x, u)
    <3>1. CASE x = m
      BY <3>1, <2>1, <1>2, <1>3
    <3>2. CASE x # m
      BY <3>2, <2>1, <1>1, <1>3 DEF FoundAll, Still
    <3> QED BY <3>1, <3>2
  <2> QED BY <2>1, <1>0, <1>1 DEF FoundAll, Still, Kept, Wanted
<1>9. Searched'
  <2>1. call'.listed = call.listed
    BY SearchStep, <1>1
  <2> QED BY <2>1, <1>0, <1>1, <1>3 DEF Searched, Still
<1> QED BY <1>1, <1>5, <1>6, <1>7, <1>8, <1>9 DEF MirrorParts

\* The compare phase leaves what comes first alone.
LEMMA CompareFirst ==
    ASSUME MirrorIInv, InPhase("compare"), UNCHANGED client,
           call'.plan = call.plan, call'.at = call.at, call'.swept = call.swept
    PROVE  /\ SweptFirst' /\ Searched' /\ synced /\ call.at = 2
           /\ DOMAIN call.got = {} /\ DOMAIN token \subseteq Mailbox
<1>1. /\ TypeOK /\ Filled /\ SweptFirst
  BY DEF MirrorIInv, TypeIInv, MirrorParts
<1>2. ~Idle
  BY DEF InPhase
<1>3. call.plan = ChangesPlan /\ call.at = 2 /\ (synced <=> call.plan = ChangesPlan)
  BY <1>1, <1>2, Phases
<1>4. DOMAIN call.got = {}
  <2>1. call.at > 0 /\ call.at < Len(call.plan) - 1
    BY <1>3, Plans
  <2> QED BY <2>1, <1>1, Zenon DEF Filled
<1>5. SweptFirst'
  <2>1. ~InPhase("state")' /\ ~InPhase("search")' /\ ~(call'.at <= 1)
    BY <1>3 DEF InPhase, ChangesPlan, Idle
  <2> QED BY <2>1, <1>1, <1>3 DEF SweptFirst
<1>6. Searched'
  BY <1>3 DEF Searched, client
<1> QED BY <1>1, <1>3, <1>4, <1>5, <1>6 DEF TypeOK, ClientOK, IsMap

LEMMA SkipMirror == ASSUME MirrorIInv, NEW m, Skip(m) PROVE MirrorParts'
<1>0. /\ UNCHANGED <<env, client>> /\ InPhase("compare")
      /\ m \in DOMAIN token => /\ token[m].uv = call.sweep[m].uv
                               /\ token[m].modseq = call.sweep[m].modseq
      /\ call'.todo = call.todo \ {m}
      /\ call'.plan = call.plan /\ call'.at = call.at /\ call'.swept = call.swept
      /\ call'.sweep = call.sweep /\ call'.news = call.news
      /\ call'.found = call.found /\ call'.got = call.got
  BY SkipStep DEF MirrorIInv, TypeIInv
<1>1. /\ Order' /\ MirrorCovers' /\ NewsFound' /\ FoundAll' /\ GotFresh'
      /\ NoCopies'
  BY <1>0, SameRead
<1>2. Skipped /\ UNCHANGED <<synced, token>>
  BY <1>0, KeptMirror
<1>3. Skipped'
  BY <1>0, <1>2 DEF Skipped
<1> QED BY <1>0, <1>1, <1>3, CompareFirst DEF MirrorParts

LEMMA FindMirror == ASSUME MirrorIInv, NEW m, Find(m) PROVE MirrorParts'
<1> DEFINE n == IF call.sweep[m].next > token[m].next
                  THEN FromUid(DOMAIN box[m].msgs, token[m].next) ELSE {}
<1>0. /\ UNCHANGED <<env, client>> /\ InPhase("compare")
      /\ m \in DOMAIN box /\ DOMAIN call.news = {} /\ Differs(m)
      /\ call'.news = With(call.news, m, n) /\ call'.todo = call.todo
      /\ call'.plan = call.plan /\ call'.at = call.at /\ call'.swept = call.swept
      /\ call'.sweep = call.sweep
      /\ call'.found = call.found /\ call'.got = call.got
  BY FindStep DEF MirrorIInv, TypeIInv
<1>1. /\ TypeOK /\ Order /\ FoundAll /\ GotFresh /\ MirrorCovers' /\ Skipped
      /\ NoCopies'
      /\ UNCHANGED <<box, synced, token, mirror, since>>
  BY <1>0, KeptMirror
<1>2. /\ m \in DOMAIN token /\ m \in DOMAIN call.sweep
      /\ token[m].next \in Nat /\ call.sweep[m].next \in Nat
      /\ \A u \in DOMAIN box[m].msgs : u \in Nat
  BY <1>0, <1>1, CursorFields, BoxFields DEF Differs, Comparing
<1>3. \A u \in DOMAIN box[m].msgs :
         token[m].next <= u /\ u < call.sweep[m].next => u \in n
  BY <1>2 DEF FromUid
<1> HIDE DEF n
<1>4. DOMAIN call'.news = {m} /\ call'.news[m] = n
  BY <1>0 DEF With
<1>5. NewsFound'
  BY <1>0, <1>1, <1>3, <1>4 DEF NewsFound, Still
<1>6. Order' /\ FoundAll' /\ GotFresh' /\ Skipped'
  BY <1>0, <1>1 DEF Order, FoundAll, Kept, Wanted, GotFresh, Skipped, Still
<1> QED BY <1>0, <1>1, <1>5, <1>6, CompareFirst DEF MirrorParts

LEMMA FetchMirror == ASSUME MirrorIInv, NEW m, FetchChanged(m) PROVE MirrorParts'
<1> DEFINE c == Reported(m)
<1>0. /\ UNCHANGED <<env, client>> /\ InPhase("compare") /\ Differs(m)
      /\ m \in DOMAIN box /\ m \in DOMAIN call.news /\ m \in DOMAIN call.sweep
      /\ call'.todo = call.todo \ {m} /\ call'.news = Empty
      /\ call'.found = With(call.found, m, c)
      /\ call'.plan = call.plan /\ call'.at = call.at /\ call'.swept = call.swept
      /\ call'.sweep = call.sweep /\ call'.got = call.got
  BY FetchStep DEF MirrorIInv, TypeIInv
<1>1. /\ TypeOK /\ Order /\ MirrorCovers /\ NewsFound /\ FoundAll /\ GotFresh
      /\ MirrorCovers' /\ NoCopies' /\ Skipped
      /\ UNCHANGED <<box, synced, token, mirror, since>>
  BY <1>0, KeptMirror
<1>2. /\ c.uv = call.sweep[m].uv
      /\ c.uids = call.news[m] \cup
                  {u \in DOMAIN box[m].msgs : box[m].msgs[u] > token[m].modseq}
  BY DEF Reported
<1> HIDE DEF c
<1>3. /\ DOMAIN call'.found = DOMAIN call.found \cup {m} /\ call'.found[m] = c
      /\ \A x \in DOMAIN call.found : x # m => call'.found[x] = call.found[x]
  BY <1>0 DEF With
<1>4. /\ m \in DOMAIN token /\ token[m].uv = call.sweep[m].uv
      /\ token[m].next \in Nat /\ token[m].modseq \in Nat
      /\ \A u \in DOMAIN box[m].msgs : u \in Nat /\ box[m].msgs[u] \in Nat
  BY <1>0, <1>1, CursorFields, BoxFields DEF Differs
<1>5. ASSUME Still(m, call.sweep[m]), m \in DOMAIN mirror,
             NEW u \in DOMAIN box[m].msgs, u < call.sweep[m].next, u \notin c.uids,
             since[m] < box[m].msgs[u]
      PROVE  u \in DOMAIN mirror[m] /\ mirror[m][u] = box[m].msgs[u]
  <2>1. Covers(mirror[m], token[m], m)
    BY <1>1, <1>4, <1>5 DEF MirrorCovers, Still
  <2>2. u < token[m].next
    BY <1>0, <1>1, <1>2, <1>4, <1>5 DEF NewsFound
  <2>3. box[m].msgs[u] <= token[m].modseq
    BY <1>2, <1>4, <1>5
  <2> QED BY <2>1, <2>2, <2>3, <1>5 DEF Covers
<1>6. FoundAll'
  <2>1. ASSUME NEW x \in DOMAIN call'.found, x \in DOMAIN call.sweep,
               x \in DOMAIN box, box[x].uv = call.sweep[x].uv,
               synced => x \in DOMAIN mirror
        PROVE  /\ call'.found[x].uv = call.sweep[x].uv
               /\ \A u \in DOMAIN box[x].msgs : Wanted(x, u) =>
                     u \in call'.found[x].uids \/ Kept(x, u)
    <3>1. CASE x = m
      <4>1. synced
        BY <1>0, CompareFirst
      <4>2. Still(m, call.sweep[m]) /\ m \in DOMAIN mirror
        BY <4>1, <3>1, <2>1 DEF Still
      <4> QED BY <4>1, <4>2, <3>1, <1>2, <1>3, <1>5 DEF Kept, Wanted
    <3>2. CASE x # m
      BY <3>2, <2>1, <1>1, <1>3 DEF FoundAll, Still
    <3> QED BY <3>1, <3>2
  <2> QED BY <2>1, <1>0, <1>1 DEF FoundAll, Still, Kept, Wanted
<1>7. Order' /\ NewsFound' /\ GotFresh'
  <2>1. DOMAIN call'.news = {} /\ DOMAIN call'.got = {}
    BY <1>0, EmptyMap, CompareFirst
  <2> QED BY <2>1, <1>0, <1>1 DEF Order, NewsFound, GotFresh, Still
<1>8. Skipped'
  BY <1>0, <1>1, <1>3 DEF Skipped
<1> QED BY <1>0, <1>1, <1>6, <1>7, <1>8, CompareFirst DEF MirrorParts

LEMMA GetMirror == ASSUME MirrorIInv, NEW m, Get(m) PROVE MirrorParts'
<1> DEFINE g == Fetched(m)
<1>0. /\ UNCHANGED <<env, client>> /\ InPhase("get") /\ ~InPhase("compare")
      /\ ~Idle /\ m \in DOMAIN call.found
      /\ call'.todo = call.todo \ {m} /\ call'.got = With(call.got, m, g)
      /\ call'.plan = call.plan /\ call'.at = call.at /\ call'.swept = call.swept
      /\ call'.sweep = call.sweep /\ call'.found = call.found
      /\ call'.news = call.news
  BY GetStep DEF MirrorIInv, TypeIInv
<1>1. /\ TypeOK /\ SweptFirst /\ Order /\ NewsFound /\ FoundAll /\ GotFresh
      /\ MirrorCovers' /\ NoCopies' /\ Skipped /\ Searched
      /\ UNCHANGED <<box, synced, token, mirror, since>>
  BY <1>0, KeptMirror
<1>2. /\ DOMAIN g \subseteq call.found[m].uids
      /\ m \in DOMAIN box /\ box[m].uv = call.found[m].uv =>
            \A u \in DOMAIN box[m].msgs : u \in call.found[m].uids =>
                u \in DOMAIN g /\ g[u] = box[m].msgs[u]
  BY DEF Fetched
<1> HIDE DEF g
<1>3. /\ DOMAIN call'.got = DOMAIN call.got \cup {m} /\ call'.got[m] = g
      /\ \A x \in DOMAIN call.got : x # m => call'.got[x] = call.got[x]
  BY <1>0 DEF With
<1>4. Order' /\ NewsFound' /\ FoundAll'
  BY <1>0, <1>1 DEF Order, NewsFound, FoundAll, Kept, Wanted, Still
<1>5. Skipped'
  <2>1. ~(synced /\ call.at = 2)
    BY <1>0, <1>1, Phases
  <2> QED BY <2>1, <1>0, <1>1 DEF Skipped
<1>6. SweptFirst'
  <2>1. call.at > 1 /\ call.at \in Nat
    <3>1. call.at = Len(call.plan) - 1
      BY <1>0, <1>1, Phases
    <3>2. call.plan \in {MailboxesFirst, QueryFirst, ChangesPlan}
      BY <1>1, Fields, SyncAssumption
    <3>3. Len(call.plan) = 4 \/ Len(call.plan) = 5
      BY <3>2, Plans
    <3>4. ASSUME NEW l, l = 4 \/ l = 5 PROVE l - 1 > 1 /\ l - 1 \in Nat
      BY <3>4
    <3> QED BY <3>1, <3>3, <3>4, Zenon
  <2>2. ~(call'.at <= 1) /\ call'.at > 1 /\ call'.swept
    BY <2>1, <1>0, <1>1 DEF SweptFirst
  <2>3. ~InPhase("state")' /\ ~InPhase("search")'
    BY <1>0 DEF InPhase, Idle
  <2> QED BY <2>2, <2>3 DEF SweptFirst
<1>7. GotFresh'
  <2>1. ASSUME NEW x \in DOMAIN call'.got
        PROVE  /\ DOMAIN call'.got[x] \subseteq call.found[x].uids
               /\ x \in DOMAIN call.sweep /\ Still(x, call.sweep[x])
                  /\ call.found[x].uv = call.sweep[x].uv =>
                    \A u \in DOMAIN box[x].msgs :
                      u \in call.found[x].uids /\ u < call.sweep[x].next =>
                        /\ u \in DOMAIN call'.got[x]
                        /\ box[x].msgs[u] <= call.sweep[x].modseq =>
                              call'.got[x][u] = box[x].msgs[u]
    <3>1. CASE x = m
      BY <3>1, <1>2, <1>3 DEF Still
    <3>2. CASE x # m
      BY <3>2, <2>1, <1>1, <1>3 DEF GotFresh
    <3> QED BY <3>1, <3>2
  <2> QED BY <2>1, <1>0, <1>1 DEF GotFresh, Still
<1>8. Searched'
  <2>1. call.at # 2
    <3>1. call.plan \in {MailboxesFirst, QueryFirst, ChangesPlan}
      BY <1>1, Fields, SyncAssumption
    <3>2. Len(call.plan) = 4 \/ Len(call.plan) = 5
      BY <3>1, Plans
    <3>3. call.at = Len(call.plan) - 1
      BY <1>0, <1>1, Phases
    <3>4. ASSUME NEW l, l = 4 \/ l = 5 PROVE l - 1 # 2
      BY <3>4
    <3> QED BY <3>2, <3>3, <3>4, Zenon
  <2> QED BY <2>1, <1>0, <1>1 DEF Searched, Still
<1> QED BY <1>1, <1>4, <1>5, <1>6, <1>7, <1>8 DEF MirrorParts

LEMMA MirrorInit == Init => MirrorParts
<1> SUFFICES ASSUME Init PROVE MirrorParts
  OBVIOUS
<1>1. /\ call.at = 0 /\ DOMAIN call.sweep = {} /\ DOMAIN call.news = {}
      /\ DOMAIN call.found = {} /\ DOMAIN call.got = {}
      /\ DOMAIN token = {} /\ DOMAIN mirror = {}
  BY EmptyMap DEF Init, NoCall, Batch
<1>2. SweptFirst
  BY <1>1 DEF SweptFirst, InPhase, Idle
<1> QED BY <1>1, <1>2 DEF MirrorParts, Order, MirrorCovers, NewsFound, FoundAll,
     Skipped, GotFresh, Searched, NoCopies

LEMMA MirrorNext ==
    ASSUME Boots \subseteq {MailboxesFirst}, "plain" \notin Servers
    PROVE  MirrorIInv /\ [Next]_vars => MirrorIInv'
<1> SUFFICES ASSUME MirrorIInv, [Next]_vars PROVE MirrorIInv'
  OBVIOUS
<1>0. TypeIInv'
  BY NextType DEF MirrorIInv
<1>1. CASE Changing
  <2>1. TypeOK'
    BY <1>0 DEF TypeIInv
  <2> QED BY <1>0, <1>1, <2>1, ChangingMirror DEF MirrorIInv
<1>2. CASE Start
  <2>1. PICK plan \in {MailboxesFirst, ChangesPlan} : call' = Batch(plan, 1)
    BY <1>2 DEF Start, Answer
  <2>2. UNCHANGED <<box, synced, token, mirror, since>>
    BY <1>2 DEF Start, Answer, env, client
  <2> QED BY <1>0, <2>1, <2>2, FreshMirror DEF MirrorIInv
<1>3. CASE Missing \/ Lost
  <2>1. call' = Batch(ChangesPlan, 0)
    BY <1>3 DEF Missing, Lost, Answer, NoCall
  <2>2. UNCHANGED <<box, synced, token, mirror, since>>
    BY <1>3 DEF Missing, Lost, Answer, env, client
  <2> QED BY <1>0, <2>1, <2>2, FreshMirror DEF MirrorIInv
<1>4. CASE Refuse
  BY <1>0, <1>4, RefuseMirror DEF MirrorIInv
<1>5. CASE Adopt
  BY <1>0, <1>5, AdoptMirror DEF MirrorIInv
<1>6. CASE List \/ NextPhase
  BY <1>0, <1>6, ListMirror, NextPhaseMirror DEF MirrorIInv
<1>7. ASSUME NEW m \in Mailbox,
             \/ Select(m) \/ Search(m) \/ Skip(m) \/ Find(m)
             \/ FetchChanged(m) \/ Get(m)
      PROVE  MirrorIInv'
  BY <1>0, <1>7, SelectMirror, SearchMirror, SkipMirror, FindMirror,
     FetchMirror, GetMirror DEF MirrorIInv
<1>8. CASE UNCHANGED vars
  <2>1. /\ UNCHANGED <<env, client>> /\ call' = call
        /\ UNCHANGED <<synced, token>>
    BY <1>8 DEF vars, env, client
  <2>2. /\ Order' /\ MirrorCovers' /\ NewsFound' /\ FoundAll' /\ GotFresh'
        /\ NoCopies'
    BY <2>1, SameRead
  <2>3. SweptFirst' /\ Skipped' /\ Searched'
    BY <2>1, KeptMirror DEF SweptFirst, Skipped, Searched, Still, InPhase, Idle
  <2> QED BY <1>0, <2>2, <2>3 DEF MirrorIInv, MirrorParts
<1> QED BY <1>1, <1>2, <1>3, <1>4, <1>5, <1>6, <1>7, <1>8 DEF Next, Working

\* A client that boots with Mailbox/query, and so with a sweep before its first
\* search, on a server that counts changes, has every mailbox whose present
\* cursor its state string holds, and of it every message, as it is now, but
\* those that were there when the mailbox came into the state string after the
\* boot (email.py:747), with any number of mailboxes and whatever other clients
\* do meanwhile.
THEOREM MirrorIsComplete ==
    ASSUME Boots \subseteq {MailboxesFirst}, "plain" \notin Servers
    PROVE  Spec => []MirrorComplete
<1>1. Init => MirrorIInv
  BY InitType, MirrorInit DEF MirrorIInv
<1>2. MirrorIInv => MirrorComplete
  <2> SUFFICES ASSUME MirrorIInv, NEW m \in DOMAIN token \cap DOMAIN box,
                      SameCursor(token[m], Cursor(box[m]))
               PROVE  /\ m \in DOMAIN mirror
                      /\ \A u \in DOMAIN box[m].msgs :
                            box[m].msgs[u] > since[m] => Has(m, u)
    BY DEF MirrorComplete
  <2>1. TypeOK /\ MirrorCovers /\ NoCopies
    BY DEF MirrorIInv, TypeIInv, MirrorParts
  <2>2. /\ token[m].uv = box[m].uv /\ token[m].next = box[m].next
        /\ token[m].modseq = box[m].modseq
    BY <2>1, CursorOf DEF SameCursor
  <2>3. m \in DOMAIN mirror
    BY <2>1, <2>2 DEF NoCopies, Still
  <2>4. Covers(mirror[m], token[m], m)
    BY <2>1, <2>2, <2>3 DEF MirrorCovers, Still
  <2>5. since[m] \in Nat
    BY <2>1, <2>3 DEF TypeOK, ClientOK
  <2> QED BY <2>1, <2>2, <2>3, <2>4, <2>5, BoxFields DEF Covers, Has
<1>3. MirrorIInv /\ [Next]_vars => MirrorIInv'
  BY MirrorNext
<1> QED BY <1>1, <1>2, <1>3, PTL DEF Spec

-----------------------------------------------------------------------------
(* Mailbox names, which share no state with the client's mirror.           *)

USE NamesConstants, RedirectAssumption DEF Names!NameAssumption

LEMMA SameTables ==
  \A table1, x, y : /\ Names!Record(table1, x, y) = Record(table1, x, y)
                    /\ Names!Resolve(table1, x) = Resolve(table1, x)
BY DEF Names!Record, Names!Without, Names!DropAt, Names!Olds, Names!Entries,
       Names!Resolve, Names!Chain, Record, Without, DropAt, Olds, Entries, Resolve, Chain

LEMMA SameSets ==
  \A S : Names!Cardinality(S) = Cardinality(S) /\ (Names!IsFiniteSet(S) <=> IsFiniteSet(S))
BY DEF Names!Cardinality, Cardinality, Names!IsFiniteSet, IsFiniteSet

Same(p, q, names) == {p, q} \subseteq DOMAIN names /\ names[p] = names[q]

\* Each mailbox has one name, and no name but its own or an earlier one.
Owned ==
    /\ born \in Nat
    /\ DOMAIN owner \subseteq Names!Path
    /\ DOMAIN folder \subseteq DOMAIN owner
    /\ \A p \in DOMAIN owner : owner[p] \in 1..born
    /\ \A p \in DOMAIN folder : folder[p] = owner[p]
    /\ \A p, q \in DOMAIN folder : folder[p] = folder[q] => p = q

\* A redirect leads from one name of a mailbox to another, and the ids that
\* clients hold are names of theirs.
Spoken ==
    /\ table \in Seq([old : Names!Path, new : Names!Path])
    /\ IsTable(table) /\ Len(table) <= MaxEntries
    /\ \A e \in Entries(table) : Same(e.old, e.new, owner)
    /\ \A pair \in held : pair[1] \in DOMAIN owner /\ owner[pair[1]] = pair[2]

\* What a handler is at is of one mailbox, which is to be destroyed if it is
\* about to do that.
Sane(t, names, dead) ==
    /\ t = [pc |-> t.pc, id |-> t.id, at |-> t.at, to |-> t.to]
    /\ t.pc = "create" => t.to \in Names!Path
    /\ t.pc = "rename" =>
          /\ Same(t.id, t.at, names)
          /\ \E last \in Segment : t.to = <<t.at[1], last>>
    /\ t.pc = "record" => Same(t.id, t.to, names)
    /\ t.pc = "destroy" => t.at \in DOMAIN names /\ names[t.at] \in dead

Sanes ==
    /\ \A h \in Handler : Sane(task[h], owner, doomed)
    /\ task = [h \in Handler |-> task[h]]

NamesIInv == Owned /\ Spoken /\ Sanes /\ Names!NoneLost

-----------------------------------------------------------------------------
Grows == \A p \in DOMAIN owner : p \in DOMAIN owner' /\ owner'[p] = owner[p]

LEMMA SanesStep ==
  ASSUME Sanes, Grows, doomed \subseteq doomed', NEW h \in Handler, NEW t, Names!Become(h, t),
         Sane(t, owner', doomed')
  PROVE  Sanes'
<1>1. task = [i \in Handler |-> task[i]] /\ task' = [task EXCEPT ![h] = t]
  BY DEF Sanes, Names!Become
<1>2. task' = [i \in Handler |-> task'[i]]
  BY <1>1
<1>3. \A i \in Handler : task'[i] = IF i = h THEN t ELSE task[i]
  BY <1>1
<1>4. \A i \in Handler : Sane(task[i], owner', doomed')
  BY DEF Sanes, Grows, Sane, Same
<1>5. \A i \in Handler : Sane(task'[i], owner', doomed')
  BY <1>3, <1>4
<1> QED BY <1>2, <1>5 DEF Sanes

LEMMA IdleIsSane == ASSUME NEW names, NEW dead PROVE Sane(Names!Idle, names, dead)
BY DEF Sane, Names!Idle

LEMMA SpokenStays ==
  ASSUME Spoken, Grows, table' = table, held' \subseteq held
  PROVE  Spoken'
<1>1. \A e \in Entries(table) : Same(e.old, e.new, owner')
  BY DEF Spoken, Same, Grows
<1> QED BY <1>1 DEF Spoken, Grows

LEMMA ResolvesToSame ==
  ASSUME Spoken, NEW id \in DOMAIN owner
  PROVE  Same(id, Resolve(table, id), owner)
<1> DEFINE same == {p \in DOMAIN owner : owner[p] = owner[id]}
<1>1. id \in same
  OBVIOUS
<1>2. \A e \in Entries(table) : e.old \in same => e.new \in same
  BY DEF Spoken, Same
<1>3. Resolve(table, id) \in same
  <2> HIDE DEF same
  <2> QED BY <1>1, <1>2, ResolveStays
<1> QED BY <1>3 DEF Same

\* A rename takes different names to different ones.
LEMMA PathParts ==
  ASSUME NEW p \in Names!Path
  PROVE  p = <<p[1], p[2]>> /\ p[1] \in {Root} \cup Segment /\ p[2] \in Segment
BY DEF Names!Path

LEMMA MovedApart ==
  ASSUME NEW old \in Names!Path, NEW last \in Segment, NEW new, new = <<old[1], last>>,
         NEW q \in Names!Path, NEW r \in Names!Path,
         Names!Moved(q, old, new) = Names!Moved(r, old, new),
         Names!Moved(q, old, new) # q, Names!Moved(r, old, new) # r
  PROVE  q = r
<1>1. /\ q = <<q[1], q[2]>> /\ r = <<r[1], r[2]>>
      /\ new[1] = old[1] /\ new[2] = last /\ last # Root
  BY PathParts
<1>2. CASE q = old /\ r # old
  BY <1>1, <1>2 DEF Names!Moved
<1>3. CASE q # old /\ r = old
  BY <1>1, <1>3 DEF Names!Moved
<1>4. CASE q # old /\ r # old
  <2>1. <<new[2], q[2]>> = <<new[2], r[2]>> /\ q[1] = old[2] /\ r[1] = old[2]
    BY <1>4 DEF Names!Moved
  <2> QED BY <1>1, <2>1
<1> QED BY <1>2, <1>3, <1>4

LEMMA MovedPath ==
  ASSUME NEW old \in Names!Path, NEW last \in Segment, NEW new, new = <<old[1], last>>,
         NEW q \in Names!Path
  PROVE  Names!Moved(q, old, new) \in Names!Path /\ new \in Names!Path
BY DEF Names!Path, Names!Moved

\* What a rename does: each mailbox goes to the name it moves to, which no
\* mailbox had before if it is another one.
LEMMA RenameMoves ==
  ASSUME Owned, ~Reuse, NEW h \in Handler, ~Names!RefusesRename(h), Names!CarryOutRename(h),
         NEW old, old = task[h].at, NEW new, new = task[h].to,
         old \in Names!Path, NEW last \in Segment, new = <<old[1], last>>
  PROVE  /\ old \in DOMAIN folder /\ new \notin DOMAIN owner
         /\ new = Names!Moved(old, old, new)
         /\ DOMAIN folder' = {Names!Moved(q, old, new) : q \in DOMAIN folder}
         /\ \A q \in DOMAIN folder : folder'[Names!Moved(q, old, new)] = folder[q]
         /\ \A q \in DOMAIN folder :
               Names!Moved(q, old, new) = q \/ Names!Moved(q, old, new) \notin DOMAIN owner
         /\ DOMAIN owner' = DOMAIN owner \cup DOMAIN folder'
         /\ Grows
         /\ \A p \in DOMAIN folder' : owner'[p] = folder'[p]
<1> DEFINE M(q) == Names!Moved(q, old, new)
           ren == Names!Renames(old, new)
           to == Names!Renamed(old, new)
           rest == DOMAIN folder \ ren
<1>1. /\ old \in DOMAIN folder
      /\ new \notin DOMAIN owner /\ new \notin DOMAIN folder
      /\ \A p \in DOMAIN to : p \notin DOMAIN owner /\ p \notin DOMAIN folder
  BY DEF Names!RefusesRename, Names!Taken, Owned
<1>2. /\ folder' = [p \in DOMAIN to \cup rest |-> IF p \in DOMAIN to THEN to[p] ELSE folder[p]]
      /\ owner' = [p \in DOMAIN to \cup DOMAIN owner |->
                      IF p \in DOMAIN to THEN to[p] ELSE owner[p]]
  BY DEF Names!CarryOutRename
<1>3. DOMAIN to = {M(q) : q \in ren}
  BY DEF Names!Renamed
<1>4. \A q \in ren : M(q) \in DOMAIN to /\ to[M(q)] = folder[q]
  <2> SUFFICES ASSUME NEW q \in ren PROVE to[M(q)] = folder[q]
    BY <1>3
  <2> DEFINE r == CHOOSE r \in ren : M(r) = M(q)
  <2>1. r \in ren /\ M(r) = M(q)
    OBVIOUS
  <2>2. r \in Names!Path /\ q \in Names!Path /\ M(r) # r /\ M(q) # q
    BY <2>1 DEF Names!Renames, Owned
  <2>3. r = q
    <3> HIDE DEF r
    <3> QED BY <2>1, <2>2, MovedApart
  <2>4. to[M(q)] = folder[r]
    BY <1>3 DEF Names!Renamed
  <2> QED BY <2>3, <2>4
<1>5. new = M(old)
  BY DEF Names!Moved
<1> HIDE DEF to
<1>6. \A q \in DOMAIN folder : q \notin ren <=> M(q) = q
  BY DEF Names!Renames
<1>7. \A q \in rest : q \notin DOMAIN to
  BY <1>1
<1>8. ren \subseteq DOMAIN folder
  BY DEF Names!Renames
<1> HIDE DEF ren, M
<1>9. DOMAIN folder' = {M(q) : q \in DOMAIN folder}
  BY <1>2, <1>3, <1>6, <1>8
<1>10. \A q \in DOMAIN folder : folder'[M(q)] = folder[q]
  <2> SUFFICES ASSUME NEW q \in DOMAIN folder PROVE folder'[M(q)] = folder[q]
    OBVIOUS
  <2>1. CASE q \in ren
    BY <2>1, <1>2, <1>4
  <2>2. CASE q \notin ren
    BY <2>2, <1>2, <1>6, <1>7
  <2> QED BY <2>1, <2>2
<1>11. \A q \in DOMAIN folder : M(q) = q \/ M(q) \notin DOMAIN owner
  BY <1>1, <1>3, <1>6
<1>12. Grows
  BY <1>1, <1>2 DEF Grows
<1>13. DOMAIN owner' = DOMAIN owner \cup DOMAIN folder'
  BY <1>2, <1>8 DEF Owned
<1>14. \A p \in DOMAIN folder' : owner'[p] = folder'[p]
  BY <1>2 DEF Owned
<1> QED BY <1>1, <1>5, <1>9, <1>10, <1>11, <1>12, <1>13, <1>14 DEF M

LEMMA NoChange ==
  ASSUME Owned, Names!NoneLost, UNCHANGED <<folder, owner, born>>, doomed \subseteq doomed'
  PROVE  Owned' /\ Names!NoneLost' /\ Grows
BY DEF Owned, Names!NoneLost, Names!Mailboxes, Grows

LEMMA RefusedStep ==
  ASSUME NamesIInv, NEW h \in Handler, Names!Refused(h)
  PROVE  NamesIInv'
<1>1. Names!Become(h, Names!Idle) /\ UNCHANGED <<folder, owner, born, table, held, doomed>>
  BY DEF Names!Refused
<1>2. Owned' /\ Names!NoneLost' /\ Grows
  BY <1>1, NoChange DEF NamesIInv
<1>3. Spoken'
  BY <1>1, <1>2, SpokenStays DEF NamesIInv
<1>4. Sanes'
  BY <1>1, <1>2, SanesStep, IdleIsSane DEF NamesIInv
<1> QED BY <1>2, <1>3, <1>4 DEF NamesIInv

LEMMA AskStep ==
  ASSUME NamesIInv, NEW h \in Handler, NEW t, Names!Ask(h, t), doomed \subseteq doomed',
         Sane(t, owner, doomed')
  PROVE  NamesIInv'
<1>1. Names!Become(h, t) /\ UNCHANGED <<folder, owner, born, table, held>>
  BY DEF Names!Ask
<1>2. Owned' /\ Names!NoneLost' /\ Grows
  BY <1>1, NoChange DEF NamesIInv
<1>3. Spoken'
  BY <1>1, <1>2, SpokenStays DEF NamesIInv
<1>4. Sanes'
  BY <1>1, <1>2, SanesStep DEF NamesIInv
<1> QED BY <1>2, <1>3, <1>4 DEF NamesIInv

\* The tasks of new requests: Idle but for two fields.
LEMMA CreateTask ==
  ASSUME NEW v
  PROVE  [Names!Idle EXCEPT !.pc = "create", !.to = v]
           = [pc |-> "create", id |-> << >>, at |-> << >>, to |-> v]
<1>1. PICK r, none : r = Names!Idle /\ none = << >>
  OBVIOUS
<1>2. r = [pc |-> "idle", id |-> none, at |-> none, to |-> none]
  BY <1>1 DEF Names!Idle
<1>3. PICK c : c = [r EXCEPT !.pc = "create"]
  OBVIOUS
<1>4. c = [pc |-> "create", id |-> none, at |-> none, to |-> none]
  BY <1>2, <1>3
<1>5. [r EXCEPT !.pc = "create", !.to = v] = [c EXCEPT !.to = v]
  BY <1>2, <1>3, <1>4
<1>6. [c EXCEPT !.to = v] = [pc |-> "create", id |-> none, at |-> none, to |-> v]
  BY <1>4
<1> QED BY <1>1, <1>5, <1>6

LEMMA DestroyTask ==
  ASSUME NEW v
  PROVE  [Names!Idle EXCEPT !.pc = "destroy", !.at = v]
           = [pc |-> "destroy", id |-> << >>, at |-> v, to |-> << >>]
<1>1. PICK r, none : r = Names!Idle /\ none = << >>
  OBVIOUS
<1>2. r = [pc |-> "idle", id |-> none, at |-> none, to |-> none]
  BY <1>1 DEF Names!Idle
<1>3. PICK c : c = [r EXCEPT !.pc = "destroy"]
  OBVIOUS
<1>4. c = [pc |-> "destroy", id |-> none, at |-> none, to |-> none]
  BY <1>2, <1>3
<1>5. [r EXCEPT !.pc = "destroy", !.at = v] = [c EXCEPT !.at = v]
  BY <1>2, <1>3, <1>4
<1>6. [c EXCEPT !.at = v] = [pc |-> "destroy", id |-> none, at |-> v, to |-> none]
  BY <1>4
<1> QED BY <1>1, <1>5, <1>6

LEMMA AskCreateStep ==
  ASSUME NamesIInv, NEW h \in Handler, NEW p \in Name, Names!AskCreate(h, p)
  PROVE  NamesIInv'
<1> DEFINE t == [Names!Idle EXCEPT !.pc = "create", !.to = p]
<1>1. Names!Ask(h, t) /\ doomed' = doomed
  BY DEF Names!AskCreate
<1>2. p \in Names!Path
  BY DEF Names!Path
<1>3. t = [pc |-> "create", id |-> << >>, at |-> << >>, to |-> p]
  BY CreateTask
<1>4. Sane(t, owner, doomed)
  <2> HIDE DEF t
  <2> QED BY <1>2, <1>3 DEF Sane
<1> QED BY <1>1, <1>4, AskStep

LEMMA AskRenameStep ==
  ASSUME NamesIInv, NEW h \in Handler, NEW id, NEW last \in Segment, Names!AskRename(h, id, last)
  PROVE  NamesIInv'
<1> DEFINE at == Resolve(table, id)
           t == [pc |-> "rename", id |-> id, at |-> at, to |-> <<at[1], last>>]
<1>1. Names!Ask(h, t) /\ doomed' = doomed /\ \E pair \in held : pair[1] = id
  BY SameTables DEF Names!AskRename
<1>2. Same(id, at, owner)
  BY <1>1, ResolvesToSame DEF NamesIInv, Spoken
<1>3. Sane(t, owner, doomed)
  <2> HIDE DEF at
  <2> QED BY <1>2 DEF Sane
<1> QED BY <1>1, <1>3, AskStep

LEMMA AskDestroyStep ==
  ASSUME NamesIInv, NEW h \in Handler, NEW pair \in held, Names!AskDestroy(h, pair)
  PROVE  NamesIInv'
<1> DEFINE at == Resolve(table, pair[1])
           t == [Names!Idle EXCEPT !.pc = "destroy", !.at = at]
<1>1. Names!Ask(h, t) /\ doomed' = doomed \cup {pair[2]}
  BY SameTables DEF Names!AskDestroy
<1>2. pair[1] \in DOMAIN owner /\ owner[pair[1]] = pair[2]
  BY DEF NamesIInv, Spoken
<1>3. Same(pair[1], at, owner)
  BY <1>2, ResolvesToSame DEF NamesIInv
<1>4. t = [pc |-> "destroy", id |-> << >>, at |-> at, to |-> << >>]
  BY DestroyTask
<1>5. Sane(t, owner, doomed')
  <2> HIDE DEF at, t
  <2> QED BY <1>1, <1>2, <1>3, <1>4 DEF Sane, Same
<1> QED BY <1>1, <1>5, AskStep

LEMMA CreateStep ==
  ASSUME NamesIInv, ~Reuse, NEW h \in Handler, Names!Create(h)
  PROVE  NamesIInv'
<1> DEFINE p == task[h].to
<1>1. CASE Names!Taken(p)
  BY <1>1, RefusedStep DEF Names!Create
<1>2. CASE ~Names!Taken(p)
  <2>1. /\ born' = born + 1
        /\ folder' = [q \in DOMAIN folder \cup {p} |-> IF q = p THEN born' ELSE folder[q]]
        /\ owner' = [q \in DOMAIN owner \cup {p} |-> IF q = p THEN born' ELSE owner[q]]
        /\ held' = held \cup {<<p, born'>>}
        /\ Names!Become(h, Names!Idle)
        /\ UNCHANGED <<table, doomed>>
    BY <1>2 DEF Names!Create
  <2>2. p \notin DOMAIN owner /\ p \notin DOMAIN folder
    BY <1>2 DEF Names!Taken
  <2>3. p \in Names!Path
    BY DEF Names!Create, Names!At, NamesIInv, Sanes, Sane
  <2> HIDE DEF p
  <2>4. Grows
    BY <2>1, <2>2 DEF Grows
  <2>5. born' \in Nat /\ born \in Nat /\ 1..born' = (1..born) \cup {born'} /\ born' \notin 1..born
    BY <2>1 DEF NamesIInv, Owned
  <2>6. Owned'
    <3>1. \A q \in DOMAIN folder : folder[q] \in 1..born
      BY DEF NamesIInv, Owned
    <3> QED BY <2>1, <2>2, <2>3, <2>5, <3>1 DEF NamesIInv, Owned
  <2>7. Spoken'
    BY <2>1, <2>2, <2>4 DEF NamesIInv, Spoken, Same, Grows
  <2>8. Sanes'
    BY <2>1, <2>4, SanesStep, IdleIsSane DEF NamesIInv
  <2>9. Names!NoneLost'
    <3>1. Names!Mailboxes \subseteq Names!Mailboxes' /\ born' \in Names!Mailboxes'
      BY <2>1, <2>2 DEF Names!Mailboxes
    <3> QED BY <2>1, <2>5, <3>1 DEF NamesIInv, Names!NoneLost
  <2> QED BY <2>6, <2>7, <2>8, <2>9 DEF NamesIInv
<1> QED BY <1>1, <1>2

LEMMA RenameFacts ==
  ASSUME NamesIInv, NEW h \in Handler, Names!At(h, "rename")
  PROVE  /\ task[h].at \in Names!Path /\ Same(task[h].id, task[h].at, owner)
         /\ \E last \in Segment : task[h].to = <<task[h].at[1], last>>
BY DEF Names!At, NamesIInv, Sanes, Sane, Same, Owned

LEMMA RenameStep ==
  ASSUME NamesIInv, ~Reuse, NEW h \in Handler, Names!Rename(h)
  PROVE  NamesIInv'
<1>1. CASE Names!RefusesRename(h)
  BY <1>1, RefusedStep DEF Names!Rename
<1>2. CASE ~Names!RefusesRename(h)
  <2> DEFINE old == task[h].at
             new == task[h].to
             M(q) == Names!Moved(q, old, new)
             t == [task[h] EXCEPT !.pc = "record"]
  <2>1. /\ Names!CarryOutRename(h) /\ Names!Become(h, t)
        /\ UNCHANGED <<born, table, held, doomed>>
    BY <1>2 DEF Names!Rename, Names!CarryOutRename
  <2>2. PICK last \in Segment : new = <<old[1], last>>
    BY RenameFacts DEF Names!Rename
  <2>3. old \in Names!Path /\ Same(task[h].id, old, owner)
    BY RenameFacts DEF Names!Rename
  <2>4. /\ old \in DOMAIN folder /\ new \notin DOMAIN owner
        /\ new = M(old)
        /\ DOMAIN folder' = {M(q) : q \in DOMAIN folder}
        /\ \A q \in DOMAIN folder : folder'[M(q)] = folder[q]
        /\ \A q \in DOMAIN folder : M(q) = q \/ M(q) \notin DOMAIN owner
        /\ DOMAIN owner' = DOMAIN owner \cup DOMAIN folder'
        /\ Grows
        /\ \A p \in DOMAIN folder' : owner'[p] = folder'[p]
    BY <1>2, <2>1, <2>2, <2>3, RenameMoves DEF NamesIInv
  <2>5. \A q \in Names!Path : M(q) \in Names!Path
    BY <2>2, <2>3, MovedPath
  <2>6. /\ t.pc = "record" /\ t.id = task[h].id /\ t.to = new
        /\ t = [pc |-> t.pc, id |-> t.id, at |-> t.at, to |-> t.to]
    <3>1. task[h] = [pc |-> task[h].pc, id |-> task[h].id, at |-> task[h].at, to |-> task[h].to]
      BY DEF NamesIInv, Sanes, Sane
    <3>2. t = [pc |-> "record", id |-> task[h].id, at |-> task[h].at, to |-> task[h].to]
      BY <3>1
    <3> QED BY <3>2
  <2> HIDE DEF old, new, M, t
  <2>7. Owned'
    <3>1. DOMAIN owner' \subseteq Names!Path /\ DOMAIN folder' \subseteq DOMAIN owner'
      BY <2>4, <2>5 DEF NamesIInv, Owned
    <3>2. \A p \in DOMAIN owner' : owner'[p] \in 1..born
      <4> SUFFICES ASSUME NEW p \in DOMAIN owner' PROVE owner'[p] \in 1..born
        OBVIOUS
      <4>1. CASE p \in DOMAIN owner
        BY <4>1, <2>4 DEF NamesIInv, Owned, Grows
      <4>2. CASE p \in DOMAIN folder'
        <5>1. PICK q \in DOMAIN folder : p = M(q)
          BY <4>2, <2>4
        <5>2. owner'[p] = folder[q]
          BY <4>2, <5>1, <2>4
        <5> QED BY <5>2 DEF NamesIInv, Owned
      <4> QED BY <4>1, <4>2, <2>4
    <3>3. \A p, q \in DOMAIN folder' : folder'[p] = folder'[q] => p = q
      <4> SUFFICES ASSUME NEW p \in DOMAIN folder', NEW q \in DOMAIN folder',
                          folder'[p] = folder'[q]
                   PROVE  p = q
        OBVIOUS
      <4>1. PICK r \in DOMAIN folder : p = M(r)
        BY <2>4
      <4>2. PICK s \in DOMAIN folder : q = M(s)
        BY <2>4
      <4>3. folder[r] = folder[s]
        BY <2>4, <4>1, <4>2
      <4>4. r = s
        BY <4>3 DEF NamesIInv, Owned
      <4> QED BY <4>1, <4>2, <4>4
    <3> QED BY <2>1, <2>4, <3>1, <3>2, <3>3 DEF NamesIInv, Owned
  <2>8. Spoken'
    BY <2>1, <2>4, SpokenStays DEF NamesIInv
  <2>9. Sanes'
    <3>1. Same(t.id, t.to, owner')
      <4>1. new \in DOMAIN folder' /\ folder'[new] = folder[old]
        BY <2>4
      <4>2. owner'[new] = owner[old]
        BY <2>4, <4>1 DEF NamesIInv, Owned
      <4> QED BY <2>3, <2>4, <2>6, <4>1, <4>2 DEF Same, Grows
    <3>2. Sane(t, owner', doomed')
      BY <2>6, <3>1 DEF Sane
    <3> QED BY <2>1, <2>4, <3>2, SanesStep DEF NamesIInv
  <2>10. Names!NoneLost'
    <3>1. Names!Mailboxes \subseteq Names!Mailboxes'
      BY <2>4 DEF Names!Mailboxes
    <3> QED BY <2>1, <3>1 DEF NamesIInv, Names!NoneLost
  <2> QED BY <2>7, <2>8, <2>9, <2>10 DEF NamesIInv
<1> QED BY <1>1, <1>2

LEMMA RecordRenameStep ==
  ASSUME NamesIInv, NEW h \in Handler, Names!RecordRename(h)
  PROVE  NamesIInv'
<1> DEFINE id == task[h].id
           to == task[h].to
<1>1. /\ table' = Record(table, id, to) /\ Names!Become(h, Names!Idle)
      /\ UNCHANGED <<folder, owner, born, held, doomed>>
      /\ Same(id, to, owner)
  BY SameTables DEF Names!RecordRename, Names!At, NamesIInv, Sanes, Sane
<1> HIDE DEF id, to
<1>2. Owned' /\ Names!NoneLost' /\ Grows
  BY <1>1, NoChange DEF NamesIInv
<1>3. Sanes'
  BY <1>1, <1>2, SanesStep, IdleIsSane DEF NamesIInv
<1>4. Spoken'
  <2>1. id \in Names!Path /\ to \in Names!Path
    BY <1>1 DEF Same, NamesIInv, Owned
  <2>2. /\ table' \in Seq([old : Names!Path, new : Names!Path]) /\ IsTable(table')
        /\ Len(table') <= MaxEntries
        /\ Entries(table') \subseteq Entries(table) \cup {[old |-> id, new |-> to]}
    BY <1>1, <2>1, RecordKeepsTable DEF NamesIInv, Spoken
  <2>3. \A e \in Entries(table') : Same(e.old, e.new, owner')
    BY <1>1, <2>2 DEF NamesIInv, Spoken
  <2> QED BY <1>1, <2>2, <2>3 DEF NamesIInv, Spoken
<1> QED BY <1>2, <1>3, <1>4 DEF NamesIInv

LEMMA DestroyStep ==
  ASSUME NamesIInv, NEW h \in Handler, Names!Destroy(h)
  PROVE  NamesIInv'
<1> DEFINE p == task[h].at
<1>1. CASE p \notin DOMAIN folder
  BY <1>1, RefusedStep DEF Names!Destroy
<1>2. CASE p \in DOMAIN folder
  <2>1. /\ folder' = [q \in DOMAIN folder \ {p} |-> folder[q]]
        /\ held' = {pair \in held : pair[2] # folder[p]}
        /\ Names!Become(h, Names!Idle)
        /\ UNCHANGED <<owner, born, table, doomed>>
    BY <1>2 DEF Names!Destroy
  <2>2. folder[p] \in doomed
    BY <1>2 DEF Names!Destroy, Names!At, NamesIInv, Sanes, Sane, Owned
  <2> HIDE DEF p
  <2>3. Owned' /\ Grows
    BY <2>1 DEF NamesIInv, Owned, Grows
  <2>4. Spoken'
    BY <2>1, <2>3, SpokenStays DEF NamesIInv
  <2>5. Sanes'
    BY <2>1, <2>3, SanesStep, IdleIsSane DEF NamesIInv
  <2>6. Names!Mailboxes \subseteq Names!Mailboxes' \cup {folder[p]}
    BY <2>1 DEF Names!Mailboxes
  <2>7. Names!NoneLost'
    BY <2>1, <2>2, <2>6 DEF NamesIInv, Names!NoneLost
  <2> QED BY <2>3, <2>4, <2>5, <2>7 DEF NamesIInv
<1> QED BY <1>1, <1>2

LEMMA FailStep ==
  ASSUME NamesIInv, NEW h \in Handler, Names!Fail(h)
  PROVE  NamesIInv'
<1>1. Names!Become(h, Names!Idle) /\ UNCHANGED <<folder, owner, born, table, held, doomed>>
  BY DEF Names!Fail
<1>2. Owned' /\ Names!NoneLost' /\ Grows
  BY <1>1, NoChange DEF NamesIInv
<1>3. Spoken' /\ Sanes'
  BY <1>1, <1>2, SpokenStays, SanesStep, IdleIsSane DEF NamesIInv
<1> QED BY <1>2, <1>3 DEF NamesIInv

LEMMA GetAllStep == NamesIInv /\ Names!GetAll => NamesIInv'
<1> SUFFICES ASSUME NamesIInv, Names!GetAll PROVE NamesIInv'
  OBVIOUS
<1>1. /\ held' = held \cup {<<p, folder[p]>> : p \in DOMAIN folder}
      /\ UNCHANGED <<folder, owner, born, table, task, doomed>>
  BY DEF Names!GetAll
<1>2. Owned' /\ Names!NoneLost' /\ Grows
  BY <1>1, NoChange DEF NamesIInv
<1>3. Spoken' /\ Sanes'
  BY <1>1 DEF NamesIInv, Owned, Spoken, Sanes
<1> QED BY <1>2, <1>3 DEF NamesIInv

LEMMA RestartStep == NamesIInv /\ Names!Restart => NamesIInv'
<1> SUFFICES ASSUME NamesIInv, Names!Restart PROVE NamesIInv'
  OBVIOUS
<1>1. /\ table' = << >> /\ task' = [h \in Handler |-> Names!Idle]
      /\ UNCHANGED <<folder, owner, born, held, doomed>>
  BY DEF Names!Restart
<1>2. Owned' /\ Names!NoneLost' /\ Grows
  BY <1>1, NoChange DEF NamesIInv
<1>3. Spoken'
  BY <1>1, EmptyTable DEF NamesIInv, Spoken
<1>4. Sanes'
  <2>1. \A h \in Handler : Sane(task'[h], owner', doomed')
    BY <1>1, IdleIsSane
  <2> QED BY <1>1, <2>1 DEF Sanes
<1> QED BY <1>2, <1>3, <1>4 DEF NamesIInv

LEMMA InitNames == Names!Init => NamesIInv
<1> SUFFICES ASSUME Names!Init PROVE NamesIInv
  OBVIOUS
<1>1. PICK number \in [First -> 1..Cardinality(First)] :
          /\ \A p, q \in First : number[p] = number[q] => p = q
          /\ folder = number /\ owner = number
          /\ held = {<<p, number[p]>> : p \in First}
  BY SameSets DEF Names!Init
<1>2. Cardinality(First) \in Nat /\ born = Cardinality(First)
  BY FS_CardinalityType, SameSets DEF Names!Init
<1>3. Owned
  BY <1>1, <1>2 DEF Owned, Names!Path
<1>4. Spoken
  <2>1. table = << >>
    BY SameSets DEF Names!Init
  <2> QED BY <1>1, <2>1, EmptyTable DEF Spoken
<1>5. Sanes
  BY IdleIsSane DEF Names!Init, Sanes
<1>6. Names!NoneLost
  <2>1. number \in Injection(First, 1..born)
    BY <1>1, <1>2 DEF Injection, IsInjective
  <2>2. IsFiniteSet(1..born) /\ Cardinality(1..born) = Cardinality(First)
    <3>1. born \in Nat /\ 1 \in Int /\ born \in Int
      BY <1>2
    <3>2. /\ IsFiniteSet(1..born)
          /\ Cardinality(1..born) = IF 1 > born THEN 0 ELSE born - 1 + 1
      BY <3>1, FS_Interval
    <3>3. (IF 1 > born THEN 0 ELSE born - 1 + 1) = born
      BY <3>1
    <3> QED BY <3>2, <3>3, <1>2
  <2>3. number \in Surjection(First, 1..born)
    BY <2>1, <2>2, FS_Injection
  <2> QED BY <1>1, <2>3 DEF Surjection, Names!Mailboxes, Names!NoneLost
<1> QED BY <1>3, <1>4, <1>5, <1>6 DEF NamesIInv

LEMMA NamesStep == ASSUME ~Reuse, NamesIInv, [Names!Next]_namesVars PROVE NamesIInv'
<1>1. CASE UNCHANGED namesVars
  BY <1>1 DEF namesVars, NamesIInv, Owned, Spoken, Sanes, Names!NoneLost, Names!Mailboxes
<1>2. ASSUME NEW h \in Handler,
             \/ \E p \in Name : Names!AskCreate(h, p)
             \/ \E id \in Name, last \in Segment : Names!AskRename(h, id, last)
             \/ \E pair \in held : Names!AskDestroy(h, pair)
             \/ Names!Create(h) \/ Names!Rename(h) \/ Names!RecordRename(h)
             \/ Names!Destroy(h) \/ Names!Fail(h)
      PROVE  NamesIInv'
  BY <1>2, AskCreateStep, AskRenameStep, AskDestroyStep, CreateStep, RenameStep,
     RecordRenameStep, DestroyStep, FailStep
<1> QED BY <1>1, <1>2, GetAllStep, RestartStep DEF Names!Next

LEMMA NamesInvariance == ASSUME ~Reuse PROVE NamesSpec => []NamesIInv
<1>1. NamesIInv /\ [Names!Next]_namesVars => NamesIInv'
  BY NamesStep
<1> QED BY <1>1, InitNames, PTL DEF NamesSpec

\* Mailbox/set deletes no mailbox that no client asked to destroy: a destroy
\* resolves to a name of the mailbox that was meant, or to none.
THEOREM NoMailboxLost == ASSUME ~Reuse PROVE NamesSpec => []NoneLost
<1>1. NamesIInv => NoneLost
  BY DEF NamesIInv, NoneLost
<1> QED BY <1>1, NamesInvariance, PTL

\* Mailbox/get and Mailbox/set show and change, for an id, the mailbox it was
\* given for or none, in spite of evicted redirects, restarts and failures.
THEOREM IdsLeadRight == ASSUME ~Reuse PROVE NamesSpec => []RightMailbox
<1>1. NamesIInv => RightMailbox
  <2> SUFFICES ASSUME NamesIInv, NEW pair \in held,
                      NEW p \in {Names!Shown(pair[1]), Resolve(table, pair[1])},
                      p \in DOMAIN folder
               PROVE  folder[p] = pair[2]
    BY SameTables DEF RightMailbox, Names!RightMailbox
  <2>1. pair[1] \in DOMAIN owner /\ owner[pair[1]] = pair[2]
    BY DEF NamesIInv, Spoken
  <2>2. Same(pair[1], Resolve(table, pair[1]), owner)
    BY <2>1, ResolvesToSame DEF NamesIInv
  <2>3. owner[p] = pair[2]
    BY <2>1, <2>2, SameTables DEF Names!Shown, Same
  <2> QED BY <2>3 DEF NamesIInv, Owned
<1> QED BY <1>1, NamesInvariance, PTL

-----------------------------------------------------------------------------
(* The ids that top-level mailboxes had at first.                          *)

\* The table has room for a redirect of every name that clients use.
Roomy == IsFiniteSet(Name) /\ Cardinality(Name) <= MaxEntries

\* A name is given once, by one rename; those the mailboxes had at first by
\* none.
GivenOnce ==
    /\ \A d, e \in Entries(table) : d.new = e.new => d = e
    /\ \A h \in Handler : Names!At(h, "record") => \A e \in Entries(table) : e.new # task[h].to
    /\ \A g, h \in Handler :
          Names!At(g, "record") /\ Names!At(h, "record") /\ task[g].to = task[h].to => g = h
    /\ \A f \in First :
          /\ f \in DOMAIN owner
          /\ \A e \in Entries(table) : e.new # f
          /\ \A h \in Handler : Names!At(h, "record") => task[h].to # f
    /\ Olds(table) \subseteq Name
    /\ \A h \in Handler : Names!At(h, "rename") \/ Names!At(h, "record") => task[h].id \in Name
    /\ faults \in Nat

\* A name with a redirect is nobody's, nor is one that a handler renamed and
\* is about to redirect; that one ends the chain of the id it was asked by.
GivenUp ==
    /\ \A x \in Olds(table) : x \notin DOMAIN folder
    /\ \A h \in Handler : Names!At(h, "record") =>
          /\ Same(task[h].id, task[h].at, owner)
          /\ task[h].at \notin Olds(table) /\ task[h].at \notin DOMAIN folder
          /\ task[h].at \in Chain(table, task[h].id)
          /\ task[h].to # task[h].id
    /\ \A g, h \in Handler :
          Names!At(g, "record") /\ Names!At(h, "record") /\ task[g].at = task[h].at => g = h
    /\ \A h \in Handler : Names!At(h, "rename") /\ task[h].at \in DOMAIN folder =>
          task[h].at \in Chain(table, task[h].id)

\* S follows, from f, the redirects there are and those handlers are about to
\* record, and ends at a mailbox.
Way(f, S) ==
    /\ f \in S /\ S \subseteq DOMAIN owner
    /\ \A e \in Entries(table) : e.old \in S => e.new \in S
    /\ \A h \in Handler : Names!At(h, "record") /\ task[h].at \in S => task[h].to \in S
    /\ \A n \in S :
          /\ n[1] = Root /\ owner[n] = owner[f]
          /\ \/ n \in DOMAIN folder
             \/ n \in Olds(table)
             \/ \E h \in Handler : Names!At(h, "record") /\ task[h].at = n

Ways ==
    faults = 0 => \A f \in First :
        f[1] = Root /\ owner[f] \in Names!Mailboxes => \E S : Way(f, S)

ReachIInv == NamesIInv /\ GivenOnce /\ GivenUp /\ Ways

LEMMA EntryNames ==
  ASSUME Spoken, NEW e \in Entries(table)
  PROVE  e.old \in DOMAIN owner /\ e.new \in DOMAIN owner
BY DEF Spoken, Same

LEMMA TaskNames ==
  ASSUME Sanes, NEW h \in Handler
  PROVE  /\ Names!At(h, "rename") => task[h].id \in DOMAIN owner /\ task[h].at \in DOMAIN owner
         /\ Names!At(h, "record") => task[h].id \in DOMAIN owner /\ task[h].to \in DOMAIN owner
BY DEF Names!At, Sanes, Sane, Same

\* What records and renames nothing.
LEMMA StillStep ==
  ASSUME ReachIInv, Grows, table' = table,
         \A n \in DOMAIN folder' : n \in DOMAIN folder \/ n \notin DOMAIN owner,
         NEW h \in Handler, NEW t,
         \A g \in Handler : task'[g] = IF g = h THEN t ELSE task[g],
         t.pc # "record",
         t.pc = "rename" =>
            /\ t.id \in Name /\ t.at \in DOMAIN owner
            /\ t.at \in DOMAIN folder => t.at \in Chain(table, t.id),
         faults' \in Nat, faults' = 0 => faults = 0 /\ ~Names!At(h, "record"),
         \A f \in First : owner[f] \in Names!Mailboxes' => owner[f] \in Names!Mailboxes,
         \A n \in DOMAIN folder : folder[n] \in Names!Mailboxes' => n \in DOMAIN folder'
  PROVE  GivenOnce' /\ GivenUp' /\ Ways'
<1>1. \A g \in Handler : /\ Names!At(g, "record")' => Names!At(g, "record") /\ task'[g] = task[g]
                         /\ Names!At(g, "rename")' =>
                               \/ Names!At(g, "rename") /\ task'[g] = task[g]
                               \/ g = h /\ task'[g] = t /\ t.pc = "rename"
  BY DEF Names!At
<1>2. GivenOnce'
  BY <1>1 DEF ReachIInv, GivenOnce, Grows
<1>3. GivenUp'
  <2>1. \A x \in Olds(table) : x \in DOMAIN owner
    BY EntryNames DEF ReachIInv, NamesIInv, Olds
  <2>2. \A g \in Handler : Names!At(g, "record") =>
           /\ Same(task[g].id, task[g].at, owner')
           /\ task[g].at \notin DOMAIN folder'
    BY DEF ReachIInv, GivenUp, Same, Grows
  <2>3. \A g \in Handler : Names!At(g, "rename")' /\ task'[g].at \in DOMAIN folder' =>
           task'[g].at \in Chain(table, task'[g].id)
    BY <1>1, TaskNames DEF ReachIInv, NamesIInv, GivenUp
  <2> QED BY <1>1, <2>1, <2>2, <2>3 DEF ReachIInv, GivenUp
<1>4. Ways'
  <2> SUFFICES ASSUME faults' = 0, NEW f \in First, f[1] = Root, owner'[f] \in Names!Mailboxes'
               PROVE  \E S : Way(f, S)'
    BY DEF Ways
  <2>1. owner'[f] = owner[f] /\ owner[f] \in Names!Mailboxes
    BY DEF ReachIInv, GivenOnce, Grows
  <2>2. PICK S : Way(f, S)
    BY <2>1 DEF ReachIInv, Ways
  <2>3. Way(f, S)'
    <3>1. f \in S /\ S \subseteq DOMAIN owner' /\ \A n \in S : owner'[n] = owner[n]
      BY <2>2 DEF Way, Grows
    <3>2. \A g \in Handler : Names!At(g, "record")' /\ task'[g].at \in S => task'[g].to \in S
      BY <1>1, <2>2 DEF Way
    <3>3. ASSUME NEW n \in S
          PROVE  /\ n[1] = Root /\ owner'[n] = owner'[f]
                 /\ \/ n \in DOMAIN folder'
                    \/ n \in Olds(table)
                    \/ \E g \in Handler : Names!At(g, "record")' /\ task'[g].at = n
      <4>1. n[1] = Root /\ owner[n] = owner[f]
        BY <2>2 DEF Way
      <4>2. CASE n \in DOMAIN folder
        <5>1. folder[n] = owner[f]
          BY <4>1, <4>2 DEF ReachIInv, NamesIInv, Owned
        <5> QED BY <2>1, <3>1, <4>1, <4>2, <5>1
      <4>3. CASE n \in Olds(table)
        BY <2>1, <3>1, <4>1, <4>3
      <4>4. ASSUME NEW g \in Handler, Names!At(g, "record"), task[g].at = n
            PROVE  Names!At(g, "record")' /\ task'[g].at = n
        BY <4>4 DEF Names!At
      <4> QED BY <2>1, <2>2, <3>1, <4>1, <4>2, <4>3, <4>4 DEF Way
    <3>4. \A e \in Entries(table) : e.old \in S => e.new \in S
      BY <2>2 DEF Way
    <3> QED BY <3>1, <3>2, <3>3, <3>4 DEF Way
  <2> QED BY <2>3
<1> QED BY <1>2, <1>3, <1>4

\* The mailboxes and redirects stay.
LEMMA RestStep ==
  ASSUME ReachIInv, UNCHANGED <<folder, owner, table>>,
         NEW h \in Handler, NEW t, Names!Become(h, t),
         t.pc # "record",
         t.pc = "rename" =>
            /\ t.id \in Name /\ t.at \in DOMAIN owner
            /\ t.at \in DOMAIN folder => t.at \in Chain(table, t.id),
         faults' \in Nat, faults' = 0 => faults = 0 /\ ~Names!At(h, "record")
  PROVE  GivenOnce' /\ GivenUp' /\ Ways'
<1>1. \A g \in Handler : task'[g] = IF g = h THEN t ELSE task[g]
  <2>1. task = [i \in Handler |-> task[i]] /\ task' = [task EXCEPT ![h] = t]
    BY DEF ReachIInv, NamesIInv, Sanes, Names!Become
  <2> QED BY <2>1
<1>2. Grows
  BY DEF Grows
<1>3. Names!Mailboxes' = Names!Mailboxes
  BY DEF Names!Mailboxes
<1> QED BY <1>1, <1>2, <1>3, StillStep

LEMMA AskReaches ==
  ASSUME ReachIInv, NEW h \in Handler,
         \/ \E p \in Name : Names!AskCreate(h, p)
         \/ \E id \in Name, last \in Segment : Names!AskRename(h, id, last)
         \/ \E pair \in held : Names!AskDestroy(h, pair)
  PROVE  GivenOnce' /\ GivenUp' /\ Ways'
<1>1. ASSUME NEW t, Names!Ask(h, t), t.pc # "record",
             t.pc = "rename" =>
                /\ t.id \in Name /\ t.at \in DOMAIN owner
                /\ t.at \in DOMAIN folder => t.at \in Chain(table, t.id)
      PROVE  GivenOnce' /\ GivenUp' /\ Ways'
  <2>1. /\ UNCHANGED <<folder, owner, table, faults>> /\ Names!Become(h, t) /\ ~Names!At(h, "record")
    BY <1>1 DEF Names!Ask, Names!At
  <2>2. faults' \in Nat /\ (faults' = 0 => faults = 0 /\ ~Names!At(h, "record"))
    BY <2>1 DEF ReachIInv, GivenOnce
  <2> QED BY <1>1, <2>1, <2>2, RestStep
<1>2. ASSUME NEW p \in Name, Names!AskCreate(h, p) PROVE GivenOnce' /\ GivenUp' /\ Ways'
  <2> DEFINE t == [pc |-> "create", id |-> << >>, at |-> << >>, to |-> p]
  <2>1. Names!Ask(h, t)
    BY <1>2, CreateTask DEF Names!AskCreate
  <2>2. t.pc = "create"
    OBVIOUS
  <2> HIDE DEF t
  <2> QED BY <1>1, <2>1, <2>2
<1>3. ASSUME NEW pair \in held, Names!AskDestroy(h, pair) PROVE GivenOnce' /\ GivenUp' /\ Ways'
  <2> DEFINE at == Resolve(table, pair[1])
             t == [pc |-> "destroy", id |-> << >>, at |-> at, to |-> << >>]
  <2>1. Names!Ask(h, t)
    BY <1>3, DestroyTask, SameTables DEF Names!AskDestroy
  <2>2. t.pc = "destroy"
    OBVIOUS
  <2> HIDE DEF t
  <2> QED BY <1>1, <2>1, <2>2
<1>4. ASSUME NEW id \in Name, NEW last \in Segment, Names!AskRename(h, id, last)
      PROVE  GivenOnce' /\ GivenUp' /\ Ways'
  <2> DEFINE at == Resolve(table, id)
             t == [pc |-> "rename", id |-> id, at |-> at, to |-> <<at[1], last>>]
  <2>1. Names!Ask(h, t) /\ \E pair \in held : pair[1] = id
    BY <1>4, SameTables DEF Names!AskRename
  <2>2. at \in DOMAIN owner
    BY <2>1, ResolvesToSame DEF ReachIInv, NamesIInv, Spoken, Same
  <2>3. at \in Chain(table, id)
    BY ChainCloses DEF Resolve, Closed
  <2>4. t.pc = "rename" /\ t.id = id /\ t.at = at
    OBVIOUS
  <2> HIDE DEF at, t
  <2> QED BY <1>1, <2>1, <2>2, <2>3, <2>4
<1> QED BY <1>2, <1>3, <1>4

LEMMA RefusedReaches ==
  ASSUME ReachIInv, NEW h \in Handler, Names!Refused(h), ~Names!At(h, "record")
  PROVE  GivenOnce' /\ GivenUp' /\ Ways'
<1>1. UNCHANGED <<folder, owner, table, faults>> /\ Names!Become(h, Names!Idle)
  BY DEF Names!Refused
<1>2. Names!Idle.pc = "idle" /\ faults \in Nat
  BY DEF Names!Idle, ReachIInv, GivenOnce
<1> QED BY <1>1, <1>2, RestStep

LEMMA FailReaches ==
  ASSUME ReachIInv, NEW h \in Handler, Names!Fail(h)
  PROVE  GivenOnce' /\ GivenUp' /\ Ways'
<1>1. UNCHANGED <<folder, owner, table>> /\ Names!Become(h, Names!Idle) /\ faults' = faults + 1
  BY DEF Names!Fail
<1>2. Names!Idle.pc = "idle" /\ faults' \in Nat /\ faults' # 0
  BY <1>1 DEF Names!Idle, ReachIInv, GivenOnce
<1> QED BY <1>1, <1>2, RestStep

LEMMA CreateReaches ==
  ASSUME ReachIInv, ~Reuse, NEW h \in Handler, Names!Create(h)
  PROVE  GivenOnce' /\ GivenUp' /\ Ways'
<1> DEFINE p == task[h].to
<1>0. ~Names!At(h, "record")
  BY DEF Names!Create, Names!At
<1>1. CASE Names!Taken(p)
  BY <1>0, <1>1, RefusedReaches DEF Names!Create
<1>2. CASE ~Names!Taken(p)
  <2>1. /\ born' = born + 1
        /\ folder' = [q \in DOMAIN folder \cup {p} |-> IF q = p THEN born' ELSE folder[q]]
        /\ owner' = [q \in DOMAIN owner \cup {p} |-> IF q = p THEN born' ELSE owner[q]]
        /\ Names!Become(h, Names!Idle)
        /\ UNCHANGED <<table, faults>>
    BY <1>2 DEF Names!Create
  <2>2. p \notin DOMAIN owner /\ p \notin DOMAIN folder
    BY <1>2 DEF Names!Taken
  <2> HIDE DEF p
  <2>3. Grows
    BY <2>1, <2>2 DEF Grows
  <2>4. \A g \in Handler : task'[g] = IF g = h THEN Names!Idle ELSE task[g]
    <3>1. task = [i \in Handler |-> task[i]] /\ task' = [task EXCEPT ![h] = Names!Idle]
      BY <2>1 DEF ReachIInv, NamesIInv, Sanes, Names!Become
    <3> QED BY <3>1
  <2>5. Names!Mailboxes' \subseteq Names!Mailboxes \cup {born'}
    BY <2>1 DEF Names!Mailboxes
  <2>6. \A f \in First : owner[f] # born'
    BY <2>1 DEF ReachIInv, NamesIInv, Owned, GivenOnce
  <2>7. Names!Idle.pc = "idle" /\ faults \in Nat
    BY DEF Names!Idle, ReachIInv, GivenOnce
  <2>8. \A n \in DOMAIN folder : n \in DOMAIN folder'
    BY <2>1
  <2>9. \A n \in DOMAIN folder' : n \in DOMAIN folder \/ n \notin DOMAIN owner
    BY <2>1, <2>2
  <2> QED BY <1>0, <2>1, <2>3, <2>4, <2>5, <2>6, <2>7, <2>8, <2>9, StillStep
<1> QED BY <1>1, <1>2

LEMMA DestroyReaches ==
  ASSUME ReachIInv, NEW h \in Handler, Names!Destroy(h)
  PROVE  GivenOnce' /\ GivenUp' /\ Ways'
<1> DEFINE p == task[h].at
<1>0. ~Names!At(h, "record")
  BY DEF Names!Destroy, Names!At
<1>1. CASE p \notin DOMAIN folder
  BY <1>0, <1>1, RefusedReaches DEF Names!Destroy
<1>2. CASE p \in DOMAIN folder
  <2>1. /\ folder' = [q \in DOMAIN folder \ {p} |-> folder[q]]
        /\ Names!Become(h, Names!Idle)
        /\ UNCHANGED <<owner, table, faults>>
    BY <1>2 DEF Names!Destroy
  <2> HIDE DEF p
  <2>3. Grows
    BY <2>1 DEF Grows
  <2>4. \A g \in Handler : task'[g] = IF g = h THEN Names!Idle ELSE task[g]
    <3>1. task = [i \in Handler |-> task[i]] /\ task' = [task EXCEPT ![h] = Names!Idle]
      BY <2>1 DEF ReachIInv, NamesIInv, Sanes, Names!Become
    <3> QED BY <3>1
  <2>5. Names!Mailboxes' \subseteq Names!Mailboxes /\ folder[p] \notin Names!Mailboxes'
    BY <1>2, <2>1 DEF p, Names!Mailboxes, ReachIInv, NamesIInv, Owned
  <2>7. Names!Idle.pc = "idle" /\ faults \in Nat
    BY DEF Names!Idle, ReachIInv, GivenOnce
  <2>8. \A n \in DOMAIN folder : folder[n] \in Names!Mailboxes' => n \in DOMAIN folder'
    BY <2>1, <2>5
  <2>9. \A n \in DOMAIN folder' : n \in DOMAIN folder \/ n \notin DOMAIN owner
    BY <2>1
  <2> QED BY <1>0, <2>1, <2>3, <2>4, <2>5, <2>7, <2>8, <2>9, StillStep
<1> QED BY <1>1, <1>2

LEMMA GetAllReaches == ReachIInv /\ Names!GetAll => GivenOnce' /\ GivenUp' /\ Ways'
BY DEF Names!GetAll, ReachIInv, GivenOnce, GivenUp, Ways, Way, Names!Mailboxes, Names!At

LEMMA RestartReaches == ReachIInv /\ Names!Restart => GivenOnce' /\ GivenUp' /\ Ways'
<1> SUFFICES ASSUME ReachIInv, Names!Restart PROVE GivenOnce' /\ GivenUp' /\ Ways'
  OBVIOUS
<1>1. /\ table' = << >> /\ faults' = faults + 1
      /\ UNCHANGED <<folder, owner>>
  BY DEF Names!Restart
<1>2. \A h \in Handler : task'[h].pc = "idle"
  BY DEF Names!Restart, Names!Idle
<1>3. faults' \in Nat /\ faults' # 0
  BY <1>1 DEF ReachIInv, GivenOnce
<1>4. Entries(table') = {}
  BY <1>1, EmptyTable
<1>5. GivenOnce'
  BY <1>1, <1>2, <1>3, <1>4 DEF ReachIInv, GivenOnce, Names!At, Olds
<1>6. GivenUp'
  BY <1>2, <1>4 DEF GivenUp, Names!At, Olds
<1> QED BY <1>3, <1>5, <1>6 DEF Ways

LEMMA RenameReaches ==
  ASSUME ReachIInv, ~Reuse, NEW h \in Handler, Names!Rename(h)
  PROVE  GivenOnce' /\ GivenUp' /\ Ways'
<1> DEFINE old == task[h].at
           new == task[h].to
           M(q) == Names!Moved(q, old, new)
           t == [task[h] EXCEPT !.pc = "record"]
<1>0. Names!At(h, "rename") /\ ~Names!At(h, "record")
  BY DEF Names!Rename, Names!At
<1>1. CASE Names!RefusesRename(h)
  BY <1>0, <1>1, RefusedReaches DEF Names!Rename
<1>2. CASE ~Names!RefusesRename(h)
  <2>1. /\ Names!CarryOutRename(h) /\ Names!Become(h, t)
        /\ UNCHANGED <<table, faults>>
    BY <1>2 DEF Names!Rename, Names!CarryOutRename
  <2>2. PICK last \in Segment : new = <<old[1], last>>
    BY <1>0, RenameFacts DEF ReachIInv
  <2>3. old \in Names!Path /\ Same(task[h].id, old, owner)
    BY <1>0, RenameFacts DEF ReachIInv
  <2>4. /\ old \in DOMAIN folder /\ new \notin DOMAIN owner
        /\ new = M(old)
        /\ DOMAIN folder' = {M(q) : q \in DOMAIN folder}
        /\ \A q \in DOMAIN folder : folder'[M(q)] = folder[q]
        /\ \A q \in DOMAIN folder : M(q) = q \/ M(q) \notin DOMAIN owner
        /\ DOMAIN owner' = DOMAIN owner \cup DOMAIN folder'
        /\ Grows
        /\ \A p \in DOMAIN folder' : owner'[p] = folder'[p]
    BY <1>2, <2>1, <2>2, <2>3, RenameMoves DEF ReachIInv, NamesIInv
  <2>5. /\ t.pc = "record" /\ t.id = task[h].id /\ t.at = old /\ t.to = new
        /\ \A g \in Handler : task'[g] = IF g = h THEN t ELSE task[g]
    <3>1. /\ task[h] = [pc |-> task[h].pc, id |-> task[h].id, at |-> task[h].at, to |-> task[h].to]
          /\ task = [i \in Handler |-> task[i]] /\ task' = [task EXCEPT ![h] = t]
      BY <2>1 DEF ReachIInv, NamesIInv, Sanes, Sane, Names!Become
    <3>2. t = [pc |-> "record", id |-> task[h].id, at |-> task[h].at, to |-> task[h].to]
      BY <3>1
    <3>3. \A g \in Handler : task'[g] = IF g = h THEN t ELSE task[g]
      BY <3>1
    <3> QED BY <3>2, <3>3
  \* The name is new, and the old one is given up.
  <2>6. \A n \in DOMAIN owner : n \in DOMAIN folder' => n \in DOMAIN folder
    BY <2>4
  <2>7. old \notin DOMAIN folder'
    <3>1. old \in DOMAIN owner /\ M(old) # old
      BY <2>3, <2>4 DEF Same
    <3> HIDE DEF M, old, new
    <3> QED BY <2>4, <3>1
  <2>8. \A n \in DOMAIN folder : n[1] = Root /\ n # old => n \in DOMAIN folder'
    <3> SUFFICES ASSUME NEW n \in DOMAIN folder, n[1] = Root, n # old
                 PROVE  n \in DOMAIN folder'
      OBVIOUS
    <3>1. old[2] # Root
      BY <2>3, PathParts
    <3>2. M(n) = n
      BY <3>1 DEF Names!Moved
    <3> HIDE DEF M, old
    <3> QED BY <2>4, <3>2
  <2>9. \A g \in Handler : Names!At(g, "record")' <=> g = h \/ Names!At(g, "record")
    BY <2>5 DEF Names!At
  <2>10. \A g \in Handler : Names!At(g, "record") => g # h /\ task'[g] = task[g]
    BY <1>0, <2>5
  <2>11. \A g \in Handler : Names!At(g, "rename")' => Names!At(g, "rename") /\ task'[g] = task[g]
    BY <2>5 DEF Names!At
  <2>12. task'[h] = t /\ \A e \in Entries(table) : e.old # new /\ e.new # new
    BY <2>4, <2>5, EntryNames DEF ReachIInv, NamesIInv
  <2> HIDE DEF old, new, M, t
  <2>13. GivenOnce'
    <3>1. /\ \A g \in Handler : Names!At(g, "record") => task[g].to # new
          /\ \A f \in First : new # f
          /\ task[h].id \in Name
      BY <1>0, <2>4, TaskNames DEF ReachIInv, NamesIInv, GivenOnce
    <3>2. \A g \in Handler : Names!At(g, "record")' => \A e \in Entries(table) : e.new # task'[g].to
      BY <2>5, <2>9, <2>10, <2>12 DEF ReachIInv, GivenOnce
    <3>3. \A f, g \in Handler :
             Names!At(f, "record")' /\ Names!At(g, "record")' /\ task'[f].to = task'[g].to => f = g
      BY <2>5, <2>9, <2>10, <2>12, <3>1 DEF ReachIInv, GivenOnce
    <3>4. \A f \in First : \A g \in Handler : Names!At(g, "record")' => task'[g].to # f
      BY <2>5, <2>9, <2>10, <2>12, <3>1 DEF ReachIInv, GivenOnce
    <3>5. \A g \in Handler : Names!At(g, "rename")' \/ Names!At(g, "record")' => task'[g].id \in Name
      BY <2>5, <2>9, <2>10, <2>11, <2>12, <3>1 DEF ReachIInv, GivenOnce
    <3>6. \A f \in First : f \in DOMAIN owner'
      BY <2>4 DEF ReachIInv, GivenOnce, Grows
    <3> QED BY <2>1, <3>2, <3>3, <3>4, <3>5, <3>6 DEF ReachIInv, GivenOnce
  <2>14. GivenUp'
    <3>1. \A x \in Olds(table) : x \notin DOMAIN folder'
      BY <2>6, EntryNames DEF ReachIInv, NamesIInv, GivenUp, Olds
    <3>2. ASSUME NEW g \in Handler, Names!At(g, "record")'
          PROVE  /\ Same(task'[g].id, task'[g].at, owner')
                 /\ task'[g].at \notin Olds(table) /\ task'[g].at \notin DOMAIN folder'
                 /\ task'[g].at \in Chain(table, task'[g].id)
                 /\ task'[g].to # task'[g].id
      <4>1. CASE g = h
        <5>1. Same(t.id, old, owner')
          BY <2>3, <2>4, <2>5 DEF Same, Grows
        <5>2. old \notin Olds(table)
          BY <2>4 DEF ReachIInv, GivenUp
        <5>3. old \in Chain(table, t.id)
          BY <1>0, <2>4, <2>5 DEF ReachIInv, GivenUp, old
        <5>4. t.to # t.id
          BY <2>3, <2>4, <2>5 DEF Same
        <5> QED BY <2>5, <2>7, <2>12, <4>1, <5>1, <5>2, <5>3, <5>4
      <4>2. CASE Names!At(g, "record")
        <5>1. /\ task'[g] = task[g]
              /\ Same(task[g].id, task[g].at, owner)
              /\ task[g].at \notin DOMAIN folder
              /\ task[g].at \notin Olds(table)
              /\ task[g].at \in Chain(table, task[g].id)
              /\ task[g].to # task[g].id
          BY <2>10, <4>2 DEF ReachIInv, GivenUp
        <5>2. Same(task[g].id, task[g].at, owner')
          BY <2>4, <5>1 DEF Same, Grows
        <5>3. task[g].at \notin DOMAIN folder'
          BY <2>6, <5>1 DEF Same
        <5> QED BY <5>1, <5>2, <5>3
      <4> QED BY <2>9, <3>2, <4>1, <4>2
    <3>3. \A f, g \in Handler :
             Names!At(f, "record")' /\ Names!At(g, "record")' /\ task'[f].at = task'[g].at => f = g
      <4>1. \A g \in Handler : Names!At(g, "record") => task[g].at # old
        BY <2>4 DEF ReachIInv, GivenUp
      <4> QED BY <2>5, <2>9, <2>10, <2>12, <4>1 DEF ReachIInv, GivenUp
    <3>4. \A g \in Handler : Names!At(g, "rename")' /\ task'[g].at \in DOMAIN folder' =>
             task'[g].at \in Chain(table, task'[g].id)
      BY <2>6, <2>11, TaskNames DEF ReachIInv, NamesIInv, GivenUp
    <3> QED BY <2>1, <3>1, <3>2, <3>3, <3>4 DEF GivenUp
  <2>15. Ways'
    <3> SUFFICES ASSUME faults' = 0, NEW f \in First, f[1] = Root, owner'[f] \in Names!Mailboxes'
                 PROVE  \E S : Way(f, S)'
      BY DEF Ways
    <3>1. owner'[f] = owner[f] /\ owner[f] \in Names!Mailboxes
      <4>1. Names!Mailboxes' \subseteq Names!Mailboxes
        BY <2>4 DEF Names!Mailboxes
      <4> QED BY <2>4, <4>1 DEF ReachIInv, GivenOnce, Grows
    <3>2. PICK R : Way(f, R)
      BY <2>1, <3>1 DEF ReachIInv, Ways
    <3> DEFINE S == IF old \in R THEN R \cup {new} ELSE R
    <3>3. R \subseteq DOMAIN owner /\ f \in R /\ new \notin R
      BY <2>4, <3>2 DEF Way
    <3>4. S \subseteq DOMAIN owner' /\ f \in S
      <4>1. new \in DOMAIN owner'
        BY <2>4
      <4> QED BY <2>4, <3>3, <4>1 DEF Grows
    <3>5. \A e \in Entries(table) : e.old \in S => e.new \in S
      BY <2>12, <3>2 DEF Way
    <3>6. \A g \in Handler : Names!At(g, "record")' /\ task'[g].at \in S => task'[g].to \in S
      <4>1. old # new
        BY <2>3, <2>4 DEF Same
      <4>2. \A g \in Handler : Names!At(g, "record") => task[g].at # new
        BY <2>4 DEF ReachIInv, GivenUp, Same
      <4> QED BY <2>5, <2>9, <2>10, <2>12, <3>2, <4>1, <4>2 DEF Way
    <3>7. ASSUME NEW n \in R
          PROVE  /\ n[1] = Root /\ owner'[n] = owner'[f]
                 /\ \/ n \in DOMAIN folder'
                    \/ n \in Olds(table)
                    \/ \E g \in Handler : Names!At(g, "record")' /\ task'[g].at = n
      <4>1. n[1] = Root /\ owner'[n] = owner'[f]
        BY <2>4, <3>1, <3>2, <3>3 DEF Way, Grows
      <4>2. CASE n \in DOMAIN folder /\ n # old
        BY <2>8, <4>1, <4>2
      <4>3. CASE n = old
        BY <2>5, <2>9, <2>12, <4>1, <4>3
      <4>4. CASE n \in Olds(table)
        BY <4>1, <4>4
      <4>5. ASSUME NEW g \in Handler, Names!At(g, "record"), task[g].at = n
            PROVE  Names!At(g, "record")' /\ task'[g].at = n
        BY <2>9, <2>10, <4>5
      <4> QED BY <3>2, <4>1, <4>2, <4>3, <4>4, <4>5 DEF Way
    <3>8. old \in R => /\ new[1] = Root /\ owner'[new] = owner'[f]
                       /\ new \in DOMAIN folder'
      <4> SUFFICES ASSUME old \in R
                   PROVE  /\ new[1] = Root /\ owner'[new] = owner'[f]
                          /\ new \in DOMAIN folder'
        OBVIOUS
      <4>1. old[1] = Root /\ owner[old] = owner[f]
        BY <3>2 DEF Way
      <4>2. new \in DOMAIN folder' /\ owner'[new] = folder[old]
        BY <2>4
      <4>3. folder[old] = owner[old]
        BY <2>4 DEF ReachIInv, NamesIInv, Owned
      <4> QED BY <2>2, <3>1, <4>1, <4>2, <4>3
    <3>9. \A n \in S :
             /\ n[1] = Root /\ owner'[n] = owner'[f]
             /\ \/ n \in DOMAIN folder'
                \/ n \in Olds(table)
                \/ \E g \in Handler : Names!At(g, "record")' /\ task'[g].at = n
      <4>1. \A n \in S : n \in R \/ (n = new /\ old \in R)
        OBVIOUS
      <4> HIDE DEF S
      <4> QED BY <3>7, <3>8, <4>1
    <3>10. PICK T : T = S
      OBVIOUS
    <3> HIDE DEF S
    <3>11. Way(f, T)'
      BY <2>1, <3>4, <3>5, <3>6, <3>9, <3>10 DEF Way
    <3> QED BY <3>11
  <2> QED BY <2>13, <2>14, <2>15
<1> QED BY <1>1, <1>2

\* The chain of what is redirected is not part of any other way that ends.
LEMMA RecordReaches ==
  ASSUME ReachIInv, Roomy, NEW h \in Handler, Names!RecordRename(h)
  PROVE  GivenOnce' /\ GivenUp' /\ Ways'
<1>1. PICK id, at, to : id = task[h].id /\ at = task[h].at /\ to = task[h].to
  OBVIOUS
<1>2. /\ Names!At(h, "record") /\ table' = Record(table, id, to)
      /\ Names!Become(h, Names!Idle) /\ UNCHANGED <<folder, owner, faults>>
  BY <1>1, SameTables DEF Names!RecordRename
<1>3. /\ Same(id, at, owner) /\ Same(id, to, owner) /\ id \in Name
      /\ at \notin Olds(table) /\ at \notin DOMAIN folder
      /\ at \in Chain(table, id) /\ to # id
      /\ \A e \in Entries(table) : e.new # to
  BY <1>1, <1>2 DEF ReachIInv, GivenOnce, GivenUp, NamesIInv, Sanes, Sane, Names!At
<1>4. PICK e0 : e0 = [old |-> id, new |-> to]
  OBVIOUS
<1>5. Entries(table') = {e \in Entries(table) : e.old # id} \cup {e0}
  <2>1. id \in Names!Path /\ to \in Names!Path
    BY <1>3 DEF Same, ReachIInv, NamesIInv, Owned
  <2> QED BY <1>2, <1>3, <1>4, <2>1, RecordsEntryOf
          DEF ReachIInv, NamesIInv, Spoken, GivenOnce, Roomy
<1>6. e0.old = id /\ e0.new = to
  BY <1>4
<1>7. Olds(table') = Olds(table) \cup {id}
  BY <1>5, <1>6 DEF Olds
<1>8. \A g \in Handler : task'[g] = IF g = h THEN Names!Idle ELSE task[g]
  <2>1. task = [i \in Handler |-> task[i]] /\ task' = [task EXCEPT ![h] = Names!Idle]
    BY <1>2 DEF ReachIInv, NamesIInv, Sanes, Names!Become
  <2> QED BY <2>1
<1>9. Names!Idle.pc = "idle"
  BY DEF Names!Idle
<1>10. \A g \in Handler :
          /\ Names!At(g, "record")' => Names!At(g, "record") /\ g # h /\ task'[g] = task[g]
          /\ Names!At(g, "rename")' => Names!At(g, "rename") /\ g # h /\ task'[g] = task[g]
  BY <1>8, <1>9 DEF Names!At
\* id is given up: it is at, or it had a redirect.
<1>11. id \notin DOMAIN folder /\ (id = at \/ id \in Olds(table))
  <2>1. CASE id \in Olds(table)
    BY <2>1 DEF ReachIInv, GivenUp
  <2>2. CASE id \notin Olds(table)
    BY <2>2, <1>3, EndOfChain
  <2> QED BY <2>1, <2>2
<1>12. \A g \in Handler : Names!At(g, "record")' => task[g].at # at /\ task[g].at # id
  BY <1>1, <1>2, <1>10, <1>11 DEF ReachIInv, GivenUp
\* A chain that ends elsewhere does not meet this one.
<1>13. ASSUME NEW x, NEW z \in Chain(table, x) \ Olds(table), z # at
       PROVE  z \in Chain(table', x)
  <2>1. id \notin Chain(table, x)
    <3> SUFFICES ASSUME id \in Chain(table, x) PROVE FALSE
      OBVIOUS
    <3>1. at \in Chain(table, x)
      BY <1>3, ChainTransitive
    <3> QED BY <1>3, <1>13, <3>1, OneEnd DEF ReachIInv, NamesIInv, Spoken
  <2>2. Chain(table, x) \subseteq Chain(table', x)
    BY <1>5, <2>1, ChainKept
  <2> QED BY <2>2
<1>14. GivenOnce'
  <2>1. \A d, e \in Entries(table') : d.new = e.new => d = e
    BY <1>3, <1>5, <1>6 DEF ReachIInv, GivenOnce
  <2>2. \A g \in Handler : Names!At(g, "record")' => \A e \in Entries(table') : e.new # task'[g].to
    BY <1>1, <1>2, <1>5, <1>6, <1>10 DEF ReachIInv, GivenOnce
  <2>3. \A f \in First : \A e \in Entries(table') : e.new # f
    BY <1>1, <1>2, <1>5, <1>6 DEF ReachIInv, GivenOnce
  <2>4. Olds(table') \subseteq Name
    BY <1>3, <1>7 DEF ReachIInv, GivenOnce
  <2> QED BY <1>2, <1>10, <2>1, <2>2, <2>3, <2>4 DEF ReachIInv, GivenOnce
<1>15. GivenUp'
  <2>1. \A x \in Olds(table') : x \notin DOMAIN folder'
    BY <1>2, <1>7, <1>11 DEF ReachIInv, GivenUp
  <2>2. \A g \in Handler : Names!At(g, "record")' =>
           /\ task'[g].at \notin Olds(table')
           /\ task'[g].at \in Chain(table', task'[g].id)
    BY <1>7, <1>10, <1>12, <1>13 DEF ReachIInv, GivenUp
  <2>3. \A g \in Handler : Names!At(g, "rename")' /\ task'[g].at \in DOMAIN folder' =>
           task'[g].at \in Chain(table', task'[g].id)
    <3> SUFFICES ASSUME NEW g \in Handler, Names!At(g, "rename"), g # h, task'[g] = task[g],
                        task[g].at \in DOMAIN folder
                 PROVE  task[g].at \in Chain(table', task[g].id)
      BY <1>2, <1>10
    <3>1. /\ task[g].at \in Chain(table, task[g].id)
          /\ task[g].at \notin Olds(table) /\ task[g].at # at
      BY <1>3 DEF ReachIInv, GivenUp
    <3> QED BY <1>13, <3>1
  <2> QED BY <1>2, <1>10, <2>1, <2>2, <2>3 DEF ReachIInv, GivenUp
<1>16. Ways'
  <2> SUFFICES ASSUME faults' = 0, NEW f \in First, f[1] = Root, owner'[f] \in Names!Mailboxes'
               PROVE  \E S : Way(f, S)'
    BY DEF Ways
  <2>1. owner'[f] = owner[f] /\ owner[f] \in Names!Mailboxes
    BY <1>2 DEF Names!Mailboxes
  <2>2. PICK R : Way(f, R)
    BY <1>2, <2>1 DEF ReachIInv, Ways
  <2>3. PICK C : C = Chain(table, id) \ {id}
    OBVIOUS
  <2>4. \A x \in C : \E e \in Entries(table) : e.new = x /\ e.old \in C \cup {id}
    BY <2>3, ChainStep
  <2>5. PICK S : S = R \ C
    OBVIOUS
  <2>6. f \in S /\ S \subseteq DOMAIN owner
    BY <2>2, <2>4, <2>5 DEF Way, ReachIInv, GivenOnce
  <2>7. \A e \in Entries(table') : e.old \in S => e.new \in S
    <3>1. ASSUME id \in S PROVE to \in S
      <4>1. Closed(table, id, R)
        BY <2>2, <2>5, <3>1 DEF Way, Closed
      <4>2. at \in R
        BY <1>3, <4>1, ChainWithin
      <4>3. to \in R
        BY <1>1, <1>2, <2>2, <4>2 DEF Way
      <4>4. to \notin C
        BY <1>3, <2>4
      <4> QED BY <2>5, <4>3, <4>4
    <3>2. ASSUME NEW e \in Entries(table), e.old # id, e.old \in S PROVE e.new \in S
      <4>1. e.new \in R
        BY <2>2, <2>5, <3>2 DEF Way
      <4>2. ASSUME e.new \in C PROVE FALSE
        <5>1. PICK d \in Entries(table) : d.new = e.new /\ d.old \in C \cup {id}
          BY <2>4, <4>2
        <5>2. d = e
          BY <5>1 DEF ReachIInv, GivenOnce
        <5> QED BY <2>5, <3>2, <5>1, <5>2
      <4> QED BY <2>5, <4>1, <4>2
    <3> QED BY <1>5, <1>6, <3>1, <3>2
  <2>8. \A g \in Handler : Names!At(g, "record")' /\ task'[g].at \in S => task'[g].to \in S
    <3> SUFFICES ASSUME NEW g \in Handler, Names!At(g, "record"), task[g].at \in S
                 PROVE  task[g].to \in S
      BY <1>10
    <3>1. task[g].to \in R
      BY <2>2, <2>5 DEF Way
    <3>2. \A e \in Entries(table) : e.new # task[g].to
      BY DEF ReachIInv, GivenOnce
    <3> QED BY <2>4, <2>5, <3>1, <3>2
  <2>9. ASSUME NEW n \in S
        PROVE  /\ n[1] = Root /\ owner'[n] = owner'[f]
               /\ \/ n \in DOMAIN folder'
                  \/ n \in Olds(table')
                  \/ \E g \in Handler : Names!At(g, "record")' /\ task'[g].at = n
    <3>1. n \in R /\ n[1] = Root /\ owner'[n] = owner'[f]
      BY <1>2, <2>2, <2>5 DEF Way
    <3>2. CASE n \in DOMAIN folder
      BY <1>2, <3>1, <3>2
    <3>3. CASE n \in Olds(table)
      BY <1>7, <3>1, <3>3
    <3>4. ASSUME NEW g \in Handler, Names!At(g, "record"), task[g].at = n, g # h
          PROVE  Names!At(g, "record")' /\ task'[g].at = n
      BY <1>8, <3>4 DEF Names!At
    <3>5. ASSUME n = at PROVE n \in Olds(table')
      BY <1>3, <1>7, <2>3, <2>5, <3>5
    <3> QED BY <1>1, <2>2, <3>1, <3>2, <3>3, <3>4, <3>5 DEF Way
  <2>10. Way(f, S)'
    BY <1>2, <2>6, <2>7, <2>8, <2>9 DEF Way
  <2> QED BY <2>10
<1> QED BY <1>14, <1>15, <1>16

LEMMA ReachInit == Names!Init => ReachIInv
<1> SUFFICES ASSUME Names!Init PROVE ReachIInv
  OBVIOUS
<1>1. NamesIInv
  BY InitNames
<1>2. /\ DOMAIN folder = First /\ DOMAIN owner = First
      /\ faults = 0 /\ table = << >>
      /\ \A h \in Handler : task[h].pc = "idle"
  BY DEF Names!Init, Names!Idle
<1>3. Entries(table) = {} /\ Olds(table) = {}
  BY <1>2, EmptyTable DEF Olds
<1>4. GivenOnce
  BY <1>2, <1>3 DEF GivenOnce, Names!At
<1>5. GivenUp
  BY <1>2, <1>3 DEF GivenUp, Names!At
<1>6. Ways
  <2> SUFFICES ASSUME NEW f \in First, f[1] = Root PROVE \E S : Way(f, S)
    BY DEF Ways
  <2>1. Way(f, {f})
    BY <1>2, <1>3 DEF Way, Names!At
  <2> QED BY <2>1
<1> QED BY <1>1, <1>4, <1>5, <1>6 DEF ReachIInv

\* Unless something fails, the id a top-level mailbox had at first leads to it
\* through all renames, by whichever of its ids handlers ask and record them.
THEOREM FirstIdsReach == ASSUME ~Reuse, Roomy PROVE NamesSpec => []Reachable
<1>1. ReachIInv /\ [Names!Next]_namesVars => ReachIInv'
  <2> SUFFICES ASSUME ReachIInv, [Names!Next]_namesVars PROVE ReachIInv'
    OBVIOUS
  <2>1. NamesIInv'
    BY NamesStep DEF ReachIInv
  <2>2. CASE UNCHANGED namesVars
    BY <2>1, <2>2 DEF namesVars, ReachIInv, GivenOnce, GivenUp, Ways, Way, Names!Mailboxes, Names!At
  <2>3. ASSUME NEW h \in Handler,
               \/ \E p \in Name : Names!AskCreate(h, p)
               \/ \E id \in Name, last \in Segment : Names!AskRename(h, id, last)
               \/ \E pair \in held : Names!AskDestroy(h, pair)
               \/ Names!Create(h) \/ Names!Rename(h) \/ Names!RecordRename(h)
               \/ Names!Destroy(h) \/ Names!Fail(h)
        PROVE  GivenOnce' /\ GivenUp' /\ Ways'
    BY <2>3, AskReaches, CreateReaches, RenameReaches, RecordReaches, DestroyReaches, FailReaches
  <2> QED BY <2>1, <2>2, <2>3, GetAllReaches, RestartReaches DEF Names!Next, ReachIInv
<1>2. ReachIInv => Reachable
  <2> SUFFICES ASSUME ReachIInv, Names!Settled, faults = 0, NEW pair \in held,
                      pair[1][1] = Root, pair[1] \in First, pair[2] \in Names!Mailboxes
               PROVE  Resolve(table, pair[1]) \in DOMAIN folder
    BY SameTables DEF Reachable, Names!Reachable
  <2>1. owner[pair[1]] = pair[2]
    BY DEF ReachIInv, NamesIInv, Spoken
  <2>2. PICK S : Way(pair[1], S)
    BY <2>1 DEF ReachIInv, Ways
  <2>3. Chain(table, pair[1]) \subseteq S
    <3>1. Closed(table, pair[1], S)
      BY <2>2 DEF Way, Closed
    <3> QED BY <3>1, ChainWithin
  <2>4. Resolve(table, pair[1]) \in Chain(table, pair[1]) \ Olds(table)
    <3>1. /\ Olds(table) \subseteq Name /\ IsFiniteSet(Name)
          /\ \A d, e \in Entries(table) : d.new = e.new => d = e
          /\ \A e \in Entries(table) : e.new # pair[1]
      BY DEF ReachIInv, GivenOnce, Roomy
    <3> QED BY <3>1, ChainEnds
  <2> QED BY <2>2, <2>3, <2>4 DEF Way, Names!Settled
<1> QED BY <1>1, <1>2, ReachInit, PTL DEF NamesSpec
=============================================================================
