-------------------------- MODULE EventStore_proofs --------------------------
(***************************************************************************)
(* While no move leads back to a calendar, the event is never lost: the    *)
(* handler that deletes a resource knows of one in a later calendar, and   *)
(* whoever deletes that one knows of a later one still.  While requests    *)
(* come one after the other, the redirects also lead to where it is.  The   *)
(* occurrences of a recurring event are what clients made of them.         *)
(***************************************************************************)
EXTENDS MCEventStore, IdRedirect_proofs, TLAPS

\* A move leads forward, and only a destroy destroys.
Onward ==
    \A h \in Handler :
        /\ At(h, "load") => task[h].at <= task[h].target
        /\ At(h, "create") => task[h].at < task[h].target
        /\ At(h, "destroy") => destroyed

\* What is about to be deleted has a later copy.
CopyAhead ==
    ~destroyed => \A h \in Handler :
        At(h, "delete") => \E c \in DOMAIN object : task[h].at < c

IInv == TypeOK /\ Onward /\ Survives /\ CopyAhead

-----------------------------------------------------------------------------
LEMMA ResolveType ==
    ASSUME TypeOK, NEW id \in Calendar PROVE Resolve(table, id) \in Calendar
<1> DEFINE E == [old : Calendar, new : Calendar]
<1> SUFFICES \A i \in DOMAIN table : table[i] \in E
  BY ResolveStays DEF Entries
<1>1. table \in Seq(E)
  BY DEF TypeOK
<1> HIDE DEF E
<1> QED BY <1>1

\* A handler's new task.
LEMMA BecomeType ==
    ASSUME TypeOK, NEW h \in Handler, NEW t \in Task, Become(h, t)
    PROVE  /\ task' \in [Handler -> Task]
           /\ task'[h] = t
           /\ \A k \in Handler : k # h => task'[k] = task[k]
BY DEF TypeOK, Become

LEMMA IdleType == Idle \in Task
BY EventAssumption DEF Idle, Task, Phase

LEMMA PutType ==
    ASSUME TypeOK, NEW c \in Calendar, NEW text \in SUBSET Edit, Put(c, text)
    PROVE  /\ DOMAIN object' = DOMAIN object \cup {c}
           /\ DOMAIN object' \subseteq Calendar /\ stamp' \in Nat
           /\ \A x \in DOMAIN object' :
                 object'[x].etag \in 0..stamp' /\ object'[x].text \subseteq Edit
<1>1. stamp \in Nat /\ stamp' = stamp + 1
  BY DEF TypeOK, Put
<1>2. /\ DOMAIN object' = DOMAIN object \cup {c}
      /\ object'[c] = Resource(stamp', text)
      /\ \A x \in DOMAIN object : x # c => object'[x] = object[x]
  BY DEF Put
<1>3. \A x \in DOMAIN object : object[x].etag \in 0..stamp'
  BY <1>1 DEF TypeOK
<1> QED BY <1>1, <1>2, <1>3 DEF TypeOK, Resource

LEMMA RemoveType ==
    ASSUME TypeOK, NEW c, Remove(c)
    PROVE  /\ DOMAIN object' = DOMAIN object \ {c}
           /\ DOMAIN object' \subseteq Calendar
           /\ \A x \in DOMAIN object' : object'[x] = object[x]
BY DEF TypeOK, Remove

LEMMA AskType ==
    ASSUME TypeOK, Ask
    PROVE  asked' \in 0..MaxAsks /\ asked + 1 \in Edit /\ asked' = asked + 1
BY EventAssumption DEF TypeOK, Ask, Edit

LEMMA UpdateKeeps ==
    ASSUME Forward, IInv, NEW h \in Handler, NEW id \in Calendar,
           NEW target \in Calendar, NEW edit \in {{}, {asked + 1}},
           Update(h, id, target, edit)
    PROVE  IInv'
<1> DEFINE at == Resolve(table, id)
           t == [pc |-> "load", id |-> id, at |-> at, target |-> target,
                 edit |-> edit, text |-> {}, etag |-> 0]
<1>1. at \in Calendar /\ edit \subseteq Edit
  BY ResolveType, AskType DEF IInv, Update
<1> HIDE DEF at
<1>2. t \in Task
  BY <1>1 DEF Task, Phase
<1>3. /\ Become(h, t) /\ asked' \in 0..MaxAsks
      /\ UNCHANGED <<kind, object, stamp, table, known, acked, destroyed,
                     faults>>
      /\ overlapped' \in BOOLEAN
      /\ target = at \/ <<at, target>> \in Moves
  BY AskType DEF IInv, Update, at
<1>4. at <= target
  <2>1. at \in Nat /\ target \in Nat
    BY <1>1, EventAssumption
  <2> QED BY <1>3, <2>1 DEF Forward
<1>5. /\ task' \in [Handler -> Task] /\ task'[h] = t
      /\ \A k \in Handler : k # h => task'[k] = task[k]
  BY <1>2, <1>3, BecomeType DEF IInv
<1>6. TypeOK'
  BY <1>3, <1>5 DEF IInv, TypeOK
<1>7. Onward'
  BY <1>3, <1>4, <1>5 DEF IInv, Onward, At
<1>8. Survives' /\ CopyAhead'
  BY <1>3, <1>5 DEF IInv, Survives, CopyAhead, At
<1> QED BY <1>6, <1>7, <1>8 DEF IInv

LEMMA DestroyKeeps ==
    ASSUME IInv, NEW h \in Handler, NEW id \in Calendar, Destroy(h, id)
    PROVE  IInv'
<1> DEFINE at == Resolve(table, id)
           t == [Idle EXCEPT !.pc = "destroy", !.at = at]
<1>1. at \in Calendar
  BY ResolveType DEF IInv
<1>2. /\ Become(h, t) /\ asked' \in 0..MaxAsks /\ destroyed' = TRUE
      /\ UNCHANGED <<kind, object, stamp, table, known, acked, overlapped,
                     faults>>
  BY AskType DEF IInv, Destroy
<1> HIDE DEF at
<1>3. t \in Task /\ t.pc = "destroy"
  BY <1>1, EventAssumption DEF Task, Phase, Idle
<1> HIDE DEF t
<1>4. /\ task' \in [Handler -> Task] /\ task'[h] = t
      /\ \A k \in Handler : k # h => task'[k] = task[k]
  BY <1>2, <1>3, BecomeType DEF IInv
<1>5. TypeOK'
  BY <1>2, <1>4 DEF IInv, TypeOK
<1>6. Onward'
  BY <1>2, <1>3, <1>4 DEF IInv, Onward, At
<1>7. Survives' /\ CopyAhead'
  BY <1>2 DEF Survives, CopyAhead
<1> QED BY <1>5, <1>6, <1>7 DEF IInv

\* A step that changes one handler's task and nothing else of the event.
LEMMA QuietKeeps ==
    ASSUME IInv, NEW h \in Handler, NEW t \in Task, Become(h, t),
           UNCHANGED <<kind, object, stamp, known, asked, destroyed,
                       overlapped>>,
           table' \in Seq([old : Calendar, new : Calendar]), IsTable(table'),
           Len(table') <= MaxEntries,
           acked' \subseteq Edit, faults' \in 0..MaxFaults,
           t.pc \notin {"load", "delete", "destroy"},
           t.pc = "create" => t.at < t.target
    PROVE  IInv'
<1>1. /\ task' \in [Handler -> Task] /\ task'[h] = t
      /\ \A k \in Handler : k # h => task'[k] = task[k]
  BY BecomeType DEF IInv
<1>2. TypeOK'
  BY <1>1 DEF IInv, TypeOK, IsTable
<1>3. Onward'
  BY <1>1 DEF IInv, Onward, At
<1>4. Survives' /\ CopyAhead'
  BY <1>1 DEF IInv, Survives, CopyAhead, At
<1> QED BY <1>2, <1>3, <1>4 DEF IInv

LEMMA LoadKeeps ==
    ASSUME IInv, NEW h \in Handler, Load(h) PROVE IInv'
<1> DEFINE t == task[h]
           then == IF Moving(h) THEN "create"
                   ELSE IF kind = "event" THEN "tag" ELSE "overwrite"
           u == [t EXCEPT !.pc = then, !.text = object[t.at].text \cup t.edit]
<1>1. /\ UNCHANGED <<kind, object, stamp, table, known, asked, acked, destroyed,
                     overlapped, faults>>
      /\ (t.at \in DOMAIN object /\ Become(h, u)) \/ Become(h, Idle)
      /\ At(h, "load")
  BY DEF Load
<1>2. /\ table' \in Seq([old : Calendar, new : Calendar]) /\ IsTable(table')
      /\ Len(table') <= MaxEntries
      /\ acked' \subseteq Edit /\ faults' \in 0..MaxFaults
  BY <1>1 DEF IInv, TypeOK, IsTable
<1>3. CASE Become(h, Idle)
  <2>1. Idle.pc = "idle"
    BY DEF Idle
  <2> QED BY <1>1, <1>2, <1>3, <2>1, IdleType, QuietKeeps
<1>4. CASE t.at \in DOMAIN object /\ Become(h, u)
  <2>1. t \in Task /\ object[t.at].text \subseteq Edit
    BY <1>4 DEF IInv, TypeOK
  <2>2. t.edit \subseteq Edit
    BY <2>1 DEF Task
  <2>3. object[t.at].text \cup t.edit \in SUBSET Edit
    BY <2>1, <2>2
  <2>4. then \in {"create", "tag", "overwrite"}
    OBVIOUS
  <2>5. t.at <= t.target /\ (then = "create" => t.at # t.target)
    BY <1>1 DEF IInv, Onward, Moving
  <2>6. t.at \in Nat /\ t.target \in Nat
    BY <2>1, EventAssumption DEF Task
  <2> HIDE DEF then
  <2>7. u \in Task /\ u.pc = then /\ u.at = t.at /\ u.target = t.target
    BY <2>1, <2>3, <2>4 DEF Task, Phase
  <2>8. u.pc = "create" => u.at < u.target
    BY <2>5, <2>6, <2>7
  <2> HIDE DEF u, t
  <2> QED BY <1>1, <1>2, <1>4, <2>4, <2>7, <2>8, QuietKeeps
<1> QED BY <1>1, <1>3, <1>4

LEMMA FaultType == ASSUME TypeOK, Fault PROVE faults' \in 0..MaxFaults
BY EventAssumption DEF TypeOK, Fault

\* PUT, whoever asks for it, takes no copy away.
LEMMA PutKeeps ==
    ASSUME IInv, NEW c \in Calendar, NEW text \in SUBSET Edit, Put(c, text),
           task' \in [Handler -> Task], UNCHANGED <<kind, destroyed,
                                                    overlapped>>,
           \A h \in Handler :
              \/ task'[h] = task[h]
              \/ task'[h].pc = "idle"
              \/ task'[h].pc = "delete" /\ task'[h].at < c,
           UNCHANGED <<table, known>>,
           asked' \in 0..MaxAsks, acked' \subseteq Edit, faults' \in 0..MaxFaults
    PROVE  IInv'
<1>1. /\ DOMAIN object' = DOMAIN object \cup {c}
      /\ DOMAIN object' \subseteq Calendar /\ stamp' \in Nat
      /\ \A x \in DOMAIN object' :
            object'[x].etag \in 0..stamp' /\ object'[x].text \subseteq Edit
  BY PutType DEF IInv
<1>2. TypeOK'
  BY <1>1 DEF IInv, TypeOK
<1>3. Onward'
  BY DEF IInv, Onward, At
<1>4. CopyAhead'
  <2> SUFFICES ASSUME ~destroyed, NEW h \in Handler, task'[h].pc = "delete"
               PROVE  \E x \in DOMAIN object' : task'[h].at < x
    BY DEF CopyAhead, At
  <2>1. CASE task'[h] = task[h]
    BY <2>1, <1>1 DEF IInv, CopyAhead, At
  <2>2. CASE task'[h].at < c
    BY <2>2, <1>1
  <2> QED BY <2>1, <2>2
<1>5. Survives'
  BY <1>1 DEF Survives
<1> QED BY <1>2, <1>3, <1>4, <1>5 DEF IInv

LEMMA CreateKeeps ==
    ASSUME IInv, NEW h \in Handler, Create(h) PROVE IInv'
<1> DEFINE t == task[h]  u == [t EXCEPT !.pc = "delete"]
<1>1. /\ Put(t.target, t.text) /\ Become(h, u) /\ t.pc = "create"
      /\ UNCHANGED <<kind, table, known, asked, acked, destroyed, overlapped,
                     faults>>
  BY DEF Create, At
<1>2. t \in Task /\ t.at < t.target
  BY <1>1 DEF IInv, TypeOK, Onward, At
<1>3. t.target \in Calendar /\ t.text \in SUBSET Edit
  BY <1>2 DEF Task
<1>4. u \in Task /\ u.pc = "delete" /\ u.at = t.at
  BY <1>2 DEF Task, Phase
<1> HIDE DEF t, u
<1>5. /\ task' \in [Handler -> Task] /\ task'[h] = u
      /\ \A k \in Handler : k # h => task'[k] = task[k]
  BY <1>1, <1>4, BecomeType DEF IInv
<1>6. asked' \in 0..MaxAsks /\ acked' \subseteq Edit /\ faults' \in 0..MaxFaults
  BY <1>1 DEF IInv, TypeOK
<1> QED BY <1>1, <1>2, <1>3, <1>4, <1>5, <1>6, PutKeeps

LEMMA DeleteRefusedKeeps ==
    ASSUME IInv, NEW h \in Handler, DeleteRefused(h) PROVE IInv'
<1> DEFINE t == task[h]  u == [t EXCEPT !.pc = "record"]
<1>1. /\ Fault /\ Become(h, u) /\ t.pc = "delete"
      /\ UNCHANGED <<kind, object, stamp, table, known, asked, acked, destroyed,
                     overlapped>>
  BY DEF DeleteRefused, At
<1>2. t \in Task
  BY DEF IInv, TypeOK
<1>3. u \in Task /\ u.pc = "record"
  BY <1>2 DEF Task, Phase
<1> HIDE DEF u
<1>4. /\ task' \in [Handler -> Task] /\ task'[h] = u
      /\ \A k \in Handler : k # h => task'[k] = task[k]
  BY <1>1, <1>3, BecomeType DEF IInv
<1>5. faults' \in 0..MaxFaults
  BY <1>1, EventAssumption DEF Fault, IInv, TypeOK
<1>6. TypeOK'
  BY <1>1, <1>4, <1>5 DEF IInv, TypeOK, IsTable
<1>7. Onward' /\ CopyAhead' /\ Survives'
  BY <1>1, <1>3, <1>4 DEF IInv, Onward, CopyAhead, Survives, At
<1> QED BY <1>6, <1>7 DEF IInv

\* A DELETE that may take the event's copy, but not its last one.
LEMMA DeleteKeeps ==
    ASSUME IInv, NEW h \in Handler, Delete(h) PROVE IInv'
<1> DEFINE t == task[h]  u == [t EXCEPT !.pc = "record"]
<1>1. /\ Remove(t.at) /\ Become(h, u) /\ t.pc = "delete"
      /\ UNCHANGED <<kind, stamp, table, known, asked, acked, destroyed,
                     overlapped, faults>>
  BY DEF Delete, At
<1>2. t \in Task
  BY DEF IInv, TypeOK
<1>3. u \in Task /\ u.pc = "record"
  BY <1>2 DEF Task, Phase
<1>4. t.at \in Calendar
  BY <1>2 DEF Task
<1> HIDE DEF u
<1>5. /\ task' \in [Handler -> Task] /\ task'[h] = u
      /\ \A k \in Handler : k # h => task'[k] = task[k]
  BY <1>1, <1>3, BecomeType DEF IInv
<1>6. /\ DOMAIN object' = DOMAIN object \ {t.at}
      /\ DOMAIN object' \subseteq Calendar
      /\ \A x \in DOMAIN object' : object'[x] = object[x]
  BY <1>1, <1>4, RemoveType DEF IInv
<1>7. TypeOK'
  BY <1>1, <1>5, <1>6 DEF IInv, TypeOK
<1>8. Onward'
  BY <1>1, <1>3, <1>5 DEF IInv, Onward, At
<1>9. ASSUME ~destroyed
      PROVE  \E c \in DOMAIN object' : t.at < c
  <2>1. PICK c \in DOMAIN object : t.at < c
    BY <1>1, <1>9 DEF IInv, CopyAhead, At
  <2>2. t.at \in Int /\ c \in Int
    <3>1. c \in Calendar
      BY DEF IInv, TypeOK
    <3> QED BY <3>1, <1>4, EventAssumption
  <2>3. c # t.at
    BY <2>1, <2>2
  <2> QED BY <2>1, <2>3, <1>6
<1>10. Survives'
  BY <1>1, <1>9 DEF Survives
<1>11. CopyAhead'
  <2> SUFFICES ASSUME ~destroyed, NEW k \in Handler, task'[k].pc = "delete"
               PROVE  \E x \in DOMAIN object' : task'[k].at < x
    BY <1>1 DEF CopyAhead, At
  <2>1. k # h /\ task'[k] = task[k] /\ task[k] \in Task
    BY <1>3, <1>5 DEF IInv, TypeOK
  <2>2. PICK c \in DOMAIN object : task[k].at < c
    BY <2>1 DEF IInv, CopyAhead, At
  <2>3. CASE c # t.at
    BY <2>1, <2>2, <2>3, <1>6
  <2>4. CASE c = t.at
    <3>1. PICK d \in DOMAIN object' : c < d
      BY <2>4, <1>9
    <3>2. task[k].at \in Int /\ c \in Int /\ d \in Int
      <4>1. task[k].at \in Calendar /\ c \in Calendar /\ d \in Calendar
        BY <2>1, <2>4, <1>4, <1>6 DEF Task
      <4> QED BY <4>1, EventAssumption
    <3>3. task[k].at < d
      BY <2>2, <3>1, <3>2
    <3> QED BY <2>1, <3>3
  <2> QED BY <2>3, <2>4
<1> QED BY <1>7, <1>8, <1>10, <1>11 DEF IInv

LEMMA AckType ==
    ASSUME TypeOK, NEW h \in Handler PROVE acked \cup task[h].edit \subseteq Edit
BY DEF TypeOK, Task

LEMMA RecordMoveKeeps ==
    ASSUME IInv, NEW h \in Handler, RecordMove(h) PROVE IInv'
<1>1. /\ table' = Record(table, task[h].id, task[h].target)
      /\ acked' = acked \cup task[h].edit /\ Become(h, Idle)
      /\ UNCHANGED <<kind, object, stamp, known, asked, destroyed, overlapped,
                     faults>>
  BY DEF RecordMove, Answered
<1>2. task[h].id \in Calendar /\ task[h].target \in Calendar
  BY DEF IInv, TypeOK, Task
<1>3. /\ table' \in Seq([old : Calendar, new : Calendar]) /\ IsTable(table')
      /\ Len(table') <= MaxEntries
  <2>1. /\ table \in Seq([old : Calendar, new : Calendar]) /\ IsTable(table)
        /\ Len(table) <= MaxEntries
    BY DEF IInv, TypeOK
  <2>2. LET t == Record(table, task[h].id, task[h].target)
        IN  /\ t \in Seq([old : Calendar, new : Calendar]) /\ IsTable(t)
            /\ Len(t) <= MaxEntries
    BY <2>1, <1>2, RecordKeepsTable
  <2> QED BY <1>1, <2>2, Zenon
<1>4. acked' \subseteq Edit /\ faults' \in 0..MaxFaults /\ Idle.pc = "idle"
  BY <1>1, AckType DEF IInv, TypeOK, Idle
<1> QED BY <1>1, <1>3, <1>4, IdleType, QuietKeeps

\* The table and the counters of a step that leaves them.
LEMMA Kept ==
    ASSUME IInv, UNCHANGED <<table, asked, faults>>
    PROVE  /\ table' \in Seq([old : Calendar, new : Calendar]) /\ IsTable(table')
           /\ Len(table') <= MaxEntries
           /\ asked' \in 0..MaxAsks /\ faults' \in 0..MaxFaults
BY DEF IInv, TypeOK, IsTable

LEMMA TagKeeps == ASSUME IInv, NEW h \in Handler, Tag(h) PROVE IInv'
<1> DEFINE t == task[h]
           u == [t EXCEPT !.pc = "save", !.etag = object[t.at].etag]
<1>1. /\ UNCHANGED <<kind, object, stamp, table, known, asked, acked, destroyed,
                     overlapped, faults>>
      /\ (t.at \in DOMAIN object /\ Become(h, u)) \/ Become(h, Idle)
  BY DEF Tag
<1>2. acked' \subseteq Edit
  BY <1>1 DEF IInv, TypeOK
<1>3. CASE Become(h, Idle)
  <2>1. Idle.pc = "idle"
    BY DEF Idle
  <2> QED BY <1>1, <1>2, <1>3, <2>1, IdleType, Kept, QuietKeeps
<1>4. CASE t.at \in DOMAIN object /\ Become(h, u)
  <2>1. t \in Task /\ object[t.at].etag \in Nat
    BY <1>4 DEF IInv, TypeOK
  <2>2. u \in Task /\ u.pc = "save"
    BY <2>1 DEF Task, Phase
  <2> HIDE DEF u, t
  <2> QED BY <1>1, <1>2, <1>4, <2>2, Kept, QuietKeeps
<1> QED BY <1>1, <1>3, <1>4

\* The PUT of an update, answered.
LEMMA WriteKeeps ==
    ASSUME IInv, NEW h \in Handler, Put(task[h].at, task[h].text), Answered(h),
           UNCHANGED <<kind, table, known, asked, destroyed, overlapped,
                       faults>>
    PROVE  IInv'
<1>1. task[h].at \in Calendar /\ task[h].text \in SUBSET Edit
  BY DEF IInv, TypeOK, Task
<1>2. acked' \subseteq Edit /\ Become(h, Idle)
  BY AckType DEF Answered, IInv
<1>3. /\ task' \in [Handler -> Task] /\ task'[h] = Idle
      /\ \A k \in Handler : k # h => task'[k] = task[k]
  BY <1>2, IdleType, BecomeType DEF IInv
<1>4. Idle.pc = "idle"
  BY DEF Idle
<1> QED BY <1>1, <1>2, <1>3, <1>4, Kept, PutKeeps

LEMMA SaveKeeps == ASSUME IInv, NEW h \in Handler, Save(h) PROVE IInv'
<1>1. CASE Put(task[h].at, task[h].text) /\ Answered(h)
  BY <1>1, WriteKeeps DEF Save
<1>2. CASE Become(h, Idle) /\ UNCHANGED <<object, stamp, acked>>
  <2>1. acked' \subseteq Edit /\ Idle.pc = "idle"
    BY <1>2 DEF IInv, TypeOK, Idle
  <2> QED BY <1>2, <2>1, IdleType, Kept, QuietKeeps DEF Save
<1> QED BY <1>1, <1>2 DEF Save

LEMMA DestroyNowKeeps ==
    ASSUME IInv, NEW h \in Handler, DestroyNow(h) PROVE IInv'
<1>1. /\ Remove(task[h].at) /\ Become(h, Idle) /\ destroyed /\ destroyed'
      /\ UNCHANGED <<kind, stamp, table, known, asked, acked, overlapped,
                     faults>>
  BY DEF DestroyNow, IInv, Onward
<1>2. /\ task' \in [Handler -> Task] /\ task'[h] = Idle
      /\ \A k \in Handler : k # h => task'[k] = task[k]
  BY <1>1, IdleType, BecomeType DEF IInv
<1>3. /\ DOMAIN object' = DOMAIN object \ {task[h].at}
      /\ DOMAIN object' \subseteq Calendar
      /\ \A x \in DOMAIN object' : object'[x] = object[x]
  BY <1>1, RemoveType DEF IInv
<1>4. TypeOK'
  BY <1>1, <1>2, <1>3 DEF IInv, TypeOK, DestroyNow
<1>5. Onward'
  <2>1. Idle.pc = "idle"
    BY DEF Idle
  <2> QED BY <1>1, <1>2, <2>1 DEF Onward, IInv, At
<1> QED BY <1>1, <1>4, <1>5 DEF IInv, Survives, CopyAhead

LEMMA FailKeeps == ASSUME IInv, NEW h \in Handler, Fail(h) PROVE IInv'
<1>1. /\ Become(h, Idle) /\ faults' \in 0..MaxFaults
      /\ UNCHANGED <<kind, object, stamp, table, known, asked, acked, destroyed,
                     overlapped>>
  BY FaultType DEF Fail, IInv
<1>2. acked' \subseteq Edit /\ Idle.pc = "idle"
  BY <1>1 DEF IInv, TypeOK, Idle
<1>3. /\ table' \in Seq([old : Calendar, new : Calendar]) /\ IsTable(table')
      /\ Len(table') <= MaxEntries
  BY <1>1 DEF IInv, TypeOK, IsTable
<1> QED BY <1>1, <1>2, <1>3, IdleType, QuietKeeps

LEMMA RestartKeeps == ASSUME IInv, Restart PROVE IInv'
<1>1. /\ task' = [h \in Handler |-> Idle] /\ table' = << >>
      /\ faults' \in 0..MaxFaults
      /\ UNCHANGED <<kind, object, stamp, known, asked, acked, destroyed,
                     overlapped>>
  BY FaultType DEF Restart, IInv
<1>2. \A h \in Handler : task'[h].pc = "idle"
  BY <1>1 DEF Idle
<1>3. TypeOK'
  BY <1>1, IdleType, RedirectAssumption DEF IInv, TypeOK, IsTable
<1> QED BY <1>1, <1>2, <1>3 DEF IInv, Onward, Survives, CopyAhead, At

LEMMA EditElsewhereKeeps ==
    ASSUME IInv, NEW c \in Calendar, EditElsewhere(c) PROVE IInv'
<1> DEFINE text == object[c].text \cup {asked + 1}
<1>1. /\ c \in DOMAIN object /\ Put(c, text)
      /\ asked' \in 0..MaxAsks /\ asked + 1 \in Edit
      /\ acked' = acked \cup {asked + 1}
      /\ UNCHANGED <<kind, table, task, known, destroyed, overlapped, faults>>
  BY AskType DEF EditElsewhere, IInv
<1>2. text \in SUBSET Edit /\ acked' \subseteq Edit
  BY <1>1 DEF IInv, TypeOK
<1>3. task' \in [Handler -> Task] /\ faults' \in 0..MaxFaults
  BY <1>1 DEF IInv, TypeOK
<1> QED BY <1>1, <1>2, <1>3, PutKeeps

LEMMA InitIInv == Init => IInv
<1> SUFFICES ASSUME Init PROVE IInv
  OBVIOUS
<1>1. /\ DOMAIN object = {Home} /\ object[Home] = Resource(0, {})
      /\ task = [h \in Handler |-> Idle] /\ table = << >>
  BY DEF Init
<1>2. \A h \in Handler : task[h].pc = "idle"
  BY <1>1 DEF Idle
<1>3. TypeOK
  <2>1. /\ table \in Seq([old : Calendar, new : Calendar])
        /\ IsTable(table) /\ Len(table) <= MaxEntries
    BY <1>1, RedirectAssumption DEF IsTable
  <2>2. /\ stamp = 0 /\ stamp \in Nat /\ 0 \in 0..stamp
        /\ asked \in 0..MaxAsks /\ faults \in 0..MaxFaults
    BY EventAssumption DEF Init
  <2>3. \A c \in DOMAIN object : object[c].etag = 0 /\ object[c].text = {}
    BY <1>1 DEF Resource
  <2> QED BY <1>1, <2>1, <2>2, <2>3, IdleType, EventAssumption DEF Init, TypeOK
<1> QED BY <1>1, <1>2, <1>3 DEF IInv, Onward, Survives, CopyAhead, At

LEMMA NextIInv == ASSUME Forward PROVE IInv /\ [Next]_vars => IInv'
<1> SUFFICES ASSUME IInv, [Next]_vars PROVE IInv'
  OBVIOUS
<1>1. ASSUME NEW h \in Handler, Step(h) PROVE IInv'
  <2>1. ASSUME NEW id \in Calendar, NEW target \in Calendar,
               NEW edit \in {{}, {asked + 1}}, Update(h, id, target, edit)
        PROVE  IInv'
    BY <2>1, UpdateKeeps
  <2>2. CASE Overwrite(h)
    BY <2>2, WriteKeeps DEF Overwrite
  <2> QED BY <1>1, <2>1, <2>2, DestroyKeeps, LoadKeeps, CreateKeeps, DeleteKeeps,
             DeleteRefusedKeeps, RecordMoveKeeps, TagKeeps, SaveKeeps, DestroyNowKeeps, FailKeeps
          DEF Step
<1>2. CASE Restart
  BY <1>2, RestartKeeps
<1>3. ASSUME NEW c \in Calendar, EditElsewhere(c) PROVE IInv'
  BY <1>3, EditElsewhereKeeps
<1>4. ASSUME NEW c \in Calendar, List(c) PROVE IInv'
  BY <1>4 DEF List, IInv, TypeOK, IsTable, Onward, Survives, CopyAhead, At
<1>5. CASE UNCHANGED vars
  BY <1>5 DEF vars, IInv, TypeOK, IsTable, Onward, Survives, CopyAhead, At
<1> QED BY <1>1, <1>2, <1>3, <1>4, <1>5 DEF Next

\* With moves that lead forward only, no interleaving of moves, edits,
\* failures and restarts leaves the event nowhere, for any number of
\* handlers and calendars, with or without If-Match.
THEOREM EventSurvives ==
    ASSUME Forward PROVE Spec => [](TypeOK /\ Survives)
<1>1. IInv => TypeOK /\ Survives
  BY DEF IInv
<1>2. IInv /\ [Next]_vars => IInv'
  BY NextIInv
<1> QED BY <1>1, <1>2, InitIInv, PTL DEF Spec

-----------------------------------------------------------------------------
(***************************************************************************)
(* While requests do not overlap and nothing fails, the redirects lead     *)
(* from the event's first id to the calendar it is in, or is moving from.  *)
(***************************************************************************)

\* There is room for a redirect from every calendar.
Roomy == IsFiniteSet(Calendar) /\ Cardinality(Calendar) <= MaxEntries

\* What Resolvable is about.
Quiet == ~destroyed /\ ~overlapped /\ faults = 0

Alone ==
    \A h, k \in Handler : ~At(h, "idle") /\ ~At(k, "idle") => h = k

\* The event is in one calendar, except in the middle of a move.
IsAt(here) ==
    \/ /\ DOMAIN object = {here}
       /\ \A h \in Handler : ~At(h, "delete") /\ ~At(h, "record")
    \/ \E h \in Handler : At(h, "delete") /\ DOMAIN object = {here, task[h].target}
    \/ \E h \in Handler : At(h, "record") /\ DOMAIN object = {task[h].target}

\* What a handler has resolved still holds, and what it has loaded is the
\* event.
Follow(here) ==
    \A h \in Handler :
        /\ ~At(h, "idle") => task[h].at = Resolve(table, task[h].id)
        /\ ~At(h, "idle") /\ ~At(h, "load") => task[h].at = here
        /\ At(h, "create") \/ At(h, "delete") \/ At(h, "record")
              => task[h].at < task[h].target

Located(here) == Leads(table, Home, here) /\ IsAt(here) /\ Follow(here)

Locatable == Quiet => Alone /\ \E here \in Calendar : Located(here)

ResolveIInv == IInv /\ Locatable

LEMMA LocatableResolves == Locatable => Resolvable
<1> SUFFICES ASSUME Locatable, Quiet, \A h \in Handler : ~At(h, "record")
             PROVE  Resolve(table, Home) \in DOMAIN object
  BY DEF Resolvable, Quiet
<1>1. PICK here \in Calendar : Located(here)
  BY DEF Locatable
<1>2. Resolve(table, Home) = here
  BY <1>1, LeadsThere DEF Located
<1>3. here \in DOMAIN object
  BY <1>1 DEF Located, IsAt
<1> QED BY <1>2, <1>3

LEMMA InitLocatable == Init => Locatable
<1> SUFFICES ASSUME Init PROVE Locatable
  OBVIOUS
<1>1. /\ DOMAIN object = {Home} /\ table = << >> /\ Home \in Calendar
      /\ \A h \in Handler : At(h, "idle") /\ ~At(h, "load") /\ ~At(h, "create")
                            /\ ~At(h, "delete") /\ ~At(h, "record")
  BY EventAssumption DEF Init, Idle, At
<1>2. Entries(table) = {} /\ Olds(table) = {}
  BY <1>1 DEF Entries, Olds
<1>3. Chain(table, Home) = {Home}
  <2>1. Closed(table, Home, {Home})
    BY <1>2 DEF Closed
  <2> QED BY <2>1, ChainWithin, ChainCloses DEF Closed
<1>4. Leads(table, Home, Home)
  BY <1>2, <1>3 DEF Leads
<1> QED BY <1>1, <1>4 DEF Locatable, Located, IsAt, Follow, Alone

\* A handler's step in a quiet behaviour: it is the only one.
LEMMA OthersIdle ==
    ASSUME Alone, NEW h \in Handler, ~At(h, "idle"), NEW k \in Handler, k # h
    PROVE  task[k].pc = "idle"
BY DEF Alone, At

\* A handler that works, and where the event is then.
LEMMA Working ==
    ASSUME Locatable, Quiet, NEW h \in Handler, ~At(h, "idle")
    PROVE  /\ \A k \in Handler : k # h => task[k].pc = "idle"
           /\ \E here \in Calendar :
                 /\ Leads(table, Home, here)
                 /\ task[h].at = Resolve(table, task[h].id)
                 /\ ~At(h, "load") => task[h].at = here
                 /\ At(h, "create") \/ At(h, "delete") \/ At(h, "record")
                       => task[h].at < task[h].target
                 /\ DOMAIN object =
                       IF At(h, "delete") THEN {here, task[h].target}
                       ELSE IF At(h, "record") THEN {task[h].target}
                       ELSE {here}
<1>1. Alone /\ \E here \in Calendar : Located(here)
  BY DEF Locatable
<1>2. \A k \in Handler : k # h => task[k].pc = "idle"
  BY <1>1, OthersIdle
<1>3. PICK here \in Calendar : Located(here)
  BY <1>1
<1>4. DOMAIN object = IF At(h, "delete") THEN {here, task[h].target}
                      ELSE IF At(h, "record") THEN {task[h].target}
                      ELSE {here}
  BY <1>2, <1>3 DEF Located, IsAt, At
<1> QED BY <1>2, <1>3, <1>4 DEF Located, Follow

\* The converse: what a step of the only handler that works has to leave.
LEMMA Settles ==
    ASSUME NEW h \in Handler, \A k \in Handler : k # h => task'[k].pc = "idle",
           NEW here \in Calendar, Leads(table', Home, here),
           task'[h].pc # "idle" => task'[h].at = Resolve(table', task'[h].id),
           task'[h].pc \notin {"idle", "load"} => task'[h].at = here,
           task'[h].pc \in {"create", "delete", "record"}
              => task'[h].at < task'[h].target,
           DOMAIN object' = IF task'[h].pc = "delete" THEN {here, task'[h].target}
                            ELSE IF task'[h].pc = "record" THEN {task'[h].target}
                            ELSE {here}
    PROVE  Locatable'
<1>1. Alone'
  BY DEF Alone, At
<1>2. Located(here)'
  <2>1. Leads(table', Home, here)
    OBVIOUS
  <2>2. Follow(here)'
    BY DEF Follow, At
  <2>3. IsAt(here)'
    <3>1. CASE task'[h].pc = "delete"
      BY <3>1 DEF IsAt, At
    <3>2. CASE task'[h].pc = "record"
      BY <3>2 DEF IsAt, At
    <3>3. CASE task'[h].pc \notin {"delete", "record"}
      BY <3>3 DEF IsAt, At
    <3> QED BY <3>1, <3>2, <3>3
  <2> QED BY <2>1, <2>2, <2>3 DEF Located
<1> QED BY <1>1, <1>2 DEF Locatable

LEMMA SameLocated ==
    ASSUME Locatable, UNCHANGED <<table, task>>, DOMAIN object' = DOMAIN object,
           Quiet
    PROVE  Locatable'
BY DEF Locatable, Located, Alone, IsAt, Follow, At

LEMMA UpdateLocates ==
    ASSUME IInv, Locatable, Quiet', NEW h \in Handler, NEW id \in Calendar,
           NEW target \in Calendar, NEW edit \in {{}, {asked + 1}},
           Update(h, id, target, edit)
    PROVE  Locatable'
<1> DEFINE t == [pc |-> "load", id |-> id, at |-> Resolve(table, id),
                 target |-> target, edit |-> edit, text |-> {}, etag |-> 0]
<1>1. /\ Become(h, t) /\ UNCHANGED <<object, table, destroyed, faults>>
      /\ overlapped' = (overlapped \/ \E k \in Handler : ~At(k, "idle"))
  BY DEF Update
<1>2. Quiet /\ \A k \in Handler : task[k].pc = "idle"
  BY <1>1 DEF Quiet, At
<1>3. t \in Task
  BY ResolveType, AskType DEF IInv, Update, Task, Phase
<1>4. /\ t.pc = "load" /\ t.at = Resolve(table, t.id)
  OBVIOUS
<1> HIDE DEF t
<1>5. task'[h] = t /\ \A k \in Handler : k # h => task'[k] = task[k]
  BY <1>1, <1>3, BecomeType DEF IInv
<1>6. PICK here \in Calendar : Leads(table, Home, here) /\ DOMAIN object = {here}
  BY <1>2 DEF Locatable, Located, IsAt, At
<1> QED BY <1>1, <1>2, <1>4, <1>5, <1>6, Settles

\* A step of a handler in the middle of its update that leaves the table.
LEMMA OnwardLocates ==
    ASSUME IInv, IInv', Locatable, Quiet, NEW h \in Handler, NEW u \in Task,
           Become(h, u), UNCHANGED table,
           ~At(h, "idle"), ~At(h, "record"),
           u.pc # "idle" => u.at = task[h].at /\ u.id = task[h].id /\ u.target = task[h].target,
           u.pc \notin {"idle", "load"} => task[h].at \in DOMAIN object,
           u.pc = "delete" => At(h, "create"),
           u.pc = "record" => At(h, "delete"),
           At(h, "delete") => u.pc = "record",
           DOMAIN object' = IF u.pc = "delete" THEN DOMAIN object \cup {u.target}
                            ELSE IF u.pc = "record" THEN DOMAIN object \ {u.at}
                            ELSE DOMAIN object
    PROVE  Locatable'
<1>1. task'[h] = u /\ \A k \in Handler : k # h => task'[k] = task[k]
  BY BecomeType DEF IInv
<1>2. PICK here \in Calendar :
         /\ Leads(table, Home, here)
         /\ task[h].at = Resolve(table, task[h].id)
         /\ ~At(h, "load") => task[h].at = here
         /\ At(h, "create") \/ At(h, "delete") \/ At(h, "record")
               => task[h].at < task[h].target
         /\ DOMAIN object = IF At(h, "delete") THEN {here, task[h].target}
                            ELSE IF At(h, "record") THEN {task[h].target}
                            ELSE {here}
  BY Working
<1>3. \A k \in Handler : k # h => task'[k].pc = "idle"
  BY <1>1, Working
<1>4. u.pc \notin {"idle", "load"} => u.at = here
  BY <1>2 DEF At
<1>5. u.pc \in {"create", "delete", "record"} => u.at < u.target
  <2>1. u.pc = "create" => u.at < u.target
    BY <1>1 DEF IInv, Onward, At
  <2> QED BY <1>2, <2>1
<1>6. u.at \in Int /\ u.target \in Int
  <2>1. u.at \in Calendar /\ u.target \in Calendar
    BY DEF Task
  <2>2. \A c \in Calendar : c \in Int
    BY EventAssumption
  <2> QED BY <2>1, <2>2
<1>7. DOMAIN object' = IF u.pc = "delete" THEN {here, u.target}
                       ELSE IF u.pc = "record" THEN {u.target} ELSE {here}
  <2>1. CASE u.pc = "delete"
    BY <1>2, <2>1 DEF At
  <2>2. CASE u.pc = "record"
    <3>1. u.at # u.target
      BY <1>5, <1>6, <2>2
    <3>2. DOMAIN object = {here, u.target} /\ u.at = here
      BY <1>2, <1>4, <2>2 DEF At
    <3> QED BY <2>2, <3>1, <3>2
  <2>3. CASE u.pc \notin {"delete", "record"}
    BY <1>2, <2>3 DEF At
  <2> QED BY <2>1, <2>2, <2>3
<1> QED BY <1>1, <1>2, <1>3, <1>4, <1>5, <1>7, Settles

LEMMA LoadLocates ==
    ASSUME IInv, IInv', Locatable, Quiet', NEW h \in Handler, Load(h)
    PROVE  Locatable'
<1> DEFINE t == task[h]
           then == IF Moving(h) THEN "create"
                   ELSE IF kind = "event" THEN "tag" ELSE "overwrite"
           u == [t EXCEPT !.pc = then, !.text = object[t.at].text \cup t.edit]
<1>1. /\ UNCHANGED <<object, table, destroyed, overlapped, faults>>
      /\ (t.at \in DOMAIN object /\ Become(h, u)) \/ Become(h, Idle)
      /\ t.pc = "load"
  BY DEF Load, At
<1>2. Quiet
  BY <1>1 DEF Quiet
<1>3. CASE Become(h, Idle)
  <2>1. Idle.pc = "idle"
    BY DEF Idle
  <2> QED BY <1>1, <1>2, <1>3, <2>1, IdleType, OnwardLocates DEF At
<1>4. CASE t.at \in DOMAIN object /\ Become(h, u)
  <2>1. t \in Task /\ object[t.at].text \subseteq Edit
    BY <1>4 DEF IInv, TypeOK
  <2>2. t.edit \subseteq Edit
    BY <2>1 DEF Task
  <2>3. object[t.at].text \cup t.edit \in SUBSET Edit
    BY <2>1, <2>2
  <2>4. then \in {"create", "tag", "overwrite"}
    OBVIOUS
  <2> HIDE DEF then
  <2>5. /\ u \in Task /\ u.pc = then
        /\ u.at = t.at /\ u.target = t.target /\ u.id = t.id
    BY <2>1, <2>3, <2>4 DEF Task, Phase
  <2> HIDE DEF u
  <2> QED BY <1>1, <1>2, <1>4, <2>4, <2>5, OnwardLocates DEF At
<1> QED BY <1>1, <1>3, <1>4

LEMMA CreateLocates ==
    ASSUME IInv, IInv', Locatable, Quiet', NEW h \in Handler, Create(h)
    PROVE  Locatable'
<1> DEFINE t == task[h]  u == [t EXCEPT !.pc = "delete"]
<1>1. /\ Put(t.target, t.text) /\ Become(h, u) /\ t.pc = "create"
      /\ UNCHANGED <<table, destroyed, overlapped, faults>>
  BY DEF Create, At
<1>2. t \in Task
  BY DEF IInv, TypeOK
<1>3. /\ u \in Task /\ u.pc = "delete"
      /\ u.at = t.at /\ u.target = t.target /\ u.id = t.id
  BY <1>2 DEF Task, Phase
<1>4. t.target \in Calendar /\ t.text \in SUBSET Edit
  BY <1>2 DEF Task
<1>5. DOMAIN object' = DOMAIN object \cup {t.target}
  BY <1>1, <1>4, PutType DEF IInv
<1>6. Quiet
  BY <1>1 DEF Quiet
<1>7. t.at \in DOMAIN object
  BY <1>1, <1>6, Working DEF At
<1> HIDE DEF u
<1> QED BY <1>1, <1>3, <1>5, <1>6, <1>7, OnwardLocates DEF At

LEMMA DeleteLocates ==
    ASSUME IInv, IInv', Locatable, Quiet', NEW h \in Handler, Delete(h)
    PROVE  Locatable'
<1> DEFINE t == task[h]  u == [t EXCEPT !.pc = "record"]
<1>1. /\ Remove(t.at) /\ Become(h, u) /\ t.pc = "delete"
      /\ UNCHANGED <<table, destroyed, overlapped, faults>>
  BY DEF Delete, At
<1>2. /\ u \in Task /\ u.pc = "record"
      /\ u.at = t.at /\ u.target = t.target /\ u.id = t.id
  <2>1. t \in Task
    BY DEF IInv, TypeOK
  <2> QED BY <2>1 DEF Task, Phase
<1>3. DOMAIN object' = DOMAIN object \ {t.at}
  BY <1>1, RemoveType DEF IInv
<1>4. Quiet
  BY <1>1 DEF Quiet
<1>5. t.at \in DOMAIN object
  BY <1>1, <1>4, Working DEF At
<1> HIDE DEF u
<1> QED BY <1>1, <1>2, <1>3, <1>4, <1>5, OnwardLocates DEF At

LEMMA RecordMoveLocates ==
    ASSUME Roomy, IInv, Locatable, Quiet', NEW h \in Handler, RecordMove(h)
    PROVE  Locatable'
<1> DEFINE id == task[h].id  target == task[h].target
<1>1. /\ table' = Record(table, id, target) /\ Become(h, Idle)
      /\ At(h, "record")
      /\ UNCHANGED <<object, destroyed, overlapped, faults>>
  BY DEF RecordMove, Answered
<1>2. Quiet /\ ~At(h, "idle") /\ ~At(h, "load") /\ ~At(h, "delete")
  BY <1>1 DEF Quiet, At
<1>3. PICK here \in Calendar :
         /\ Leads(table, Home, here)
         /\ Resolve(table, id) = here /\ here < target
         /\ DOMAIN object = {target}
  BY <1>1, <1>2, Working
<1>4. /\ id \in Calendar /\ target \in Calendar /\ Home \in Calendar
      /\ table \in Seq([old : Calendar, new : Calendar]) /\ IsTable(table)
  BY EventAssumption DEF IInv, TypeOK, Task
<1>5. id \in Chain(table, Home)
  BY <1>3, OnTheWay
<1>6. id # target
  <2>1. id <= here
    <3>1. Calendar \in SUBSET Int
      BY EventAssumption
    <3> HIDE DEF id, target
    <3> QED BY <1>3, <1>4, <1>5, <3>1, LeadsUp
  <2>2. id \in Int /\ target \in Int /\ here \in Int
    <3>1. \A c \in Calendar : c \in Int
      BY EventAssumption
    <3> HIDE DEF id, target
    <3> QED BY <1>4, <3>1
  <2> QED BY <1>3, <2>1, <2>2
<1>7. Entries(table') = {e \in Entries(table) : e.old # id} \cup {[old |-> id, new |-> target]}
  BY <1>1, <1>4, <1>6, RecordsEntry DEF Roomy
<1>8. Leads(table', Home, target)
  <2>1. Calendar \in SUBSET Int
    BY EventAssumption
  <2> HIDE DEF id, target
  <2> QED BY <1>3, <1>4, <1>5, <1>7, <2>1, RecordLeads
<1>9. /\ task'[h] = Idle /\ \A k \in Handler : k # h => task'[k].pc = "idle"
  BY <1>1, <1>2, IdleType, BecomeType, Working DEF IInv
<1>10. Idle.pc = "idle"
  BY DEF Idle
<1> QED BY <1>1, <1>3, <1>4, <1>8, <1>9, <1>10, Settles

\* The steps that leave the table and where the event is.
LEMMA StayLocates ==
    ASSUME IInv, IInv', Locatable, Quiet', NEW h \in Handler,
           Tag(h) \/ Save(h) \/ Overwrite(h)
    PROVE  Locatable'
<1> DEFINE t == task[h]
<1>1. /\ UNCHANGED <<table, destroyed, overlapped, faults>>
      /\ t.pc \in {"tag", "save", "overwrite"}
  BY DEF Tag, Save, Overwrite, At
<1>2. Quiet /\ t \in Task
  BY <1>1 DEF Quiet, IInv, TypeOK
<1>3. t.at \in DOMAIN object
  BY <1>1, <1>2, Working DEF At
<1>4. PICK u \in Task : /\ Become(h, u)
                        /\ u.pc \in {"idle", "save"}
                        /\ u.pc = "save" => u.at = t.at /\ u.id = t.id /\ u.target = t.target
  <2>1. CASE Tag(h)
    <3>1. object[t.at].etag \in Nat
      BY <1>3 DEF IInv, TypeOK
    <3> DEFINE u == [t EXCEPT !.pc = "save", !.etag = object[t.at].etag]
    <3>2. /\ u \in Task /\ u.pc = "save"
          /\ u.at = t.at /\ u.target = t.target /\ u.id = t.id
      BY <1>2, <3>1 DEF Task, Phase
    <3>3. Become(h, u)
      BY <1>3, <2>1 DEF Tag
    <3> HIDE DEF u
    <3> QED BY <3>2, <3>3
  <2>2. CASE Become(h, Idle)
    <3>1. Idle.pc = "idle"
      BY DEF Idle
    <3> QED BY <2>2, <3>1, IdleType
  <2> QED BY <2>1, <2>2 DEF Save, Overwrite, Answered
<1>5. DOMAIN object' = DOMAIN object
  <2>1. t.at \in Calendar /\ t.text \in SUBSET Edit
    BY <1>2 DEF Task
  <2>2. CASE Put(t.at, t.text)
    <3>1. DOMAIN object' = DOMAIN object \cup {t.at}
      BY <2>1, <2>2, PutType DEF IInv
    <3> QED BY <1>3, <3>1
  <2>3. CASE UNCHANGED object
    BY <2>3
  <2> QED BY <2>2, <2>3 DEF Tag, Save, Overwrite
<1> QED BY <1>1, <1>2, <1>3, <1>4, <1>5, OnwardLocates DEF At

LEMMA NextLocatable ==
    ASSUME Forward, Roomy PROVE ResolveIInv /\ [Next]_vars => ResolveIInv'
<1> SUFFICES ASSUME ResolveIInv, [Next]_vars, IInv', Quiet' PROVE Locatable'
  BY NextIInv DEF ResolveIInv, Locatable
<1> USE DEF ResolveIInv
<1>1. ASSUME NEW h \in Handler, Step(h) PROVE Locatable'
  <2>1. ASSUME NEW id \in Calendar, NEW target \in Calendar,
               NEW edit \in {{}, {asked + 1}}, Update(h, id, target, edit)
        PROVE  Locatable'
    BY <2>1, UpdateLocates
  <2>2. ASSUME NEW id \in Calendar, Destroy(h, id) PROVE FALSE
    BY <2>2 DEF Destroy, Quiet
  <2>3. CASE DestroyNow(h)
    BY <2>3 DEF DestroyNow, IInv, Onward, Quiet
  <2>4. CASE Fail(h) \/ DeleteRefused(h)
    <3>1. faults \in Nat /\ faults' = faults + 1
      BY <2>4, EventAssumption DEF Fail, DeleteRefused, Fault, IInv, TypeOK
    <3> QED BY <3>1 DEF Quiet
  <2> QED BY <1>1, <2>1, <2>2, <2>3, <2>4, LoadLocates, CreateLocates,
             DeleteLocates, RecordMoveLocates, StayLocates
          DEF Step
<1>2. CASE Restart
  <2>1. faults \in Nat /\ faults' = faults + 1
    BY <1>2, EventAssumption DEF Restart, Fault, IInv, TypeOK
  <2> QED BY <2>1 DEF Quiet
<1>3. ASSUME NEW c \in Calendar, EditElsewhere(c) PROVE Locatable'
  <2> DEFINE text == object[c].text \cup {asked + 1}
  <2>1. /\ c \in DOMAIN object /\ Put(c, text) /\ asked + 1 \in Edit
        /\ UNCHANGED <<table, task, destroyed, overlapped, faults>>
    BY <1>3, AskType DEF EditElsewhere, IInv
  <2>2. text \in SUBSET Edit
    BY <2>1 DEF IInv, TypeOK
  <2>3. DOMAIN object' = DOMAIN object \cup {c}
    BY <2>1, <2>2, PutType DEF IInv
  <2> QED BY <2>1, <2>3, SameLocated DEF Quiet
<1>4. ASSUME NEW c \in Calendar, List(c) PROVE Locatable'
  BY <1>4, SameLocated DEF List, Quiet
<1>5. CASE UNCHANGED vars
  BY <1>5, SameLocated DEF vars, Quiet
<1> QED BY <1>1, <1>2, <1>3, <1>4, <1>5 DEF Next

\* With moves that lead forward only and room in the table for a redirect
\* from every calendar, the first id resolves to where the event is: after
\* any number of moves, edits and edits elsewhere, one after the other,
\* whichever of its ids they name, for any number of handlers and calendars
\* (id_redirect.py:32, 41; calendar_event.py:9).
THEOREM EventResolvable ==
    ASSUME Forward, Roomy PROVE Spec => []Resolvable
<1>1. Init => ResolveIInv
  BY InitIInv, InitLocatable DEF ResolveIInv
<1>2. ResolveIInv /\ [Next]_vars => ResolveIInv'
  BY NextLocatable
<1>3. ResolveIInv => Resolvable
  BY LocatableResolves DEF ResolveIInv
<1> QED BY <1>1, <1>2, <1>3, PTL DEF Spec

-----------------------------------------------------------------------------
(***************************************************************************)
(* A recurring event: what the object stores of each occurrence is what    *)
(* the patches made of it, and what is read is what is stored.             *)
(***************************************************************************)

Starts == Key \cup Time
Occurrence == [title : Title, start : Starts]

\* What an entry says of an occurrence that is not excluded.
IsPatch(e) ==
    /\ e = [p \in DOMAIN e |-> e[p]] /\ DOMAIN e \subseteq Recurring!Props
    /\ "title" \in DOMAIN e => e["title"] \in Title
    /\ "start" \in DOMAIN e => e["start"] \in Starts

\* The object and what it should show.
Held ==
    /\ cal.title \in Title /\ cal.exdates \subseteq Key /\ DOMAIN cal.changed \subseteq Key
    /\ cal = [title |-> cal.title, exdates |-> cal.exdates, changed |-> cal.changed]
    /\ \A k \in DOMAIN cal.changed : cal.changed[k].props \in Occurrence
    /\ shown = [k \in Key |-> shown[k]]
    /\ \A k \in Key : Recurring!Stored(k) = shown[k]

\* An occurrence as an entry leaves it.
Filled(title, k, e) ==
    [title |-> IF "title" \in DOMAIN e THEN e["title"] ELSE title,
     start |-> IF "start" \in DOMAIN e THEN e["start"] ELSE k]

LEMMA PropsAre == Recurring!Props = {"title", "start"}
BY DEF Recurring!Props, Recurring!Value

LEMMA FillsIn ==
    ASSUME NEW e, IsPatch(e), NEW title \in Title, NEW k \in Key
    PROVE  /\ Recurring!Over(e, Recurring!Natural(title, k)) = Filled(title, k, e)
           /\ Recurring!Over(Recurring!Restrict(e, DOMAIN e \cap Recurring!Props),
                             Recurring!Natural(title, k)) = Filled(title, k, e)
           /\ Filled(title, k, e) \in Occurrence
           /\ e # Recurring!Excluded /\ "excluded" \notin DOMAIN e
           /\ Filled(title, k, e) # Recurring!Excluded
<1>1. /\ DOMAIN e \subseteq {"title", "start"}
      /\ e = [p \in DOMAIN e |-> e[p]]
  BY PropsAre DEF IsPatch
<1>2. /\ Recurring!Natural(title, k)["title"] = title /\ Recurring!Natural(title, k)["start"] = k
      /\ DOMAIN Recurring!Natural(title, k) = {"title", "start"}
  BY DEF Recurring!Natural
<1>3. Recurring!Over(e, Recurring!Natural(title, k))
         = [p \in {"title", "start"} |->
               IF p \in DOMAIN e THEN e[p] ELSE Recurring!Natural(title, k)[p]]
  BY <1>1, <1>2 DEF Recurring!Over
<1>4. Filled(title, k, e)
         = [p \in {"title", "start"} |->
               IF p \in DOMAIN e THEN e[p] ELSE Recurring!Natural(title, k)[p]]
  BY <1>2 DEF Filled
<1>5. Recurring!Restrict(e, DOMAIN e \cap Recurring!Props) = e
  <2>1. DOMAIN e \cap Recurring!Props = DOMAIN e
    BY DEF IsPatch
  <2> QED BY <1>1, <2>1 DEF Recurring!Restrict
<1>6. "excluded" \notin DOMAIN e /\ "excluded" \in DOMAIN Recurring!Excluded
  BY <1>1 DEF Recurring!Excluded
<1>7. Filled(title, k, e) \in Occurrence
  BY DEF IsPatch, Filled, Occurrence, Starts
<1>8. DOMAIN Filled(title, k, e) = {"title", "start"}
  BY DEF Filled
<1>9. Filled(title, k, e) # Recurring!Excluded
  BY <1>6, <1>8
<1> QED BY <1>3, <1>4, <1>5, <1>6, <1>7, <1>9

LEMMA PatchSays ==
    ASSUME NEW v \in Occurrence, NEW title \in Title, NEW k \in Key
    PROVE  /\ IsPatch(Recurring!OverridePatch(v, title, k))
           /\ \A new \in Title : Filled(new, k, Recurring!OverridePatch(v, title, k))
                 = IF v.title = title THEN [v EXCEPT !.title = new] ELSE v
<1> DEFINE e == Recurring!OverridePatch(v, title, k)
           S == {p \in {"title", "start"} : v[p] # Recurring!Natural(title, k)[p]}
<1>1. e = [p \in S |-> v[p]]
  BY PropsAre DEF Recurring!OverridePatch, Recurring!Restrict
<1>2. /\ "title" \in S <=> v.title # title
      /\ "start" \in S <=> v.start # k
  BY DEF Recurring!Natural
<1>3. /\ v.title \in Title /\ v.start \in Starts
      /\ v = [title |-> v.title, start |-> v.start]
  BY DEF Occurrence
<1>4. S \subseteq {"title", "start"}
  OBVIOUS
<1> HIDE DEF S
<1>5. /\ DOMAIN e = S
      /\ "title" \in S => e["title"] = v.title
      /\ "start" \in S => e["start"] = v.start
  BY <1>1
<1>6. IsPatch(e)
  BY <1>1, <1>3, <1>4, <1>5, PropsAre DEF IsPatch
<1> HIDE DEF e
<1>7. ASSUME NEW new \in Title
      PROVE  Filled(new, k, e) = IF v.title = title THEN [v EXCEPT !.title = new] ELSE v
  <2>1. Filled(new, k, e) = [title |-> IF v.title # title THEN v.title ELSE new,
                              start |-> v.start]
    BY <1>2, <1>5 DEF Filled
  <2>2. [v EXCEPT !.title = new] = [title |-> new, start |-> v.start]
    BY <1>3
  <2> QED BY <1>3, <2>1, <2>2
<1> QED BY <1>6, <1>7 DEF e

\* What is read is what is stored.
LEMMA ReadsStored ==
    ASSUME Held, NEW k \in Key PROVE Recurring!Read(k) = Recurring!Stored(k)
<1> DEFINE R == Recurring!RecurrenceOverrides(cal)
<1>1. /\ DOMAIN R = cal.exdates \cup DOMAIN cal.changed
      /\ \A j \in DOMAIN R : R[j] = IF j \in DOMAIN cal.changed
                                     THEN Recurring!OverridePatch(cal.changed[j].props, cal.title, j)
                                     ELSE Recurring!Excluded
  BY DEF Recurring!RecurrenceOverrides
<1>2. Recurring!Read(k) = IF k \in DOMAIN R THEN Recurring!Entered(cal.title, k, R[k])
                          ELSE Recurring!Natural(cal.title, k)
  BY DEF Recurring!Read
<1> HIDE DEF R
<1>3. CASE k \in DOMAIN cal.changed
  <2> DEFINE v == cal.changed[k].props
  <2>1. /\ v \in Occurrence /\ cal.title \in Title
        /\ R[k] = Recurring!OverridePatch(v, cal.title, k) /\ k \in DOMAIN R
    BY <1>1, <1>3 DEF Held
  <2> HIDE DEF v
  <2>2. IsPatch(R[k]) /\ Filled(cal.title, k, R[k])
                 = IF v.title = cal.title THEN [v EXCEPT !.title = cal.title] ELSE v
    BY <2>1, PatchSays
  <2>3. v = [title |-> v.title, start |-> v.start]
    BY <2>1 DEF Occurrence
  <2>4. Recurring!Entered(cal.title, k, R[k]) = v
    BY <2>1, <2>2, <2>3, FillsIn DEF Recurring!Entered
  <2> QED BY <1>2, <1>3, <2>1, <2>4 DEF Recurring!Stored, v
<1>4. CASE k \in cal.exdates /\ k \notin DOMAIN cal.changed
  <2>1. Recurring!Entered(cal.title, k, Recurring!Excluded) = Recurring!Excluded
    BY DEF Recurring!Entered, Recurring!Excluded
  <2> QED BY <1>1, <1>2, <1>4, <2>1 DEF Recurring!Stored
<1>5. CASE k \notin cal.exdates /\ k \notin DOMAIN cal.changed
  BY <1>1, <1>2, <1>5 DEF Recurring!Stored
<1> QED BY <1>3, <1>4, <1>5

\* The entry of an occurrence is what it shows, and stays that under another
\* title of the master.
Carried(k, new) == IF Recurring!Inherits(k) THEN [shown[k] EXCEPT !.title = new] ELSE shown[k]

LEMMA EntryShows ==
    ASSUME Held, NEW k \in Key, NEW new \in Title
    PROVE  LET R == Recurring!RecurrenceOverrides(cal)
           IN  /\ DOMAIN R \subseteq Key
               /\ k \notin DOMAIN R =>
                     shown[k] # Recurring!Excluded /\ Carried(k, new) = Recurring!Natural(new, k)
               /\ k \in DOMAIN R /\ shown[k] = Recurring!Excluded => R[k] = Recurring!Excluded
               /\ k \in DOMAIN R /\ shown[k] # Recurring!Excluded =>
                     IsPatch(R[k]) /\ Filled(new, k, R[k]) = Carried(k, new)
<1> DEFINE R == Recurring!RecurrenceOverrides(cal)
<1>1. /\ DOMAIN R = cal.exdates \cup DOMAIN cal.changed
      /\ \A j \in DOMAIN R : R[j] = IF j \in DOMAIN cal.changed
                                     THEN Recurring!OverridePatch(cal.changed[j].props, cal.title, j)
                                     ELSE Recurring!Excluded
  BY DEF Recurring!RecurrenceOverrides
<1>2. DOMAIN R \subseteq Key /\ Recurring!Stored(k) = shown[k] /\ cal.title \in Title
  BY <1>1 DEF Held
<1> HIDE DEF R
<1>3. CASE k \in DOMAIN cal.changed
  <2> DEFINE v == cal.changed[k].props
  <2>1. v \in Occurrence /\ R[k] = Recurring!OverridePatch(v, cal.title, k) /\ k \in DOMAIN R
    BY <1>1, <1>3 DEF Held
  <2>2. shown[k] = v
    BY <1>2, <1>3 DEF Recurring!Stored
  <2> HIDE DEF v
  <2>3. v # Recurring!Excluded
    <3>1. DOMAIN v = {"title", "start"} /\ DOMAIN Recurring!Excluded = {"excluded"}
      BY <2>1 DEF Occurrence, Recurring!Excluded
    <3> QED BY <3>1
  <2>4. IsPatch(R[k]) /\ Filled(new, k, R[k])
                 = IF v.title = cal.title THEN [v EXCEPT !.title = new] ELSE v
    BY <1>2, <2>1, PatchSays
  <2> QED BY <1>2, <2>1, <2>2, <2>3, <2>4 DEF Carried, Recurring!Inherits, R
<1>4. CASE k \in cal.exdates /\ k \notin DOMAIN cal.changed
  <2>1. shown[k] = Recurring!Excluded /\ R[k] = Recurring!Excluded /\ k \in DOMAIN R
    BY <1>1, <1>2, <1>4 DEF Recurring!Stored
  <2> QED BY <1>2, <2>1 DEF R
<1>5. CASE k \notin cal.exdates /\ k \notin DOMAIN cal.changed
  <2>1. shown[k] = Recurring!Natural(cal.title, k) /\ k \notin DOMAIN R
    BY <1>1, <1>2, <1>5 DEF Recurring!Stored
  <2>2. shown[k] # Recurring!Excluded
    <3>1. DOMAIN shown[k] = {"title", "start"} /\ DOMAIN Recurring!Excluded = {"excluded"}
      BY <2>1 DEF Recurring!Natural, Recurring!Excluded
    <3> QED BY <3>1
  <2>3. Carried(k, new) = Recurring!Natural(new, k)
    BY <2>1, <2>2 DEF Carried, Recurring!Inherits, Recurring!Natural
  <2> QED BY <1>2, <2>1, <2>2, <2>3 DEF R
<1> QED BY <1>3, <1>4, <1>5

-----------------------------------------------------------------------------
\* What is written for an entry.
Written(title, k, e) == IF e = Recurring!Excluded THEN Recurring!Excluded ELSE Filled(title, k, e)

GoodEntries(F) ==
    DOMAIN F \subseteq Key /\ \A k \in DOMAIN F : F[k] = Recurring!Excluded \/ IsPatch(F[k])

\* The object that ApplyOverrides writes.
LEMMA AppliesOverrides ==
    ASSUME NEW F, GoodEntries(F), NEW title \in Title,
           cal' = Recurring!ApplyOverrides(title, F),
           shown' = [k \in Key |-> shown'[k]],
           \A k \in Key : shown'[k] = IF k \in DOMAIN F THEN Written(title, k, F[k])
                                      ELSE Recurring!Natural(title, k)
    PROVE  Held'
<1> DEFINE out == {k \in DOMAIN F : F[k] = Recurring!Excluded}
           new == [k \in DOMAIN F \ out |->
                     [props |-> Recurring!Over(Recurring!Restrict(F[k], DOMAIN F[k] \cap Recurring!Props),
                                               Recurring!Natural(title, k)),
                      extra |-> FALSE]]
<1>1. cal' = [title |-> title, exdates |-> out, changed |-> new]
  BY DEF Recurring!ApplyOverrides
<1>2. DOMAIN new = DOMAIN F \ out /\ out \subseteq Key /\ DOMAIN new \subseteq Key
  BY DEF GoodEntries
<1>3. \A k \in DOMAIN new : new[k].props = Filled(title, k, F[k]) /\ new[k].props \in Occurrence
  <2> SUFFICES ASSUME NEW k \in DOMAIN new
               PROVE  new[k].props = Filled(title, k, F[k]) /\ new[k].props \in Occurrence
    OBVIOUS
  <2>1. k \in Key /\ IsPatch(F[k])
    BY <1>2 DEF GoodEntries
  <2>2. new[k].props = Recurring!Over(Recurring!Restrict(F[k], DOMAIN F[k] \cap Recurring!Props),
                                      Recurring!Natural(title, k))
    OBVIOUS
  <2> QED BY <2>1, <2>2, FillsIn
<1> HIDE DEF new
<1>4. ASSUME NEW k \in Key PROVE Recurring!Stored(k)' = shown'[k]
  <2>1. Recurring!Stored(k)' = IF k \in DOMAIN new THEN new[k].props
                     ELSE IF k \in out THEN Recurring!Excluded ELSE Recurring!Natural(title, k)
    BY <1>1 DEF Recurring!Stored
  <2>2. CASE k \in DOMAIN F /\ F[k] = Recurring!Excluded
    BY <1>2, <2>1, <2>2 DEF Written
  <2>3. CASE k \in DOMAIN F /\ F[k] # Recurring!Excluded
    BY <1>2, <1>3, <2>1, <2>3 DEF Written
  <2>4. CASE k \notin DOMAIN F
    BY <1>2, <2>1, <2>4
  <2> QED BY <2>2, <2>3, <2>4
<1> HIDE DEF out
<1>5. /\ cal'.title \in Title /\ cal'.exdates \subseteq Key /\ DOMAIN cal'.changed \subseteq Key
      /\ cal' = [title |-> cal'.title, exdates |-> cal'.exdates, changed |-> cal'.changed]
      /\ \A k \in DOMAIN cal'.changed : cal'.changed[k].props \in Occurrence
  BY <1>1, <1>2, <1>3
<1> QED BY <1>4, <1>5 DEF Held

LEMMA NewTitleType ==
    ASSUME Held, NEW title \in Title \cup {Unchanged} PROVE Recurring!NewTitle(title) \in Title
BY DEF Held, Recurring!NewTitle

\* An entry of a client's.
LEMMA EntryType ==
    ASSUME NEW e \in Recurring!Entry, NEW title \in Title, NEW k \in Key
    PROVE  /\ e = Recurring!Excluded \/ IsPatch(e)
           /\ Recurring!Entered(title, k, e) = Written(title, k, e)
<1>1. e = Recurring!Excluded \/ IsPatch(e)
  <2>1. CASE e = Recurring!Excluded
    BY <2>1
  <2>2. CASE e \in [{"title"} -> Title]
    BY <2>2, PropsAre DEF IsPatch
  <2>3. CASE e \in [{"start"} -> Time]
    BY <2>3, PropsAre DEF IsPatch, Starts
  <2>4. CASE e \in [title : Title, start : Time]
    <3>1. DOMAIN e = {"title", "start"} /\ e = [p \in {"title", "start"} |-> e[p]]
          /\ e["title"] \in Title /\ e["start"] \in Time
      BY <2>4
    <3> QED BY <3>1, PropsAre DEF IsPatch, Starts
  <2> QED BY <2>1, <2>2, <2>3, <2>4 DEF Recurring!Entry
<1>2. CASE e = Recurring!Excluded
  <2>1. "excluded" \in DOMAIN e
    BY <1>2 DEF Recurring!Excluded
  <2> QED BY <1>1, <1>2, <2>1 DEF Recurring!Entered, Written
<1>3. CASE IsPatch(e)
  BY <1>3, FillsIn DEF Recurring!Entered, Written
<1> QED BY <1>1, <1>2, <1>3

LEMMA SetAllHeld ==
    ASSUME Held, NEW title \in Title \cup {Unchanged}, NEW F \in Recurring!Entries,
           Recurring!SetAll(title, F)
    PROVE  Held'
<1> DEFINE new == Recurring!NewTitle(title)
<1>1. new \in Title
  BY NewTitleType
<1>2. /\ cal' = Recurring!ApplyOverrides(new, F)
      /\ shown' = [k \in Key |-> IF k \in DOMAIN F THEN Recurring!Entered(new, k, F[k])
                                 ELSE Recurring!Natural(new, k)]
  BY DEF Recurring!SetAll, Recurring!Apply
<1>3. DOMAIN F \subseteq Key /\ \A k \in DOMAIN F : F[k] \in Recurring!Entry
  BY DEF Recurring!Entries
<1> HIDE DEF new
<1>4. GoodEntries(F)
  BY <1>1, <1>3, EntryType DEF GoodEntries
<1>5. \A k \in DOMAIN F : Recurring!Entered(new, k, F[k]) = Written(new, k, F[k])
  BY <1>1, <1>3, EntryType
<1>6. shown' = [k \in Key |-> shown'[k]]
  BY <1>2
<1>7. \A k \in Key : shown'[k] = IF k \in DOMAIN F THEN Written(new, k, F[k])
                                 ELSE Recurring!Natural(new, k)
  BY <1>2, <1>5
<1> QED BY <1>1, <1>2, <1>4, <1>6, <1>7, AppliesOverrides

\* All entries but one as they were.
LEMMA OneSet ==
    ASSUME Held, NEW key \in Key, NEW new \in Title, NEW F, NEW to,
           DOMAIN F \ {key} = DOMAIN Recurring!RecurrenceOverrides(cal) \ {key},
           \A k \in DOMAIN F \ {key} : F[k] = Recurring!RecurrenceOverrides(cal)[k],
           key \in DOMAIN F => F[key] = Recurring!Excluded \/ IsPatch(F[key]),
           to = IF key \in DOMAIN F THEN Written(new, key, F[key]) ELSE Recurring!Natural(new, key),
           cal' = Recurring!ApplyOverrides(new, F),
           Recurring!Show(new, {key}, [k \in {key} |-> to])
    PROVE  Held'
<1> DEFINE R == Recurring!RecurrenceOverrides(cal)
<1>1. \A k \in Key \ {key} :
         /\ k \notin DOMAIN R => Carried(k, new) = Recurring!Natural(new, k)
         /\ k \in DOMAIN R /\ shown[k] = Recurring!Excluded => R[k] = Recurring!Excluded
         /\ k \in DOMAIN R /\ shown[k] # Recurring!Excluded =>
               IsPatch(R[k]) /\ Filled(new, k, R[k]) = Carried(k, new)
  BY EntryShows
<1>6. DOMAIN F \ {key} = DOMAIN R \ {key} /\ \A k \in DOMAIN F \ {key} : F[k] = R[k]
  OBVIOUS
<1>7. DOMAIN R \subseteq Key
  BY EntryShows
<1> HIDE DEF R
<1>2. GoodEntries(F)
  <2> SUFFICES ASSUME NEW k \in DOMAIN F PROVE k \in Key /\ (F[k] = Recurring!Excluded \/ IsPatch(F[k]))
    BY DEF GoodEntries
  <2>1. CASE k = key
    BY <2>1
  <2>2. CASE k # key
    BY <1>1, <1>6, <1>7, <2>2
  <2> QED BY <2>1, <2>2
<1>3. \A k \in Key : shown'[k] = IF k = key THEN to ELSE Carried(k, new)
  BY DEF Recurring!Show, Carried
<1>4. shown' = [k \in Key |-> shown'[k]]
  BY DEF Recurring!Show
<1>5. ASSUME NEW k \in Key
      PROVE  shown'[k] = IF k \in DOMAIN F THEN Written(new, k, F[k]) ELSE Recurring!Natural(new, k)
  <2>1. CASE k = key
    BY <1>3, <2>1
  <2>2. CASE k # key /\ k \notin DOMAIN R
    BY <1>1, <1>3, <1>6, <2>2
  <2>3. CASE k # key /\ k \in DOMAIN R /\ shown[k] = Recurring!Excluded
    <3>1. Carried(k, new) = Recurring!Excluded
      BY <2>3 DEF Carried, Recurring!Inherits
    <3> QED BY <1>1, <1>3, <1>6, <2>3, <3>1 DEF Written
  <2>4. CASE k # key /\ k \in DOMAIN R /\ shown[k] # Recurring!Excluded
    <3>1. IsPatch(R[k]) /\ F[k] = R[k] /\ k \in DOMAIN F
      BY <1>1, <1>6, <2>4
    <3>2. R[k] # Recurring!Excluded
      BY <3>1, FillsIn
    <3> QED BY <1>1, <1>3, <2>4, <3>1, <3>2 DEF Written
  <2> QED BY <2>1, <2>2, <2>3, <2>4
<1> QED BY <1>2, <1>4, <1>5, AppliesOverrides

LEMMA EmptyPatch ==
    ASSUME NEW title \in Title, NEW k \in Key
    PROVE  /\ IsPatch(<< >>) /\ Filled(title, k, << >>) = Recurring!Natural(title, k)
           /\ Recurring!Entered(title, k, << >>) = Recurring!Natural(title, k)
<1>1. DOMAIN << >> = {} /\ << >> = [p \in {} |-> << >>[p]]
  OBVIOUS
<1>2. IsPatch(<< >>)
  BY <1>1 DEF IsPatch
<1>3. Filled(title, k, << >>) = Recurring!Natural(title, k)
  BY <1>1 DEF Filled, Recurring!Natural
<1>4. Recurring!Entered(title, k, << >>) = Recurring!Over(<< >>, Recurring!Natural(title, k))
  BY <1>1 DEF Recurring!Entered
<1> QED BY <1>2, <1>3, <1>4, FillsIn

LEMMA SetEntryHeld ==
    ASSUME Held, NEW title \in Title \cup {Unchanged}, NEW key \in Key,
           NEW entry \in Recurring!Entry \cup {None}, Recurring!SetEntry(title, key, entry)
    PROVE  Held'
<1> DEFINE new == Recurring!NewTitle(title)
           R == Recurring!RecurrenceOverrides(cal)
           F == Recurring!MergeEntry(R, key, entry)
           to == Recurring!Entered(new, key, IF entry = None THEN << >> ELSE entry)
<1>1. new \in Title
  BY NewTitleType
<1>2. /\ cal' = Recurring!ApplyOverrides(new, F)
      /\ Recurring!Show(new, {key}, [k \in {key} |-> to])
  BY DEF Recurring!SetEntry, Recurring!Apply
<1>3. DOMAIN R \subseteq Key
  BY <1>1, EntryShows
<1> HIDE DEF new, R
<1>4. CASE entry = None
  <2>1. F = Recurring!Restrict(R, DOMAIN R \ {key})
    BY <1>4 DEF Recurring!MergeEntry
  <2>2. to = Recurring!Natural(new, key)
    BY <1>1, <1>4, EmptyPatch
  <2> HIDE DEF F, to
  <2>3. DOMAIN F = DOMAIN R \ {key} /\ \A k \in DOMAIN F : F[k] = R[k]
    BY <2>1 DEF Recurring!Restrict
  <2>4. /\ key \notin DOMAIN F /\ DOMAIN F \ {key} = DOMAIN R \ {key}
        /\ \A k \in DOMAIN F \ {key} : F[k] = R[k]
    BY <2>3
  <2> QED BY <1>1, <1>2, <2>2, <2>4, OneSet DEF R
<1>5. CASE entry # None
  <2>1. F = Recurring!Over(Recurring!Only(key, entry), R)
    BY <1>5 DEF Recurring!MergeEntry
  <2>2. (entry = Recurring!Excluded \/ IsPatch(entry)) /\ to = Written(new, key, entry)
    BY <1>1, <1>5, EntryType
  <2> HIDE DEF F, to
  <2>3. DOMAIN F = DOMAIN R \cup {key} /\ F[key] = entry /\ \A k \in DOMAIN R \ {key} : F[k] = R[k]
    BY <2>1 DEF Recurring!Over, Recurring!Only
  <2>4. /\ key \in DOMAIN F /\ DOMAIN F \ {key} = DOMAIN R \ {key}
        /\ \A k \in DOMAIN F \ {key} : F[k] = R[k]
    BY <2>3
  <2> QED BY <1>1, <1>2, <2>2, <2>3, <2>4, OneSet DEF R
<1> QED BY <1>4, <1>5

\* A property of a patch, set or taken out.
LEMMA PropertySet ==
    ASSUME NEW e, IsPatch(e), NEW p \in Recurring!Props, NEW v \in Recurring!Value[p],
           NEW new \in Title, NEW key \in Key, NEW e2, e2 = Recurring!Over(Recurring!Only(p, v), e)
    PROVE  IsPatch(e2) /\ Filled(new, key, e2) = [Filled(new, key, e) EXCEPT ![p] = v]
<1>1. /\ e2 = [q \in DOMAIN e \cup {p} |-> IF q = p THEN v ELSE e[q]]
      /\ DOMAIN e2 = DOMAIN e \cup {p} /\ e2[p] = v /\ \A q \in DOMAIN e : q # p => e2[q] = e[q]
  BY DEF Recurring!Over, Recurring!Only
<1>2. CASE p = "title"
  <2>1. v \in Title
    BY <1>2 DEF Recurring!Value
  <2>2. IsPatch(e2)
    BY <1>1, <1>2, <2>1, PropsAre DEF IsPatch
  <2> QED BY <1>1, <1>2, <2>2 DEF Filled
<1>3. CASE p = "start"
  <2>1. v \in Starts
    BY <1>3 DEF Recurring!Value, Starts
  <2>2. IsPatch(e2)
    BY <1>1, <1>3, <2>1, PropsAre DEF IsPatch
  <2> QED BY <1>1, <1>3, <2>2 DEF Filled
<1> QED BY <1>2, <1>3, PropsAre

LEMMA PropertyUnset ==
    ASSUME NEW e, IsPatch(e), NEW p,
           NEW new \in Title, NEW key \in Key, NEW e2, e2 = Recurring!Restrict(e, DOMAIN e \ {p})
    PROVE  /\ IsPatch(e2)
           /\ p \in Recurring!Props => Filled(new, key, e2)
                               = [Filled(new, key, e) EXCEPT ![p] = Recurring!Natural(new, key)[p]]
           /\ p = "excluded" => Filled(new, key, e2) = Filled(new, key, e)
<1>1. /\ e2 = [q \in DOMAIN e \ {p} |-> e[q]] /\ DOMAIN e2 = DOMAIN e \ {p}
      /\ \A q \in DOMAIN e : q # p => e2[q] = e[q]
  BY DEF Recurring!Restrict
<1>2. IsPatch(e2)
  <2>1. e2 = [q \in DOMAIN e2 |-> e2[q]]
    BY <1>1
  <2> QED BY <1>1, <2>1 DEF IsPatch
<1>3. ASSUME p = "title"
      PROVE  Filled(new, key, e2)
               = [Filled(new, key, e) EXCEPT !["title"] = Recurring!Natural(new, key)["title"]]
  BY <1>1, <1>3 DEF Filled, Recurring!Natural
<1>4. ASSUME p = "start"
      PROVE  Filled(new, key, e2)
               = [Filled(new, key, e) EXCEPT !["start"] = Recurring!Natural(new, key)["start"]]
  BY <1>1, <1>4 DEF Filled, Recurring!Natural
<1>5. ASSUME p = "excluded" PROVE Filled(new, key, e2) = Filled(new, key, e)
  BY <1>1, <1>5 DEF Filled
<1> QED BY <1>2, <1>3, <1>4, <1>5, PropsAre

\* A property of an occurrence.
LEMMA SetPropertyHeld ==
    ASSUME ~Mixed, Held, NEW title \in Title \cup {Unchanged}, NEW key \in Key,
           NEW p, NEW value,
           \/ p \in Recurring!Props /\ value \in Recurring!Value[p] \cup {None}
           \/ p = "excluded" /\ value \in {TRUE, None},
           Recurring!SetProperty(title, key, p, value)
    PROVE  Held'
<1> DEFINE new == Recurring!NewTitle(title)
           R == Recurring!RecurrenceOverrides(cal)
           entry == IF key \in DOMAIN R THEN R[key] ELSE << >>
           e2 == IF value = None THEN Recurring!Restrict(entry, DOMAIN entry \ {p})
                 ELSE Recurring!Over(Recurring!Only(p, value), entry)
           F == Recurring!Over(Recurring!Only(key, e2), R)
           before == IF shown[key] = Recurring!Excluded THEN Recurring!Natural(new, key)
                     ELSE Carried(key, new)
           after == IF p = "excluded"
                       THEN IF value = None THEN before ELSE Recurring!Excluded
                     ELSE IF shown[key] = Recurring!Excluded THEN Recurring!Excluded
                     ELSE [before EXCEPT ![p] = IF value = None THEN Recurring!Natural(new, key)[p]
                                                ELSE value]
<1>1. new \in Title
  BY NewTitleType
<1>2. /\ cal' = Recurring!ApplyOverrides(new, F) /\ ~Recurring!IsMixed(F)
      /\ Recurring!Show(new, {key}, [k \in {key} |-> after])
  <2>1. Recurring!MergeProperty(R, key, p, value) = F
    BY DEF Recurring!MergeProperty
  <2>2. before = IF shown[key] = Recurring!Excluded THEN Recurring!Natural(new, key)
                     ELSE IF Recurring!Inherits(key) THEN [shown[key] EXCEPT !.title = new]
                     ELSE shown[key]
    BY DEF Carried
  <2> QED BY <2>1, <2>2 DEF Recurring!SetProperty, Recurring!Apply
<1> HIDE DEF e2
<1>3. /\ DOMAIN F = DOMAIN R \cup {key} /\ F[key] = e2
      /\ \A k \in DOMAIN R \ {key} : F[k] = R[k]
  BY DEF F, Recurring!Over, Recurring!Only
<1> HIDE DEF F, after
<1>4. SUFFICES /\ e2 = Recurring!Excluded \/ IsPatch(e2)
               /\ after = Written(new, key, e2)
  <2>1. /\ key \in DOMAIN F /\ DOMAIN F \ {key} = DOMAIN R \ {key}
        /\ \A k \in DOMAIN F \ {key} : F[k] = R[k]
    BY <1>3
  <2> HIDE DEF new
  <2> QED BY <1>1, <1>2, <1>3, <2>1, OneSet
<1>5. "excluded" \in DOMAIN e2 => e2 = Recurring!Excluded
  BY <1>2, <1>3 DEF Recurring!IsMixed
<1>6. CASE e2 = Recurring!Excluded /\ after = Recurring!Excluded
  BY <1>6 DEF Written
<1>7. CASE IsPatch(e2) /\ after = Filled(new, key, e2)
  BY <1>1, <1>7, FillsIn DEF Written
<1>8. CASE shown[key] = Recurring!Excluded
  <2>1. entry = Recurring!Excluded
    BY <1>1, <1>8, EntryShows
  <2>2. DOMAIN Recurring!Excluded = {"excluded"}
    BY DEF Recurring!Excluded
  <2>3. CASE value = None /\ p = "excluded"
    <3>1. e2 = << >>
      <4>1. e2 = [x \in {} |-> Recurring!Excluded[x]]
        BY <2>1, <2>2, <2>3 DEF Recurring!Restrict, e2
      <4> QED BY <4>1
    <3>2. after = Recurring!Natural(new, key)
      BY <1>8, <2>3 DEF after
    <3> QED BY <1>1, <1>7, <3>1, <3>2, EmptyPatch
  <2>4. CASE ~(value = None /\ p = "excluded")
    <3>1. after = Recurring!Excluded
      BY <1>8, <2>4 DEF after
    <3>2. "excluded" \in DOMAIN e2
      <4>1. CASE value = None
        <5>1. e2 = Recurring!Restrict(Recurring!Excluded, {"excluded"} \ {p}) /\ p # "excluded"
          BY <2>1, <2>2, <2>4, <4>1 DEF e2
        <5> QED BY <5>1 DEF Recurring!Restrict
      <4>2. CASE value # None
        BY <2>1, <2>2, <4>2 DEF e2, Recurring!Over, Recurring!Only
      <4> QED BY <4>1, <4>2
    <3> QED BY <1>5, <1>6, <3>1, <3>2
  <2> QED BY <2>3, <2>4
<1>9. CASE shown[key] # Recurring!Excluded
  <2>1. IsPatch(entry) /\ Filled(new, key, entry) = Carried(key, new)
    <3>1. CASE key \in DOMAIN R
      BY <1>1, <1>9, <3>1, EntryShows
    <3>2. CASE key \notin DOMAIN R
      <4>1. Carried(key, new) = Recurring!Natural(new, key)
        BY <1>1, <3>2, EntryShows
      <4> QED BY <1>1, <3>2, <4>1, EmptyPatch
    <3> QED BY <3>1, <3>2
  <2> HIDE DEF entry
  <2>2. CASE p = "excluded" /\ value # None
    <3>1. after = Recurring!Excluded
      BY <2>2 DEF after
    <3>2. "excluded" \in DOMAIN e2
      BY <2>2 DEF e2, Recurring!Over, Recurring!Only
    <3> QED BY <1>5, <1>6, <3>1, <3>2
  <2>3. CASE value = None
    <3>1. e2 = Recurring!Restrict(entry, DOMAIN entry \ {p})
      BY <2>3 DEF e2
    <3>2. after = IF p = "excluded" THEN Carried(key, new)
                  ELSE [Carried(key, new) EXCEPT ![p] = Recurring!Natural(new, key)[p]]
      BY <1>9, <2>3 DEF after
    <3> HIDE DEF new
    <3>3. IsPatch(e2)
      BY <1>1, <2>1, <3>1, PropertyUnset
    <3>5. ASSUME p \in Recurring!Props
          PROVE  Filled(new, key, e2)
                   = [Filled(new, key, entry) EXCEPT ![p] = Recurring!Natural(new, key)[p]]
      BY <1>1, <2>1, <3>1, <3>5, PropertyUnset
    <3>6. ASSUME p = "excluded"
          PROVE  Filled(new, key, e2) = Filled(new, key, entry)
      BY <1>1, <2>1, <3>1, <3>6, PropertyUnset
    <3>4. p \in Recurring!Props => p # "excluded"
      BY PropsAre
    <3> QED BY <1>7, <2>1, <3>2, <3>3, <3>4, <3>5, <3>6
  <2>4. CASE p \in Recurring!Props /\ value # None
    <3>1. e2 = Recurring!Over(Recurring!Only(p, value), entry) /\ value \in Recurring!Value[p]
      BY <2>4, PropsAre DEF e2
    <3>2. after = [Carried(key, new) EXCEPT ![p] = value]
      BY <1>9, <2>4, PropsAre DEF after
    <3> HIDE DEF new
    <3>3. /\ IsPatch(e2)
          /\ Filled(new, key, e2) = [Filled(new, key, entry) EXCEPT ![p] = value]
      BY <1>1, <2>1, <2>4, <3>1, PropertySet
    <3> QED BY <1>7, <2>1, <3>2, <3>3
  <2> QED BY <2>2, <2>3, <2>4
<1> QED BY <1>8, <1>9

LEMMA SetTitleHeld ==
    ASSUME ~LateEdits, Held, NEW title \in Title, Recurring!SetTitle(title)
    PROVE  Held'
<1>1. /\ cal' = [cal EXCEPT !.title = title]
      /\ \A k \in DOMAIN cal.changed : cal.changed[k].props.title # cal.title
      /\ shown' = [k \in Key |-> Carried(k, title)]
  BY DEF Recurring!SetTitle, Recurring!Show, Carried
<1>2. cal' = [title |-> title, exdates |-> cal.exdates, changed |-> cal.changed]
  BY <1>1 DEF Held
<1>3. ASSUME NEW k \in Key PROVE Recurring!Stored(k)' = shown'[k]
  <2>1. Recurring!Stored(k)' = IF k \in DOMAIN cal.changed THEN cal.changed[k].props
                     ELSE IF k \in cal.exdates THEN Recurring!Excluded ELSE Recurring!Natural(title, k)
    BY <1>2 DEF Recurring!Stored
  <2>2. Recurring!Stored(k) = shown[k] /\ shown'[k] = Carried(k, title)
    BY <1>1 DEF Held
  <2>3. CASE k \in DOMAIN cal.changed
    BY <1>1, <2>1, <2>2, <2>3 DEF Recurring!Stored, Carried, Recurring!Inherits
  <2>4. CASE k \notin DOMAIN cal.changed /\ k \in cal.exdates
    BY <2>1, <2>2, <2>4 DEF Recurring!Stored, Carried, Recurring!Inherits
  <2>5. CASE k \notin DOMAIN cal.changed /\ k \notin cal.exdates
    <3>1. k \notin DOMAIN Recurring!RecurrenceOverrides(cal)
      BY <2>5 DEF Recurring!RecurrenceOverrides
    <3>2. Carried(k, title) = Recurring!Natural(title, k)
      BY <3>1, EntryShows
    <3> QED BY <2>1, <2>2, <2>5, <3>2
  <2> QED BY <2>3, <2>4, <2>5
<1>4. /\ cal'.title \in Title /\ cal'.exdates \subseteq Key /\ DOMAIN cal'.changed \subseteq Key
      /\ cal' = [title |-> cal'.title, exdates |-> cal'.exdates, changed |-> cal'.changed]
      /\ \A k \in DOMAIN cal'.changed : cal'.changed[k].props \in Occurrence
  BY <1>2 DEF Held
<1>5. shown' = [k \in Key |-> shown'[k]]
  BY <1>1
<1> QED BY <1>3, <1>4, <1>5 DEF Held

LEMMA ElsewhereHeld ==
    ASSUME Held, NEW key \in Key, NEW props \in [title : Title, start : Time],
           Recurring!Elsewhere(key, props)
    PROVE  Held'
<1>1. PICK new : new = Recurring!Over(Recurring!Only(key, [props |-> props, extra |-> TRUE]), cal.changed)
  OBVIOUS
<1>2. /\ cal' = [title |-> cal.title, exdates |-> cal.exdates \ {key}, changed |-> new]
      /\ shown' = [shown EXCEPT ![key] = props]
  BY <1>1 DEF Recurring!Elsewhere, Held
<1>3. /\ DOMAIN new = DOMAIN cal.changed \cup {key} /\ new[key].props = props
      /\ \A k \in DOMAIN cal.changed \ {key} : new[k] = cal.changed[k]
  BY <1>1 DEF Recurring!Over, Recurring!Only
<1>4. props \in Occurrence
  BY DEF Occurrence, Starts
<1>5. ASSUME NEW k \in Key PROVE Recurring!Stored(k)' = shown'[k]
  <2>1. Recurring!Stored(k)' = IF k \in DOMAIN new THEN new[k].props
                     ELSE IF k \in cal.exdates \ {key} THEN Recurring!Excluded
                     ELSE Recurring!Natural(cal.title, k)
    BY <1>2 DEF Recurring!Stored
  <2>2. Recurring!Stored(k) = shown[k] /\ shown'[k] = IF k = key THEN props ELSE shown[k]
    BY <1>2 DEF Held
  <2>3. CASE k = key
    BY <1>3, <2>1, <2>2, <2>3
  <2>4. CASE k # key
    BY <1>3, <2>1, <2>2, <2>4 DEF Recurring!Stored
  <2> QED BY <2>3, <2>4
<1>6. /\ cal'.title \in Title /\ cal'.exdates \subseteq Key /\ DOMAIN cal'.changed \subseteq Key
      /\ cal' = [title |-> cal'.title, exdates |-> cal'.exdates, changed |-> cal'.changed]
      /\ \A k \in DOMAIN cal'.changed : cal'.changed[k].props \in Occurrence
  BY <1>2, <1>3, <1>4 DEF Held
<1>7. shown' = [k \in Key |-> shown'[k]]
  BY <1>2 DEF Held
<1> QED BY <1>5, <1>6, <1>7 DEF Held

LEMMA InitHeld == Recurring!Init => Held
<1> SUFFICES ASSUME Recurring!Init PROVE Held
  OBVIOUS
<1>1. PICK title \in Title : cal = [title |-> title, exdates |-> {}, changed |-> << >>]
  BY DEF Recurring!Init
<1>2. DOMAIN cal.changed = {} /\ cal.exdates = {} /\ cal.title = title
  BY <1>1
<1>3. shown = [k \in Key |-> Recurring!Natural(title, k)]
  BY <1>2 DEF Recurring!Init
<1> QED BY <1>1, <1>2, <1>3 DEF Held, Recurring!Stored

LEMMA NextHeld == ASSUME ~Mixed, ~LateEdits PROVE Held /\ [Recurring!Next]_occurrenceVars => Held'
<1> SUFFICES ASSUME Held, [Recurring!Next]_occurrenceVars PROVE Held'
  OBVIOUS
<1>1. CASE UNCHANGED occurrenceVars
  BY <1>1 DEF occurrenceVars, Held, Recurring!Stored
<1>2. ASSUME NEW title \in Title \cup {Unchanged}, NEW key \in Key, NEW p \in Recurring!Props,
             NEW value \in Recurring!Value[p] \cup {None}, Recurring!SetProperty(title, key, p, value)
      PROVE  Held'
  BY <1>2, SetPropertyHeld
<1>3. ASSUME NEW title \in Title \cup {Unchanged}, NEW key \in Key,
             NEW value \in {TRUE, None}, Recurring!SetProperty(title, key, "excluded", value)
      PROVE  Held'
  BY <1>3, SetPropertyHeld
<1>4. ASSUME NEW title \in Title, Recurring!SetTitle(title) PROVE Held'
  BY <1>4, SetTitleHeld
<1>5. ASSUME NEW title \in Title \cup {Unchanged}, NEW F \in Recurring!Entries,
             Recurring!SetAll(title, F)
      PROVE  Held'
  BY <1>5, SetAllHeld
<1>6. ASSUME NEW title \in Title \cup {Unchanged}, NEW key \in Key,
             NEW entry \in Recurring!Entry \cup {None}, Recurring!SetEntry(title, key, entry)
      PROVE  Held'
  BY <1>6, SetEntryHeld
<1>7. ASSUME NEW key \in Key, NEW props \in [title : Title, start : Time],
             Recurring!Elsewhere(key, props)
      PROVE  Held'
  BY <1>7, ElsewhereHeld
<1> SUFFICES ASSUME Recurring!Next PROVE Held'
  BY <1>1
<1> QED BY <1>2, <1>3, <1>4, <1>5, <1>6, <1>7, Zenon DEF Recurring!Next

LEMMA HeldOccurs == Held => Recurring!Occurs
BY ReadsStored DEF Recurring!Occurs, Held

\* However patches of a recurring event, of all its overrides, of one of
\* them or of a property of one follow each other and the edits of other
\* clients, each occurrence is what the last patch that names it made of it,
\* for any number of occurrences, times and titles (event_map.py:697).  The
\* master's title is not patched while a component has it, and entries are
\* either excluded or say something else.
THEOREM OccurrencesOccur ==
    ASSUME ~Mixed, ~LateEdits PROVE EventSpec => []Occurs
<1> DEFINE Inv == shown # << >> => Held
<1>1. EventInit => Inv
  BY InitHeld DEF EventInit, OccurrencesRest
<1>2. Inv /\ [EventNext]_<<vars, occurrenceVars>> => Inv'
  <2> SUFFICES ASSUME Inv, [EventNext]_<<vars, occurrenceVars>>, shown' # << >>
               PROVE  Held'
    OBVIOUS
  <2>1. CASE UNCHANGED occurrenceVars
    BY <2>1 DEF occurrenceVars, Held, Recurring!Stored
  <2>2. CASE shown # << >> /\ Recurring!Next
    <3>1. [Recurring!Next]_occurrenceVars
      BY <2>2
    <3> QED BY <2>2, <3>1, NextHeld
  <2> QED BY <2>1, <2>2 DEF EventNext
<1>3. Inv => Occurs
  BY HeldOccurs DEF Occurs
<1> QED BY <1>1, <1>2, <1>3, PTL DEF EventSpec
=============================================================================
