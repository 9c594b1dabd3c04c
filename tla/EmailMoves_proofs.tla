-------------------------- MODULE EmailMoves_proofs --------------------------
(***************************************************************************)
(* Proofs about EmailMoves and EmailCreates: that an id never leads to     *)
(* another message than its own, that moves do not lose a message, that    *)
(* creates change neither, and that what is answered created is there.     *)
(*                                                                         *)
(* Survives is not inductive: the copy it speaks of may be the one that a  *)
(* handler is about to flag.  SafeCopy adds that there is one nobody is    *)
(* about to: whoever sets out to flag the last such copy has just made     *)
(* another one.                                                            *)
(*                                                                         *)
(* Then about Submission, which shares no state with them: that a draft is *)
(* gone only when it was sent or a client destroyed it, and is sent once.  *)
(***************************************************************************)
EXTENDS EmailCreates, MCSubmission, IdRedirect_proofs

USE MovesAssumption, NoneIsNoId

\* An id of the same message as id, which exists or has existed.
SameMessage(id) == {x \in Id : Known(x) /\ issued[x] = issued[id]}

Sound ==
    /\ \A x \in Id : store[x] \in {issued[x], None}
    /\ \A e \in Entries(redirects) : Known(e.old) /\ e.new \in SameMessage(e.old)
    /\ \A t \in Handler : call[t] # Idle =>
            Known(call[t].asked) /\ call[t].at \in SameMessage(call[t].asked)

Doomed(x) ==
    \/ x \in deleted
    \/ \E t \in Handler : call[t] # Idle /\ call[t].pc = "flagging" /\ call[t].at = x

SafeCopy ==
    \A x \in Id : Known(x) /\ issued[x] \notin destroyed
        => \E y \in Id : store[y] = issued[x] /\ ~Doomed(y)

IInv == TypeOK /\ Sound /\ SafeCopy

\* The four shapes of a call, from its pc.
LEMMA CallShape ==
  ASSUME TypeOK, NEW t \in Handler
  PROVE  /\ call[t] \in Calls
         /\ call[t].pc = "idle" <=> call[t] = Idle
         /\ call[t].pc = "keywords" =>
              call[t] \in [pc : {"keywords"}, asked : Id, at : Id, targets : SUBSET Mailbox]
         /\ call[t].pc = "copying" =>
              call[t] \in [pc : {"copying"}, asked : Id, at : Id, todo : SUBSET Mailbox,
                           only : BOOLEAN, leaves : BOOLEAN]
         /\ call[t].pc \in {"flagging", "expunging"} =>
              call[t] \in [pc : {"flagging", "expunging"}, asked : Id, at : Id, moves : BOOLEAN]
         /\ call[t] # Idle => call[t].asked \in Id /\ call[t].at \in Id
<1>1. call[t] \in Calls
  BY DEF TypeOK
<1> QED
  BY <1>1 DEF Calls, Idle

LEMMA EntryType ==
  ASSUME TypeOK, NEW e \in Entries(redirects)
  PROVE  e.old \in Id /\ e.new \in Id
<1>1. redirects \in Seq([old : Id, new : Id])
  BY DEF TypeOK
<1>2. PICK i \in DOMAIN redirects : e = redirects[i]
  BY DEF Entries
<1>3. i \in 1..Len(redirects)
  BY <1>1, <1>2, LenProperties
<1>4. e \in [old : Id, new : Id]
  BY <1>1, <1>2, <1>3, ElementOfSeq
<1> QED
  BY <1>4

LEMMA InitIInv == Init => IInv
<1> SUFFICES ASSUME Init PROVE IInv
  OBVIOUS
<1>1. /\ redirects \in Seq([old : Id, new : Id]) /\ IsTable(redirects)
      /\ Len(redirects) = 0 /\ Entries(redirects) = {}
  BY EmptySeq DEF Init, IsTable, Entries
<1>2. call \in [Handler -> Calls]
  BY DEF Init, Calls
<1>3. TypeOK
  BY <1>1, <1>2, RedirectAssumption DEF Init, TypeOK
<1>4. Sound
  BY <1>1 DEF Init, Sound
<1>5. SafeCopy
  BY DEF Init, SafeCopy, Known
<1> QED
  BY <1>3, <1>4, <1>5 DEF IInv

-----------------------------------------------------------------------------
\* Resolving an id gives one of the same message.
LEMMA ResolveSound ==
  ASSUME TypeOK, Sound, NEW id \in Id, Known(id)
  PROVE  Resolve(redirects, id) \in SameMessage(id)
<1>1. id \in SameMessage(id)
  BY DEF SameMessage
<1>2. \A e \in Entries(redirects) : e.old \in SameMessage(id) => e.new \in SameMessage(id)
  BY DEF Sound, SameMessage
<1> QED
  BY <1>1, <1>2, ResolveStays

\* Calls may change and messages be given up freely, as long as no call
\* begins to threaten a message.
LEMMA CallsStep ==
  ASSUME IInv, UNCHANGED server, UNCHANGED redirects \/ redirects' = <<>>,
         destroyed \subseteq destroyed', destroyed' \subseteq Message, moved' \subseteq Id,
         call' \in [Handler -> Calls],
         \A t \in Handler : call'[t] # Idle =>
            /\ Known(call'[t].asked) /\ call'[t].at \in SameMessage(call'[t].asked)
            /\ call'[t].pc = "flagging" =>
                 call'[t] = call[t] \/ issued[call'[t].asked] \in destroyed'
  PROVE  IInv'
<1> USE DEF IInv, server
<1>1. /\ redirects' \in Seq([old : Id, new : Id])
      /\ IsTable(redirects') /\ Len(redirects') <= MaxEntries
      /\ Entries(redirects') \subseteq Entries(redirects)
  <2>1. CASE redirects' = <<>>
    BY <2>1, EmptySeq, RedirectAssumption DEF IsTable, Entries
  <2>2. CASE redirects' = redirects
    BY <2>2 DEF TypeOK
  <2> QED
    BY <2>1, <2>2
<1>2. TypeOK'
  BY <1>1 DEF TypeOK
<1>3. Sound'
  BY <1>1 DEF Sound, SameMessage, Known
<1>4. SafeCopy'
  <2> SUFFICES ASSUME NEW x \in Id, Known(x), issued[x] \notin destroyed'
               PROVE  \E y \in Id : store[y] = issued[x] /\ ~Doomed(y)'
    BY DEF SafeCopy, Known
  <2>1. PICK y \in Id : store[y] = issued[x] /\ ~Doomed(y)
    BY DEF SafeCopy
  <2>2. issued[y] = issued[x]
    BY <2>1 DEF Sound, Known
  <2>3. ~Doomed(y)'
    BY <2>1, <2>2 DEF Doomed, SameMessage
  <2> QED
    BY <2>1, <2>3
<1> QED
  BY <1>2, <1>3, <1>4

LEMMA CopyingShape ==
  ASSUME NEW id \in Id, NEW at \in Id, NEW targets \in SUBSET Mailbox
  PROVE  /\ Copying(id, at, targets) \in Calls
         /\ Copying(id, at, targets) # Idle =>
              /\ Copying(id, at, targets).pc = "copying"
              /\ Copying(id, at, targets).asked = id
              /\ Copying(id, at, targets).at = at
BY DEF Copying, Calls, Idle

LEMMA StartStep ==
  ASSUME IInv, NEW t \in Handler, NEW id \in Id, NEW targets \in SUBSET Mailbox,
         StartMove(t, id, targets) \/ StartKeywords(t, id, targets) \/ StartDestroy(t, id)
  PROVE  IInv'
<1> USE DEF IInv
<1> DEFINE at == Resolve(redirects, id)
<1>1. PICK c : /\ call' = [call EXCEPT ![t] = c]
               /\ \/ c = Copying(id, at, targets)
                  \/ c = [pc |-> "keywords", asked |-> id, targets |-> targets, at |-> at]
                  \/ /\ c = [pc |-> "flagging", asked |-> id, at |-> at, moves |-> FALSE]
                     /\ issued[id] \in destroyed'
  BY DEF StartMove, StartKeywords, StartDestroy, Become
<1>2. /\ Known(id) /\ issued[id] \in Message
      /\ UNCHANGED <<server, redirects, moved>>
      /\ destroyed' = destroyed \/ destroyed' = destroyed \cup {issued[id]}
  BY DEF StartMove, StartKeywords, StartDestroy, Known, TypeOK
<1>3. at \in SameMessage(id) /\ at \in Id
  BY <1>2, ResolveSound DEF SameMessage
<1> HIDE DEF at
<1>4. /\ c \in Calls
      /\ c # Idle => c.asked = id /\ c.at = at
      /\ c # Idle /\ c.pc = "flagging" => issued[id] \in destroyed'
  <2>1. CASE c = Copying(id, at, targets)
    <3>1. c \in Calls /\ (c # Idle => c.pc = "copying" /\ c.asked = id /\ c.at = at)
      BY <1>3, <2>1, CopyingShape
    <3> QED
      BY <3>1
  <2>2. CASE c = [pc |-> "keywords", asked |-> id, targets |-> targets, at |-> at]
    BY <1>3, <2>2 DEF Calls
  <2>3. CASE /\ c = [pc |-> "flagging", asked |-> id, at |-> at, moves |-> FALSE]
             /\ issued[id] \in destroyed'
    BY <1>3, <2>3 DEF Calls
  <2> QED
    BY <1>1, <2>1, <2>2, <2>3
<1>5. call' \in [Handler -> Calls]
  BY <1>1, <1>4 DEF TypeOK
<1>6. \A u \in Handler : call'[u] = IF u = t THEN c ELSE call[u]
  BY <1>1 DEF TypeOK
<1>7. \A u \in Handler : call'[u] # Idle =>
        /\ Known(call'[u].asked) /\ call'[u].at \in SameMessage(call'[u].asked)
        /\ call'[u].pc = "flagging" =>
             call'[u] = call[u] \/ issued[call'[u].asked] \in destroyed'
  BY <1>2, <1>3, <1>4, <1>6 DEF Sound
<1>8. destroyed \subseteq destroyed' /\ destroyed' \subseteq Message /\ moved' \subseteq Id
  BY <1>2 DEF TypeOK
<1> QED
  BY <1>2, <1>5, <1>7, <1>8, CallsStep

LEMMA StopStep ==
  ASSUME IInv, Restart \/ \E t \in Handler : Abort(t)
  PROVE  IInv'
<1> USE DEF IInv
<1>1. /\ UNCHANGED <<server, destroyed>>
      /\ redirects' = redirects \/ redirects' = <<>>
      /\ moved' \in {moved, {}}
  BY DEF Restart, Abort
<1>2. /\ call' \in [Handler -> Calls]
      /\ \A u \in Handler : call'[u] \in {call[u], Idle}
  BY DEF Restart, Abort, Become, Calls, TypeOK
<1>3. \A u \in Handler : call'[u] # Idle =>
        /\ Known(call'[u].asked) /\ call'[u].at \in SameMessage(call'[u].asked)
        /\ call'[u].pc = "flagging" =>
             call'[u] = call[u] \/ issued[call'[u].asked] \in destroyed'
  BY <1>2 DEF Sound
<1>4. destroyed \subseteq destroyed' /\ destroyed' \subseteq Message /\ moved' \subseteq Id
  BY <1>1 DEF TypeOK
<1> QED
  BY <1>1, <1>2, <1>3, <1>4, CallsStep

\* A new location: nobody knows its id yet.
LEMMA PlaceStep ==
  ASSUME TypeOK, Sound, NEW msg \in Message, NEW m \in Mailbox, Place(msg, m)
  PROVE  /\ <<m, uid + 1>> \in Id
         /\ store[<<m, uid + 1>>] = None /\ ~Known(<<m, uid + 1>>)
         /\ ~Doomed(<<m, uid + 1>>)
         /\ uid' \in 0..MaxUid
         /\ store' \in [Id -> Message \cup {None}]
         /\ issued' \in [Id -> Message \cup {None}]
         /\ \A x \in Id : store'[x] = IF x = <<m, uid + 1>> THEN msg ELSE store[x]
         /\ \A x \in Id : issued'[x] = IF x = <<m, uid + 1>> THEN msg ELSE issued[x]
         /\ \A x \in Id : x[2] > uid' => issued'[x] = None
<1>1. <<m, uid + 1>> \in Id /\ uid' = uid + 1 /\ uid' \in 0..MaxUid
  BY DEF Place, Id, TypeOK
<1> DEFINE new == <<m, uid + 1>>
<1>2. new[2] > uid /\ \A x \in Id : x[2] \in Nat
  BY <1>1 DEF Id, TypeOK
<1>3. issued[new] = None /\ store[new] = None
  BY <1>1, <1>2 DEF TypeOK, Sound
<1>4. new \notin deleted
  BY <1>1, <1>3 DEF TypeOK
<1>5. ~Doomed(new)
  BY <1>3, <1>4 DEF Doomed, Sound, SameMessage, Known
<1>6. /\ store' = [store EXCEPT ![new] = msg]
      /\ issued' = [issued EXCEPT ![new] = msg]
  BY DEF Place
<1>7. new[2] = uid'
  BY <1>1
<1> HIDE DEF new
<1>8. \A x \in Id : x[2] > uid' => issued'[x] = None
  BY <1>1, <1>2, <1>6, <1>7 DEF TypeOK
<1>9. /\ store' \in [Id -> Message \cup {None}]
      /\ issued' \in [Id -> Message \cup {None}]
      /\ \A x \in Id : store'[x] = IF x = new THEN msg ELSE store[x]
      /\ \A x \in Id : issued'[x] = IF x = new THEN msg ELSE issued[x]
  BY <1>6 DEF TypeOK
<1> QED
  BY <1>1, <1>3, <1>5, <1>8, <1>9 DEF new, Known

\* A delivery, an APPEND or a COPY puts a message where nobody works yet; a
\* copy that takes over the flag is one of a message that has had another.
LEMMA NewCopyStep ==
  ASSUME IInv, NEW msg \in Message, NEW m \in Mailbox, Place(msg, m),
         UNCHANGED <<redirects, call, destroyed, moved>>,
         \/ deleted' = deleted
         \/ deleted' = deleted \cup {<<m, uid + 1>>} /\ \E z \in Id : issued[z] = msg
  PROVE  IInv'
<1> USE DEF IInv
<1>1. PICK new : new = <<m, uid + 1>>
  OBVIOUS
<1>2. \/ deleted' = deleted
      \/ deleted' = deleted \cup {new} /\ \E z \in Id : issued[z] = msg
  BY <1>1
<1>3. /\ new \in Id /\ store[new] = None /\ ~Known(new) /\ ~Doomed(new)
      /\ uid' \in 0..MaxUid
      /\ store' \in [Id -> Message \cup {None}]
      /\ issued' \in [Id -> Message \cup {None}]
      /\ \A x \in Id : store'[x] = IF x = new THEN msg ELSE store[x]
      /\ \A x \in Id : issued'[x] = IF x = new THEN msg ELSE issued[x]
      /\ \A x \in Id : x[2] > uid' => issued'[x] = None
  BY <1>1, PlaceStep
<1>4. TypeOK'
  BY <1>2, <1>3 DEF TypeOK
<1>5. \A x \in Id : Known(x) => Known(x)' /\ issued'[x] = issued[x]
  BY <1>3 DEF Known, TypeOK
<1>6. \A x \in Id : Known(x) => SameMessage(x) \subseteq SameMessage(x)'
  BY <1>5 DEF SameMessage
<1>7. Sound'
  <2>1. \A x \in Id : store'[x] \in {issued'[x], None}
    BY <1>3 DEF Sound
  <2>2. \A e \in Entries(redirects) : e.old \in Id
    BY EntryType
  <2>3. \A u \in Handler : call[u] # Idle => call[u].asked \in Id
    BY CallShape
  <2> QED
    BY <1>5, <1>6, <2>1, <2>2, <2>3 DEF Sound
<1>8. /\ \A y \in Id : y # new /\ ~Doomed(y) => ~Doomed(y)'
      /\ deleted' = deleted => ~Doomed(new)'
  <2>1. /\ call' = call
        /\ \A y \in Id : y \in deleted' => y \in deleted \/ y = new
    BY <1>2
  <2>2. ASSUME NEW y \in Id, y # new, ~Doomed(y) PROVE ~Doomed(y)'
    BY <2>1, <2>2 DEF Doomed
  <2>3. ASSUME deleted' = deleted PROVE ~Doomed(new)'
    BY <1>3, <2>1, <2>3 DEF Doomed
  <2> QED
    BY <2>2, <2>3
<1>9. SafeCopy'
  <2> SUFFICES ASSUME NEW x \in Id, Known(x)', issued'[x] \notin destroyed
               PROVE  \E y \in Id : store'[y] = issued'[x] /\ ~Doomed(y)'
    BY DEF SafeCopy
  <2>1. CASE x = new /\ deleted' = deleted
    BY <1>3, <1>8, <2>1
  <2>2. CASE x # new \/ deleted' # deleted
    <3>1. PICK z \in Id : Known(z) /\ issued[z] = issued'[x]
      BY <1>2, <1>3, <2>2 DEF Known
    <3>2. PICK y \in Id : store[y] = issued[z] /\ ~Doomed(y)
      BY <3>1 DEF SafeCopy
    <3>3. y # new
      BY <1>3, <3>1, <3>2 DEF Known
    <3> QED
      BY <1>3, <1>8, <3>1, <3>2, <3>3
  <2> QED
    BY <2>1, <2>2
<1> QED
  BY <1>4, <1>7, <1>9

LEMMA DeliverStep ==
  ASSUME IInv, NEW msg \in Message, NEW m \in Mailbox, Deliver(msg, m)
  PROVE  IInv'
BY NewCopyStep DEF Deliver

-----------------------------------------------------------------------------
LEMMA KeywordsStep ==
  ASSUME IInv, NEW t \in Handler, SetKeywords(t)
  PROVE  IInv'
<1> USE DEF IInv
<1> DEFINE c == call[t]
           next == Copying(c.asked, c.at, c.targets)
<1>1. /\ c # Idle /\ c.asked \in Id /\ c.at \in Id /\ c.targets \in SUBSET Mailbox
  BY CallShape DEF SetKeywords, Idle
<1>2. /\ deleted' = deleted \ {c.at}
      /\ call' = [call EXCEPT ![t] = next]
      /\ UNCHANGED <<store, uid, issued, redirects, destroyed, moved>>
  BY DEF SetKeywords, Become
<1>3. /\ next \in Calls
      /\ next # Idle => next.pc = "copying" /\ next.asked = c.asked /\ next.at = c.at
  BY <1>1, CopyingShape
<1> HIDE DEF next
<1>4. /\ call' \in [Handler -> Calls]
      /\ \A u \in Handler : call'[u] = IF u = t THEN next ELSE call[u]
  BY <1>2, <1>3 DEF TypeOK
<1>5. TypeOK'
  BY <1>2, <1>4 DEF TypeOK
<1>6. Sound'
  BY <1>1, <1>2, <1>3, <1>4 DEF Sound, SameMessage, Known
<1>7. \A y \in Id : ~Doomed(y) => ~Doomed(y)'
  BY <1>2, <1>3, <1>4 DEF Doomed
<1>8. SafeCopy'
  BY <1>2, <1>7 DEF SafeCopy, Known
<1> QED
  BY <1>5, <1>6, <1>8

\* What follows a COPY, whatever it copied and reported.
LEMMA AfterCopyStep ==
  ASSUME TypeOK, NEW t \in Handler, call[t].pc = "copying", NEW m \in call[t].todo,
         NEW landed \in Id \cup {None}, AfterCopy(t, m, landed)
  PROVE  /\ call[t] # Idle /\ call[t].asked \in Id /\ call[t].at \in Id /\ m \in Mailbox
         /\ call' \in [Handler -> Calls]
         /\ \A u \in Handler : u # t => call'[u] = call[u]
         /\ call'[t] # Idle => call'[t].asked = call[t].asked /\ call'[t].at = call[t].at
         /\ redirects' \in Seq([old : Id, new : Id])
         /\ IsTable(redirects') /\ Len(redirects') <= MaxEntries
         /\ \A e \in Entries(redirects') :
              \/ e \in Entries(redirects)
              \/ landed # None /\ e = [old |-> call[t].asked, new |-> landed]
<1> DEFINE c == call[t]
           rest == c.todo \ {m}
           recorded == rest = {} /\ c.leaves /\ c.only /\ landed # None
           next == IF rest # {} THEN [c EXCEPT !.todo = rest]
                   ELSE IF ~c.leaves THEN Idle
                   ELSE [pc |-> "flagging", asked |-> c.asked, at |-> c.at, moves |-> recorded]
<1>1. /\ c \in [pc : {"copying"}, asked : Id, at : Id, todo : SUBSET Mailbox,
                only : BOOLEAN, leaves : BOOLEAN]
      /\ c # Idle
  BY CallShape DEF Idle
<1>2. /\ call' = [call EXCEPT ![t] = next]
      /\ redirects' = IF recorded THEN Record(redirects, c.asked, landed) ELSE redirects
  BY DEF AfterCopy, Become
<1>3. /\ c.asked \in Id /\ c.at \in Id /\ rest \in SUBSET Mailbox /\ c.leaves \in BOOLEAN
      /\ c.only \in BOOLEAN /\ m \in Mailbox
  BY <1>1
<1>4. recorded \in BOOLEAN
  BY <1>3
<1>5. /\ next \in Calls
      /\ next # Idle => next.asked = c.asked /\ next.at = c.at
  <2>1. CASE rest # {}
    <3>1. /\ next \in [pc : {"copying"}, asked : Id, at : Id, todo : SUBSET Mailbox,
                       only : BOOLEAN, leaves : BOOLEAN]
          /\ next.asked = c.asked /\ next.at = c.at
      BY <1>1, <1>3, <2>1
    <3> QED
      BY <3>1 DEF Calls
  <2>2. CASE rest = {} /\ ~c.leaves
    BY <2>2 DEF Calls
  <2>3. CASE rest = {} /\ c.leaves
    <3> HIDE DEF recorded
    <3>1. next = [pc |-> "flagging", asked |-> c.asked, at |-> c.at, moves |-> recorded]
      BY <2>3
    <3> HIDE DEF next
    <3>2. next \in [pc : {"flagging", "expunging"}, asked : Id, at : Id, moves : BOOLEAN]
      BY <1>3, <1>4, <3>1
    <3> QED
      BY <3>1, <3>2 DEF Calls
  <2> QED
    BY <2>1, <2>2, <2>3
<1> HIDE DEF next
<1>6. /\ call' \in [Handler -> Calls]
      /\ \A u \in Handler : call'[u] = IF u = t THEN next ELSE call[u]
  BY <1>2, <1>5 DEF TypeOK
<1>7. CASE ~recorded
  BY <1>1, <1>2, <1>3, <1>5, <1>6, <1>7 DEF TypeOK
<1>8. CASE recorded
  <2>1. landed \in Id /\ landed # None /\ redirects' = Record(redirects, c.asked, landed)
    BY <1>2, <1>8
  <2>2. /\ redirects' \in Seq([old : Id, new : Id])
        /\ IsTable(redirects') /\ Len(redirects') <= MaxEntries
        /\ Entries(redirects') \subseteq
             Entries(redirects) \cup {[old |-> c.asked, new |-> landed]}
    BY <1>3, <2>1, RecordKeepsTable DEF TypeOK
  <2> QED
    BY <1>1, <1>3, <1>5, <1>6, <2>1, <2>2
<1> QED
  BY <1>7, <1>8

LEMMA CopyMissingStep ==
  ASSUME IInv, NEW t \in Handler, call[t].pc = "copying", NEW m \in call[t].todo,
         CopyMissing(t, m), UNCHANGED <<destroyed, moved>>
  PROVE  IInv'
<1> USE DEF IInv
<1>1. /\ store[call[t].at] = None
      /\ UNCHANGED <<store, deleted, uid, issued, destroyed, moved>>
      /\ AfterCopy(t, m, None)
  BY DEF CopyMissing
<1>2. /\ call[t] # Idle /\ call[t].asked \in Id /\ call[t].at \in Id
      /\ call' \in [Handler -> Calls]
      /\ \A u \in Handler : u # t => call'[u] = call[u]
      /\ call'[t] # Idle => call'[t].asked = call[t].asked /\ call'[t].at = call[t].at
      /\ redirects' \in Seq([old : Id, new : Id])
      /\ IsTable(redirects') /\ Len(redirects') <= MaxEntries
      /\ Entries(redirects') \subseteq Entries(redirects)
  BY <1>1, AfterCopyStep
<1>3. TypeOK'
  BY <1>1, <1>2 DEF TypeOK
<1>4. Sound'
  BY <1>1, <1>2 DEF Sound, SameMessage, Known
<1>5. \A y \in Id : store[y] # None /\ ~Doomed(y) => ~Doomed(y)'
  BY <1>1, <1>2 DEF Doomed
<1>6. SafeCopy'
  BY <1>1, <1>5 DEF SafeCopy, Known
<1> QED
  BY <1>3, <1>4, <1>6

LEMMA CopyThereStep ==
  ASSUME IInv, NEW t \in Handler, call[t].pc = "copying", NEW m \in call[t].todo,
         CopyThere(t, m), UNCHANGED <<destroyed, moved>>
  PROVE  IInv'
<1> USE DEF IInv
<1>1. /\ call[t] # Idle /\ call[t].at \in Id /\ call[t].asked \in Id
      /\ m \in Mailbox
  BY CallShape DEF Idle
<1>2. PICK from \in Id, asked \in Id : from = call[t].at /\ asked = call[t].asked
  BY <1>1
<1>3. PICK msg \in Message :
        /\ msg = store[from] /\ msg = issued[from] /\ Known(from)
        /\ issued[asked] = msg /\ Known(asked)
  BY <1>1, <1>2 DEF CopyThere, TypeOK, Sound, SameMessage, Known
<1>4. PICK new : new = <<m, uid + 1>>
  OBVIOUS
<1>5. /\ new \in Id /\ store[new] = None /\ ~Known(new) /\ ~Doomed(new)
      /\ uid' \in 0..MaxUid
      /\ store' \in [Id -> Message \cup {None}]
      /\ issued' \in [Id -> Message \cup {None}]
      /\ \A x \in Id : store'[x] = IF x = new THEN msg ELSE store[x]
      /\ \A x \in Id : issued'[x] = IF x = new THEN msg ELSE issued[x]
      /\ \A x \in Id : x[2] > uid' => issued'[x] = None
  <2>1. Place(msg, m)
    BY <1>2, <1>3 DEF CopyThere
  <2> QED
    BY <1>1, <1>4, <2>1, PlaceStep
<1>6. /\ deleted' = IF from \in deleted THEN deleted \cup {new} ELSE deleted
      /\ UNCHANGED <<destroyed, moved>>
  BY <1>2, <1>4 DEF CopyThere
<1>7. PICK landed \in {new, None} : AfterCopy(t, m, landed)
  BY <1>4 DEF CopyThere
<1>8. /\ call' \in [Handler -> Calls]
      /\ \A u \in Handler : u # t => call'[u] = call[u]
      /\ call'[t] # Idle => call'[t].asked = call[t].asked /\ call'[t].at = from
      /\ redirects' \in Seq([old : Id, new : Id])
      /\ IsTable(redirects') /\ Len(redirects') <= MaxEntries
      /\ \A e \in Entries(redirects') :
           e \in Entries(redirects) \/ e = [old |-> asked, new |-> new]
  <2>1. landed \in Id \cup {None}
    BY <1>5, <1>7
  <2> QED
    BY <1>2, <1>7, <2>1, AfterCopyStep
<1>9. TypeOK'
  BY <1>3, <1>5, <1>6, <1>8 DEF TypeOK
<1>10. \A x \in Id : Known(x) => Known(x)' /\ issued'[x] = issued[x] /\ x # new
  BY <1>5 DEF Known, TypeOK
<1>11. \A x \in Id : Known(x) => SameMessage(x) \subseteq SameMessage(x)'
  BY <1>10 DEF SameMessage
<1>16. issued'[new] = msg /\ msg # None
  BY <1>3, <1>5
<1>12. Sound'
  <2>1. \A x \in Id : store'[x] \in {issued'[x], None}
    BY <1>5 DEF Sound
  <2>2. ASSUME NEW e \in Entries(redirects')
        PROVE  Known(e.old)' /\ e.new \in SameMessage(e.old)'
    <3>1. CASE e \in Entries(redirects)
      BY <1>10, <1>11, <3>1, EntryType DEF Sound
    <3>2. CASE e = [old |-> asked, new |-> new]
      <4>1. Known(asked)' /\ issued'[asked] = msg
        BY <1>3, <1>10
      <4>2. new \in SameMessage(asked)'
        BY <1>5, <1>16, <4>1 DEF SameMessage, Known
      <4>3. e.old = asked /\ e.new = new
        BY <3>2
      <4> QED
        BY <4>1, <4>2, <4>3
    <3> QED
      BY <1>8, <3>1, <3>2
  <2>3. ASSUME NEW u \in Handler, call'[u] # Idle
        PROVE  (Known(call[u].asked) /\ call[u].at \in SameMessage(call[u].asked))'
    <3>1. /\ call[u] # Idle
          /\ call'[u].asked = call[u].asked /\ call'[u].at = call[u].at
      BY <1>1, <1>2, <1>8, <2>3
    <3>2. PICK id \in Id, at \in Id : id = call[u].asked /\ at = call[u].at
      BY <3>1, CallShape
    <3>3. Known(id) /\ at \in SameMessage(id)
      BY <3>1, <3>2 DEF Sound
    <3>4. Known(id)' /\ at \in SameMessage(id)'
      BY <1>10, <1>11, <3>3
    <3>5. call'[u].asked = id /\ call'[u].at = at
      BY <3>1, <3>2
    <3> QED
      BY <3>4, <3>5
  <2> QED
    BY <2>1, <2>2, <2>3 DEF Sound
<1>13. \A y \in Id : y # from /\ y # new /\ ~Doomed(y) => ~Doomed(y)'
  BY <1>6, <1>8 DEF Doomed
<1>14. from \notin deleted => ~Doomed(new)'
  <2>1. from # new
    BY <1>2, <1>3, <1>10
  <2> QED
    BY <1>5, <1>6, <1>8, <2>1 DEF Doomed
<1>15. SafeCopy'
  <2> SUFFICES ASSUME NEW x \in Id, Known(x)', issued'[x] \notin destroyed
               PROVE  \E y \in Id : store'[y] = issued'[x] /\ ~Doomed(y)'
    BY <1>6 DEF SafeCopy
  <2>1. PICK z \in Id : Known(z) /\ issued[z] = issued'[x]
    BY <1>3, <1>5 DEF Known
  <2>2. PICK y \in Id : store[y] = issued[z] /\ ~Doomed(y)
    BY <2>1 DEF SafeCopy
  <2>3. y # new
    BY <1>5, <2>1, <2>2 DEF Known
  <2>4. CASE y = from
    <3>1. from \notin deleted /\ msg = issued[z]
      BY <1>3, <2>2, <2>4 DEF Doomed
    <3> QED
      BY <1>5, <1>14, <2>1, <3>1
  <2>5. CASE y # from
    BY <1>5, <1>13, <2>1, <2>2, <2>3, <2>5
  <2> QED
    BY <2>4, <2>5
<1> QED
  BY <1>9, <1>12, <1>15

LEMMA FlagStep ==
  ASSUME IInv, NEW t \in Handler, Flag(t)
  PROVE  IInv'
<1> USE DEF IInv
<1> DEFINE c == call[t]
<1>1. /\ c # Idle /\ c.at \in Id
      /\ c \in [pc : {"flagging", "expunging"}, asked : Id, at : Id, moves : BOOLEAN]
  BY CallShape DEF Flag, Idle
<1>2. /\ deleted' = IF store[c.at] # None THEN deleted \cup {c.at} ELSE deleted
      /\ call' = [call EXCEPT ![t] = [c EXCEPT !.pc = "expunging"]]
      /\ UNCHANGED <<store, uid, issued, redirects, destroyed, moved>>
      /\ c.pc = "flagging"
  BY DEF Flag, Become
<1>3. /\ [c EXCEPT !.pc = "expunging"] \in Calls
      /\ [c EXCEPT !.pc = "expunging"].asked = c.asked
      /\ [c EXCEPT !.pc = "expunging"].at = c.at
      /\ [c EXCEPT !.pc = "expunging"].pc = "expunging"
  BY <1>1 DEF Calls
<1> DEFINE next == [c EXCEPT !.pc = "expunging"]
<1> HIDE DEF next
<1>4. /\ call' \in [Handler -> Calls]
      /\ \A u \in Handler : call'[u] = IF u = t THEN next ELSE call[u]
      /\ next.asked = c.asked /\ next.at = c.at /\ next.pc = "expunging"
  BY <1>2, <1>3 DEF TypeOK, next
<1>5. TypeOK'
  BY <1>1, <1>2, <1>4 DEF TypeOK
<1>6. Sound'
  BY <1>1, <1>2, <1>4 DEF Sound, SameMessage, Known
<1>7. \A y \in Id : ~Doomed(y) => ~Doomed(y)'
  <2> SUFFICES ASSUME NEW y \in Id, ~Doomed(y) PROVE ~Doomed(y)'
    OBVIOUS
  <2>1. y # c.at /\ y \notin deleted
    BY <1>1, <1>2 DEF Doomed
  <2> QED
    BY <1>2, <1>4, <2>1 DEF Doomed
<1>8. SafeCopy'
  BY <1>2, <1>7 DEF SafeCopy, Known
<1> QED
  BY <1>5, <1>6, <1>8

LEMMA ExpungeStep ==
  ASSUME IInv, NEW t \in Handler, Expunge(t)
  PROVE  IInv'
<1> USE DEF IInv
<1> DEFINE x == call[t].at
<1>1. call[t] # Idle /\ x \in Id /\ call[t].asked \in Id
  BY CallShape DEF Expunge, Idle
<1>2. /\ IF x \in deleted
           THEN store' = [store EXCEPT ![x] = None] /\ deleted' = deleted \ {x}
           ELSE UNCHANGED <<store, deleted>>
      /\ moved' = IF call[t].moves THEN moved \cup {call[t].asked, x} ELSE moved
      /\ call' = [call EXCEPT ![t] = Idle]
      /\ UNCHANGED <<uid, issued, redirects, destroyed>>
  BY DEF Expunge, Become
<1> HIDE DEF x
<1>3. /\ call' \in [Handler -> Calls]
      /\ \A u \in Handler : call'[u] = IF u = t THEN Idle ELSE call[u]
  BY <1>2 DEF TypeOK, Calls
<1>4. /\ moved' \subseteq Id
      /\ store' \in [Id -> Message \cup {None}]
      /\ deleted' \subseteq Id
      /\ \A y \in Id : y \notin deleted => y \notin deleted' /\ store'[y] = store[y]
      /\ \A y \in Id : y \in deleted' => store'[y] # None
      /\ \A y \in Id : store'[y] \in {store[y], None}
  BY <1>1, <1>2 DEF TypeOK
<1>5. TypeOK'
  BY <1>2, <1>3, <1>4 DEF TypeOK
<1>6. Sound'
  BY <1>2, <1>3, <1>4 DEF Sound, SameMessage, Known
<1>7. \A y \in Id : ~Doomed(y) => ~Doomed(y)' /\ store'[y] = store[y]
  BY <1>3, <1>4 DEF Doomed
<1>8. SafeCopy'
  BY <1>2, <1>7 DEF SafeCopy, Known
<1> QED
  BY <1>5, <1>6, <1>8

-----------------------------------------------------------------------------
LEMMA StepPreserves ==
  ASSUME IInv, NEW t \in Handler, Step(t)
  PROVE  IInv'
<1>1. CASE \E id \in Id : \/ \E targets \in SUBSET Mailbox : StartMove(t, id, targets)
                          \/ \E targets \in SUBSET Mailbox : StartKeywords(t, id, targets)
                          \/ StartDestroy(t, id)
  <2>1. PICK id \in Id, targets \in SUBSET Mailbox :
          StartMove(t, id, targets) \/ StartKeywords(t, id, targets) \/ StartDestroy(t, id)
    BY <1>1
  <2> QED
    BY <2>1, StartStep
<1>2. CASE Copy(t)
  BY <1>2, CopyThereStep, CopyMissingStep DEF Copy
<1>3. CASE Abort(t)
  BY <1>3, StopStep
<1> QED
  BY <1>1, <1>2, <1>3, KeywordsStep, FlagStep, ExpungeStep DEF Step

LEMMA NothingStep ==
  ASSUME IInv, UNCHANGED vars
  PROVE  IInv'
<1>1. TypeOK'
  BY DEF vars, server, IInv, TypeOK
<1>2. Sound'
  BY DEF vars, server, IInv, Sound, SameMessage, Known
<1>3. SafeCopy'
  BY DEF vars, server, IInv, SafeCopy, Known, Doomed
<1> QED
  BY <1>1, <1>2, <1>3 DEF IInv

LEMMA NextPreserves ==
  ASSUME IInv, Next
  PROVE  IInv'
BY DeliverStep, StepPreserves, StopStep DEF Next

\* The inductive invariant holds of moves, destroys and restarts
\* (email.py:987-1122).
THEOREM MovesInvariance == Spec => []IInv
<1>1. IInv /\ [Next]_vars => IInv'
  BY NextPreserves, NothingStep
<1> QED
  BY InitIInv, <1>1, PTL DEF Spec

\* Types, and the shape of the redirects' table (id_redirect.py:32-39).
THEOREM MovesTypes == Spec => []TypeOK
BY MovesInvariance, PTL DEF IInv

LEMMA Consequences ==
  ASSUME IInv
  PROVE  Survives /\ RightMessage
<1>1. Survives
  BY DEF IInv, SafeCopy, Survives, Doomed, Clean
<1>2. ASSUME NEW x \in Id, Known(x) PROVE Found(x) \in {issued[x], None}
  <2>1. Resolve(redirects, x) \in SameMessage(x)
    BY <1>2, ResolveSound DEF IInv
  <2> QED
    BY <2>1 DEF Found, SameMessage, IInv, Sound
<1>3. ASSUME NEW t \in Handler, call[t] # Idle
      PROVE  store[call[t].at] \in {issued[call[t].asked], None}
  BY <1>3 DEF IInv, Sound, SameMessage
<1> QED
  BY <1>1, <1>2, <1>3 DEF RightMessage

\* No interleaving of moves, keyword changes, failures and restarts loses a
\* message (email.py:1036-1095).
THEOREM NoMessageLost == Spec => []Survives
<1>1. IInv => Survives
  BY Consequences
<1> QED
  BY MovesInvariance, <1>1, PTL

\* An id, redirected or not, never leads to another message than the one it
\* was issued for (email.py:1007-1015, 1078-1091).
THEOREM IdsAreFaithful == Spec => []RightMessage
<1>1. IInv => RightMessage
  BY Consequences
<1> QED
  BY MovesInvariance, <1>1, PTL

-----------------------------------------------------------------------------
(***************************************************************************)
(* Creates.  Each is at a message it has APPENDed, or at one with the same *)
(* Message-Id, whose id is never given to another message.                 *)
(***************************************************************************)
Creates ==
    [pc : {"locating", "copying", "created"}, msg : Message, primary : Mailbox,
     others : SUBSET Mailbox, todo : SUBSET Mailbox, before : 0..MaxUid,
     id : Id \cup {None}]

MakingTypes ==
    /\ making \in [Handler -> {Idle} \cup Creates]
    /\ \A t \in Handler : making[t].pc \in {"copying", "created"} => making[t].id \in Id

\* Every mailbox that is not left to do has its copy, or the COPY came too
\* late, and the message is found gone in the end.
Honest(c) ==
    /\ c.todo \subseteq c.others
    /\ CopiedTo(c.msg, c.primary, c.before)
    /\ c.pc = "locating" => c.todo = c.others
    /\ c.pc # "locating" => issued[c.id] = c.msg
    /\ c.pc = "copying" =>
         \A m \in c.others \ c.todo : store[c.id] = None \/ CopiedTo(c.msg, m, c.before)
    /\ c.pc = "created" => \A m \in c.others : CopiedTo(c.msg, m, c.before)

HonestCreates == \A t \in Handler : making[t] # Idle => Honest(making[t])

CreateInv == IInv /\ MakingTypes

LEMMA MakingShape ==
  ASSUME MakingTypes, NEW t \in Handler, making[t].pc \in {"locating", "copying", "created"}
  PROVE  making[t] \in Creates /\ making[t] # Idle
BY DEF MakingTypes, Idle

LEMMA MakeStep ==
  ASSUME MakingTypes, NEW t \in Handler, NEW c \in {Idle} \cup Creates, Make(t, c),
         c.pc \in {"copying", "created"} => c.id \in Id
  PROVE  /\ MakingTypes'
         /\ \A u \in Handler : making'[u] = IF u = t THEN c ELSE making[u]
BY DEF MakingTypes, Make

LEMMA AppendStep ==
  ASSUME CreateInv, NEW t \in Handler, NEW msg \in Message, NEW m \in Mailbox,
         NEW others \in SUBSET (Mailbox \ {m}), AppendMessage(t, msg, m, others)
  PROVE  CreateInv'
<1> DEFINE c == [pc |-> "copying", msg |-> msg, primary |-> m, others |-> others,
                 todo |-> others, before |-> uid, id |-> <<m, uid + 1>>]
<1>1. /\ Place(msg, m)
      /\ Make(t, c) \/ Make(t, [c EXCEPT !.pc = "locating", !.id = None])
      /\ UNCHANGED <<deleted, redirects, call, destroyed, moved>>
  BY DEF AppendMessage
<1>2. IInv'
  BY <1>1, NewCopyStep DEF CreateInv
<1>3. <<m, uid + 1>> \in Id /\ uid \in 0..MaxUid
  BY <1>1, PlaceStep DEF CreateInv, IInv, TypeOK
<1>4. /\ c \in Creates /\ c.id \in Id
      /\ [c EXCEPT !.pc = "locating", !.id = None] \in Creates
      /\ [c EXCEPT !.pc = "locating", !.id = None].pc = "locating"
  BY <1>3 DEF Creates
<1> HIDE DEF c
<1>5. MakingTypes'
  BY <1>1, <1>4, MakeStep DEF CreateInv
<1> QED
  BY <1>2, <1>5 DEF CreateInv

LEMMA FindStep ==
  ASSUME CreateInv, NEW t \in Handler, FindUidByMessageId(t)
  PROVE  CreateInv'
<1> DEFINE c == making[t]
<1>1. PICK n \in 1..MaxUid : Make(t, [c EXCEPT !.pc = "copying", !.id = <<c.primary, n>>])
  BY DEF FindUidByMessageId
<1>2. c \in Creates /\ UNCHANGED vars
  BY MakingShape DEF FindUidByMessageId, CreateInv
<1>3. /\ [c EXCEPT !.pc = "copying", !.id = <<c.primary, n>>] \in Creates
      /\ [c EXCEPT !.pc = "copying", !.id = <<c.primary, n>>].id \in Id
  BY <1>1, <1>2 DEF Creates, Id
<1> HIDE DEF c
<1>4. MakingTypes'
  BY <1>1, <1>3, MakeStep DEF CreateInv
<1> QED
  BY <1>2, <1>4, NothingStep DEF CreateInv

LEMMA CopyOtherStep ==
  ASSUME CreateInv, NEW t \in Handler, NEW m \in Mailbox, CopyToOther(t, m)
  PROVE  CreateInv'
<1> DEFINE c == making[t]
<1>1. c \in Creates /\ c.id \in Id /\ c.pc = "copying"
  BY MakingShape DEF CopyToOther, CreateInv, MakingTypes
<1>2. /\ Make(t, [c EXCEPT !.todo = @ \ {m}])
      /\ UNCHANGED <<redirects, call, destroyed, moved>>
  BY DEF CopyToOther
<1>3. IInv'
  <2>1. CASE store[c.id] = None
    BY <1>2, <2>1, NothingStep DEF CopyToOther, CreateInv, vars, server
  <2>2. CASE store[c.id] # None
    <3>1. PICK msg \in Message : msg = store[c.id] /\ issued[c.id] = msg
      BY <1>1, <2>2 DEF CreateInv, IInv, TypeOK, Sound
    <3>2. /\ Place(msg, m)
          /\ deleted' = IF c.id \in deleted THEN deleted \cup {<<m, uid + 1>>} ELSE deleted
      BY <2>2, <3>1 DEF CopyToOther
    <3> HIDE DEF c
    <3> QED
      BY <1>1, <1>2, <3>1, <3>2, NewCopyStep DEF CreateInv
  <2> QED
    BY <2>1, <2>2
<1>4. /\ [c EXCEPT !.todo = @ \ {m}] \in Creates
      /\ [c EXCEPT !.todo = @ \ {m}].id \in Id
  BY <1>1 DEF Creates
<1> HIDE DEF c
<1>5. MakingTypes'
  BY <1>2, <1>4, MakeStep DEF CreateInv
<1> QED
  BY <1>3, <1>5 DEF CreateInv

LEMMA EndStep ==
  ASSUME CreateInv, NEW t \in Handler, FetchBack(t) \/ EndCreate(t)
  PROVE  CreateInv'
<1> DEFINE c == making[t]
<1>1. UNCHANGED vars
  BY DEF FetchBack, EndCreate
<1>2. CASE Make(t, Idle)
  <2>1. Idle.pc = "idle"
    BY DEF Idle
  <2>2. MakingTypes'
    BY <1>2, <2>1, MakeStep DEF CreateInv
  <2> QED
    BY <1>1, <2>2, NothingStep DEF CreateInv
<1>3. CASE ~Make(t, Idle)
  <2>1. /\ c.pc = "copying" /\ Make(t, [c EXCEPT !.pc = "created"])
    BY <1>3 DEF FetchBack, EndCreate
  <2>2. c \in Creates /\ c.id \in Id
    BY <2>1, MakingShape DEF CreateInv, MakingTypes
  <2>3. [c EXCEPT !.pc = "created"] \in Creates /\ [c EXCEPT !.pc = "created"].id \in Id
    BY <2>2 DEF Creates
  <2> HIDE DEF c
  <2>4. MakingTypes'
    BY <2>1, <2>3, MakeStep DEF CreateInv
  <2> QED
    BY <1>1, <2>4, NothingStep DEF CreateInv
<1> QED
  BY <1>2, <1>3

LEMMA CreateInitInv == CreateInit => CreateInv
<1>1. ASSUME CreateInit PROVE CreateInv
  <2>1. Idle.pc = "idle"
    BY DEF Idle
  <2> QED
    BY <1>1, <2>1, InitIInv DEF CreateInit, CreateInv, MakingTypes
<1> QED
  BY <1>1

LEMMA CreateNextPreserves ==
  ASSUME CreateInv, [CreateNext]_createVars
  PROVE  CreateInv'
<1>1. ASSUME UNCHANGED making PROVE MakingTypes'
  BY <1>1 DEF CreateInv, MakingTypes
<1>2. CASE Next /\ UNCHANGED making
  BY <1>1, <1>2, NextPreserves DEF CreateInv
<1>3. CASE \E t \in Handler : CreateStep(t)
  BY <1>3, AppendStep, FindStep, CopyOtherStep, EndStep DEF CreateStep
<1>4. CASE Restart /\ making' = [t \in Handler |-> Idle]
  <2>1. Idle.pc = "idle"
    BY DEF Idle
  <2>2. MakingTypes'
    BY <1>4, <2>1 DEF MakingTypes
  <2> QED
    BY <1>4, <2>2, NextPreserves DEF Next, CreateInv
<1>5. CASE UNCHANGED createVars
  BY <1>1, <1>5, NothingStep DEF createVars, CreateInv
<1> QED
  BY <1>2, <1>3, <1>4, <1>5 DEF CreateNext, Next

\* It also holds beside creates and imports (email.py:821-850).
THEOREM CreatesInvariance == CreateSpec => []CreateInv
BY CreateInitInv, CreateNextPreserves, PTL DEF CreateSpec

\* Creates beside the moves lose no message either (email.py:821-850).
THEOREM NoMessageLostByCreates == CreateSpec => []Survives
<1>1. CreateInv => Survives
  BY Consequences DEF CreateInv
<1> QED
  BY CreatesInvariance, <1>1, PTL

\* Nor do they make an id lead to another message (email.py:821-850).
THEOREM IdsStayFaithful == CreateSpec => []RightMessage
<1>1. CreateInv => RightMessage
  BY Consequences DEF CreateInv
<1> QED
  BY CreatesInvariance, <1>1, PTL

-----------------------------------------------------------------------------
\* What a location was given does not change, and it is not filled again.
Persist ==
    \A x \in Id : Known(x) =>
        issued'[x] = issued[x] /\ (store[x] = None => store'[x] = None)

LEMMA PlacePersists ==
  ASSUME IInv, NEW msg \in Message, NEW m \in Mailbox, Place(msg, m)
  PROVE  Persist
<1>1. /\ ~Known(<<m, uid + 1>>)
      /\ \A x \in Id : store'[x] = IF x = <<m, uid + 1>> THEN msg ELSE store[x]
      /\ \A x \in Id : issued'[x] = IF x = <<m, uid + 1>> THEN msg ELSE issued[x]
  BY PlaceStep DEF IInv
<1> QED
  BY <1>1 DEF Persist

LEMMA NextPersists ==
  ASSUME IInv, Next
  PROVE  Persist
<1>1. ASSUME UNCHANGED <<store, issued>> PROVE Persist
  BY <1>1 DEF Persist
<1>2. CASE \E msg \in Message, m \in Mailbox : Deliver(msg, m)
  BY <1>2, PlacePersists DEF Deliver
<1>3. CASE Restart
  BY <1>1, <1>3 DEF Restart, server
<1>4. ASSUME NEW t \in Handler, Step(t) PROVE Persist
  <2>1. CASE Copy(t)
    <3>1. PICK m \in call[t].todo : CopyThere(t, m) \/ CopyMissing(t, m)
      BY <2>1 DEF Copy
    <3>2. CASE CopyMissing(t, m)
      BY <1>1, <3>2 DEF CopyMissing
    <3>3. CASE CopyThere(t, m)
      <4>1. call[t].at \in Id /\ m \in Mailbox
        BY <2>1, CallShape DEF Copy, IInv, Idle
      <4>2. store[call[t].at] \in Message
        BY <3>3, <4>1 DEF CopyThere, IInv, TypeOK
      <4> QED
        BY <3>3, <4>1, <4>2, PlacePersists DEF CopyThere
    <3> QED
      BY <3>1, <3>2, <3>3
  <2>2. CASE Expunge(t)
    <3>1. /\ issued' = issued
          /\ store' = store \/ store' = [store EXCEPT ![call[t].at] = None]
      BY <2>2 DEF Expunge
    <3>2. store \in [Id -> Message \cup {None}]
      BY DEF IInv, TypeOK
    <3> QED
      BY <3>1, <3>2 DEF Persist
  <2>3. CASE ~Copy(t) /\ ~Expunge(t)
    BY <1>1, <1>4, <2>3
       DEF Step, StartMove, StartKeywords, StartDestroy, SetKeywords, Flag, Abort, server
  <2> QED
    BY <2>1, <2>2, <2>3
<1> QED
  BY <1>2, <1>3, <1>4 DEF Next

LEMMA CopyIsInIds ==
  ASSUME NEW before \in 0..MaxUid, NEW m \in Mailbox, NEW n \in (before + 1)..MaxUid
  PROVE  <<m, n>> \in Id
BY DEF Id

\* What other steps do leaves a create honest.
LEMMA HonestStays ==
  ASSUME Persist, NEW c \in Creates, Honest(c),
         c.pc \in {"copying", "created"} => c.id \in Id
  PROVE  Honest(c)'
<1>1. ASSUME NEW m \in Mailbox, CopiedTo(c.msg, m, c.before)
      PROVE  CopiedTo(c.msg, m, c.before)'
  <2>1. c.before \in 0..MaxUid /\ c.msg \in Message
    BY DEF Creates
  <2>2. PICK n \in (c.before + 1)..MaxUid : issued[<<m, n>>] = c.msg
    BY <1>1 DEF CopiedTo
  <2>3. <<m, n>> \in Id
    BY <2>1, CopyIsInIds
  <2>4. issued'[<<m, n>>] = c.msg
    BY <2>1, <2>2, <2>3 DEF Persist, Known
  <2> QED
    BY <2>4 DEF CopiedTo
<1>2. /\ c.primary \in Mailbox /\ c.others \subseteq Mailbox /\ c.msg \in Message
      /\ c.pc \in {"locating", "copying", "created"}
  BY DEF Creates
<1>3. c.pc # "locating" =>
        issued'[c.id] = c.msg /\ (store[c.id] = None => store'[c.id] = None)
  BY <1>2 DEF Honest, Persist, Known
<1> QED
  BY <1>1, <1>2, <1>3 DEF Honest

LEMMA OthersStay ==
  ASSUME CreateInv, HonestCreates, Persist, NEW u \in Handler, making'[u] = making[u],
         making[u] # Idle
  PROVE  Honest(making[u])'
<1>1. PICK c \in Creates : c = making[u]
  BY DEF CreateInv, MakingTypes
<1>2. Honest(c)'
  BY <1>1, HonestStays DEF CreateInv, MakingTypes, HonestCreates
<1> QED
  BY <1>1, <1>2 DEF Honest

LEMMA HonestAppend ==
  ASSUME CreateInv, HonestCreates, NEW t \in Handler, NEW msg \in Message,
         NEW m \in Mailbox, NEW others \in SUBSET (Mailbox \ {m}),
         AppendMessage(t, msg, m, others)
  PROVE  HonestCreates'
<1> DEFINE c == [pc |-> "copying", msg |-> msg, primary |-> m, others |-> others,
                 todo |-> others, before |-> uid, id |-> <<m, uid + 1>>]
           d == [c EXCEPT !.pc = "locating", !.id = None]
<1>1. Place(msg, m) /\ (Make(t, c) \/ Make(t, d))
  BY DEF AppendMessage
<1>2. PICK before \in 0..MaxUid, id \in Id :
        /\ before = uid /\ id = <<m, before + 1>> /\ before + 1 <= MaxUid
  <2>1. <<m, uid + 1>> \in Id
    BY <1>1, PlaceStep DEF CreateInv, IInv
  <2>2. uid \in 0..MaxUid /\ uid + 1 <= MaxUid
    BY <1>1 DEF Place, CreateInv, IInv, TypeOK
  <2> QED
    BY <2>1, <2>2
<1>3. PICK made \in {c, d} : making' = [making EXCEPT ![t] = made]
  BY <1>1 DEF Make
<1>4. /\ made.todo = others /\ made.others = others /\ made.msg = msg
      /\ made.primary = m /\ made.before = before
      /\ (made.pc = "copying" /\ made.id = id) \/ made.pc = "locating"
  <2>1. CASE made = c
    BY <1>2, <2>1
  <2>2. CASE made = d
    BY <1>2, <2>2
  <2> QED
    BY <1>3, <2>1, <2>2
<1> HIDE DEF c, d
<1>5. issued'[id] = msg
  BY <1>1, <1>2, PlaceStep DEF CreateInv, IInv
<1>6. CopiedTo(msg, m, before)'
  BY <1>2, <1>5 DEF CopiedTo
<1>7. making'[t] = made /\ \A u \in Handler : u # t => making'[u] = making[u]
  BY <1>3 DEF CreateInv, MakingTypes
<1>8. Honest(making[t])'
  BY <1>4, <1>5, <1>6, <1>7 DEF Honest, CopiedTo
<1>9. Persist
  BY <1>1, PlacePersists DEF CreateInv
<1> QED
  BY <1>7, <1>8, <1>9, OthersStay DEF HonestCreates

LEMMA HonestFind ==
  ASSUME CreateInv, HonestCreates, \A a, b \in Versions : a = b,
         NEW t \in Handler, FindUidByMessageId(t)
  PROVE  HonestCreates'
<1>1. PICK c \in Creates : c = making[t] /\ c.pc = "locating"
  BY MakingShape DEF FindUidByMessageId, CreateInv
<1>2. PICK n \in 1..MaxUid :
        /\ store[<<c.primary, n>>] # None /\ SameMessageId(store[<<c.primary, n>>], c.msg)
        /\ making' = [making EXCEPT ![t] = [c EXCEPT !.pc = "copying", !.id = <<c.primary, n>>]]
  BY <1>1 DEF FindUidByMessageId, Make
<1>3. PICK id \in Id : id = <<c.primary, n>>
  BY <1>1, <1>2 DEF Creates, Id
<1>4. issued[id] = c.msg
  BY <1>2, <1>3 DEF SameMessageId, CreateInv, IInv, Sound
<1>5. PICK d : d = [c EXCEPT !.pc = "copying", !.id = id]
  OBVIOUS
<1>6. /\ d.todo = c.todo /\ d.others = c.others /\ d.msg = c.msg /\ d.primary = c.primary
      /\ d.before = c.before /\ d.pc = "copying" /\ d.id = id
  BY <1>1, <1>5 DEF Creates
<1>7. Honest(c)
  BY <1>1 DEF HonestCreates, Idle
<1>8. Honest(d)
  BY <1>1, <1>4, <1>6, <1>7 DEF Honest, CopiedTo
<1>9. /\ UNCHANGED vars
      /\ making'[t] = d /\ \A u \in Handler : u # t => making'[u] = making[u]
  BY <1>2, <1>3, <1>5 DEF FindUidByMessageId, CreateInv, MakingTypes
<1>10. Honest(making[t])'
  BY <1>8, <1>9 DEF Honest, CopiedTo, vars, server
<1>11. Persist
  BY <1>9 DEF Persist, vars, server
<1> QED
  BY <1>9, <1>10, <1>11, OthersStay DEF HonestCreates

LEMMA HonestCopy ==
  ASSUME CreateInv, HonestCreates, NEW t \in Handler, NEW m \in Mailbox, CopyToOther(t, m)
  PROVE  HonestCreates'
<1>1. PICK c \in Creates :
        c = making[t] /\ c.pc = "copying" /\ c.id \in Id /\ m \in c.todo
  BY MakingShape DEF CopyToOther, CreateInv, MakingTypes
<1>2. making' = [making EXCEPT ![t] = [c EXCEPT !.todo = @ \ {m}]]
  BY <1>1 DEF CopyToOther, Make
<1>3. PICK d : d = [c EXCEPT !.todo = @ \ {m}]
  OBVIOUS
<1>4. /\ d.todo = c.todo \ {m} /\ d.others = c.others /\ d.msg = c.msg
      /\ d.primary = c.primary /\ d.before = c.before /\ d.pc = "copying" /\ d.id = c.id
  BY <1>1, <1>3 DEF Creates
<1>5. Honest(c)
  BY <1>1 DEF HonestCreates, Idle
<1>6. /\ Persist
      /\ store'[c.id] = None \/ CopiedTo(c.msg, m, c.before)'
  <2>1. CASE store[c.id] = None
    BY <1>1, <2>1 DEF CopyToOther, server, Persist
  <2>2. CASE store[c.id] # None
    <3>1. store[c.id] = c.msg /\ c.msg \in Message
      BY <1>1, <1>5, <2>2 DEF Honest, CreateInv, IInv, Sound, Creates
    <3>2. Place(c.msg, m)
      BY <1>1, <2>2, <3>1 DEF CopyToOther
    <3>3. /\ Persist
          /\ <<m, uid + 1>> \in Id /\ issued'[<<m, uid + 1>>] = c.msg
      BY <3>1, <3>2, PlacePersists, PlaceStep DEF CreateInv, IInv
    <3>4. uid \in 0..MaxUid /\ uid + 1 <= MaxUid
      BY <3>2 DEF Place, CreateInv, IInv, TypeOK
    <3>5. c.before <= uid
      <4>1. PICK n \in (c.before + 1)..MaxUid : issued[<<c.primary, n>>] = c.msg
        BY <1>5 DEF Honest, CopiedTo
      <4>2. <<c.primary, n>> \in Id /\ c.before \in 0..MaxUid /\ n \in Nat
        BY <1>1, <4>1 DEF Creates, Id
      <4>3. ~(n > uid)
        <5>1. <<c.primary, n>>[2] = n
          OBVIOUS
        <5> QED
          BY <3>1, <4>1, <4>2, <5>1 DEF CreateInv, IInv, TypeOK
      <4> QED
        BY <3>4, <4>1, <4>2, <4>3
    <3>6. uid + 1 \in (c.before + 1)..MaxUid
      BY <1>1, <3>4, <3>5 DEF Creates
    <3>7. PICK n \in (c.before + 1)..MaxUid : issued'[<<m, n>>] = c.msg
      BY <3>3, <3>6
    <3> QED
      BY <3>3, <3>7 DEF CopiedTo
  <2> QED
    BY <2>1, <2>2
<1>7. Honest(c)'
  BY <1>1, <1>5, <1>6, HonestStays
<1>8. Honest(d)'
  BY <1>1, <1>4, <1>6, <1>7 DEF Honest, CopiedTo
<1>9. making'[t] = d /\ \A u \in Handler : u # t => making'[u] = making[u]
  BY <1>2, <1>3 DEF CreateInv, MakingTypes
<1>10. Honest(making[t])'
  BY <1>8, <1>9 DEF Honest
<1> QED
  BY <1>6, <1>9, <1>10, OthersStay DEF HonestCreates

LEMMA HonestEnd ==
  ASSUME CreateInv, HonestCreates, NEW t \in Handler, FetchBack(t) \/ EndCreate(t)
  PROVE  HonestCreates'
<1>1. UNCHANGED vars /\ making[t] # Idle
  BY MakingShape DEF FetchBack, EndCreate, CreateInv
<1>2. Persist
  BY <1>1 DEF Persist, vars, server
<1>3. CASE Make(t, Idle)
  <2>1. \A u \in Handler : making'[u] = IF u = t THEN Idle ELSE making[u]
    BY <1>3 DEF Make, CreateInv, MakingTypes
  <2> QED
    BY <1>2, <2>1, OthersStay DEF HonestCreates
<1>4. CASE ~Make(t, Idle)
  <2>1. PICK c \in Creates :
          /\ c = making[t] /\ c.pc = "copying" /\ c.id \in Id
          /\ c.todo = {} /\ store[c.id] # None
          /\ Make(t, [c EXCEPT !.pc = "created"])
    BY <1>4, MakingShape DEF FetchBack, EndCreate, CreateInv, MakingTypes
  <2>2. PICK d : d = [c EXCEPT !.pc = "created"]
    OBVIOUS
  <2>3. /\ d.todo = c.todo /\ d.others = c.others /\ d.msg = c.msg
        /\ d.primary = c.primary /\ d.before = c.before /\ d.pc = "created" /\ d.id = c.id
    BY <2>1, <2>2 DEF Creates
  <2>4. Honest(c)
    BY <2>1 DEF HonestCreates, Idle
  <2>5. Honest(d)
    BY <2>1, <2>3, <2>4 DEF Honest, CopiedTo
  <2>6. making'[t] = d /\ \A u \in Handler : u # t => making'[u] = making[u]
    BY <2>1, <2>2 DEF Make, CreateInv, MakingTypes
  <2>7. Honest(making[t])'
    BY <1>1, <2>5, <2>6 DEF Honest, CopiedTo, vars, server
  <2> QED
    BY <1>2, <2>6, <2>7, OthersStay DEF HonestCreates
<1> QED
  BY <1>3, <1>4

\* What is answered created is there, in every mailbox asked for, if no two
\* messages have the same Message-Id (email.py:806-850).
THEOREM CreatedIsThere ==
  ASSUME \A a, b \in Versions : a = b
  PROVE  CreateSpec => []Created
<1>1. CreateInit => HonestCreates
  BY DEF CreateInit, HonestCreates
<1>2. ASSUME CreateInv, HonestCreates, [CreateNext]_createVars PROVE HonestCreates'
  <2>1. ASSUME Persist, UNCHANGED making PROVE HonestCreates'
    BY <1>2, <2>1, OthersStay DEF HonestCreates
  <2>2. CASE Next /\ UNCHANGED making
    BY <1>2, <2>1, <2>2, NextPersists DEF CreateInv
  <2>3. CASE \E t \in Handler : CreateStep(t)
    BY <1>2, <2>3, HonestAppend, HonestFind, HonestCopy, HonestEnd DEF CreateStep
  <2>4. CASE Restart /\ making' = [t \in Handler |-> Idle]
    BY <2>4 DEF HonestCreates
  <2>5. CASE UNCHANGED createVars
    <3>1. Persist
      BY <2>5 DEF createVars, vars, server, Persist
    <3> QED
      BY <2>1, <2>5, <3>1 DEF createVars
  <2> QED
    BY <1>2, <2>2, <2>3, <2>4, <2>5 DEF CreateNext, Next
<1>3. CreateInv /\ HonestCreates => Created
  <2>1. ASSUME CreateInv, HonestCreates, NEW t \in Handler, making[t].pc = "created"
        PROVE  /\ issued[making[t].id] = making[t].msg
               /\ \A m \in {making[t].primary} \cup making[t].others :
                     CopiedTo(making[t].msg, m, making[t].before)
    <3>1. Honest(making[t])
      BY <2>1 DEF HonestCreates, Idle
    <3> QED
      BY <2>1, <3>1 DEF Honest
  <2> QED
    BY <2>1 DEF Created
<1> QED
  BY CreatesInvariance, <1>1, <1>2, <1>3, PTL DEF CreateSpec
-----------------------------------------------------------------------------
(* EmailSubmission/set, where others move and destroy the messages.        *)

USE OutboxConstants, RedirectAssumption DEF Outbox!SubmissionAssumption

\* A place is given one message, which is there or gone.
Placed ==
    /\ used \in Nat /\ used <= MaxPlace
    /\ origin \in [Outbox!Id -> Draft \cup {Absent}]
    /\ \A x \in Outbox!Id : (origin[x] = Absent) <=> (x > used)
    /\ post \in [Outbox!Id -> Draft \cup {Absent}]
    /\ \A x \in Outbox!Id : post[x] \in {origin[x], Absent}

\* Redirects lead from a place of a message to another of the same.
Led ==
    /\ routes \in Seq([old : Outbox!Id, new : Outbox!Id])
    /\ IsTable(routes) /\ Len(routes) <= MaxEntries
    /\ \A e \in Entries(routes) :
          /\ e.old \in Outbox!Id /\ e.new \in Outbox!Id
          /\ origin[e.old] # Absent /\ origin[e.new] = origin[e.old]

OneSending == [pc : {"idle", "next", "send", "patch", "purge"}, asked : SUBSET Outbox!Id,
               todo : SUBSET Outbox!Id, now : Outbox!Id \cup {Absent}, done : SUBSET Outbox!Id]

\* A call goes through the ids it was asked for, each at most once.
Proper(c) ==
    /\ c \in OneSending
    /\ c.pc = "idle" => c.asked = {}
    /\ c.todo \subseteq c.asked /\ c.done \subseteq c.asked
    /\ c.todo \cap c.done = {}
    /\ c.pc \in {"send", "patch", "purge"} => c.now \in c.asked
    /\ c.pc = "send" => c.now \notin c.todo \cup c.done
    /\ c.pc \in {"patch", "purge"} => c.now \in c.done

\* Each draft that a call is asked for is pending, and in no other call.
Pending ==
    /\ \A h \in Sender : \A x \in sending[h].asked :
          origin[x] # Absent /\ status[origin[x]] = "pending"
    /\ \A h, i \in Sender : \A x \in sending[h].asked : \A y \in sending[i].asked :
          origin[x] = origin[y] => h = i /\ x = y

Sendings ==
    /\ sending \in [Sender -> OneSending]
    /\ \A h \in Sender : Proper(sending[h])
    /\ status \in [Draft -> {"draft", "pending", "failed", "sent"}]
    /\ sends \in [Draft -> 0..2]
    /\ Pending

\* What a call has done was sent.  What was sent without a fault is done or
\* was answered so.
DoneSent ==
    \A h \in Sender : \A x \in sending[h].done : sends[origin[x]] > 0

SentDone ==
    faults = {} => \A d \in Draft : sends[d] > 0 =>
        \/ status[d] = "sent"
        \/ \E h \in Sender : \E x \in sending[h].done : origin[x] = d

SendIInv == Placed /\ Led /\ Sendings /\ DoneSent /\ SentDone /\ Outbox!GoneIfSent /\ Outbox!SentOnce

\* A place that has been used keeps its message's name.
Kept == \A x \in Outbox!Id : origin[x] # Absent => origin'[x] = origin[x]

LEMMA SameTables ==
  \A table, x, y : /\ Outbox!Record(table, x, y) = Record(table, x, y)
                   /\ Outbox!Resolve(table, x) = Resolve(table, x)
BY DEF Outbox!Record, Outbox!Without, Outbox!DropAt, Outbox!Olds, Outbox!Entries,
       Outbox!Resolve, Outbox!Chain, Record, Without, DropAt, Olds, Entries, Resolve, Chain

LEMMA SameSets ==
  \A S : Outbox!Cardinality(S) = Cardinality(S) /\ (Outbox!IsFiniteSet(S) <=> IsFiniteSet(S))
BY DEF Outbox!Cardinality, Cardinality, Outbox!IsFiniteSet, IsFiniteSet

LEMMA OutboxLeadsToSame ==
  ASSUME Placed, Led, NEW id \in Outbox!Id
  PROVE  LET x == Resolve(routes, id) IN x \in Outbox!Id /\ origin[x] = origin[id]
<1> DEFINE same == {x \in Outbox!Id : origin[x] = origin[id]}
<1>1. id \in same
  OBVIOUS
<1>2. \A e \in Entries(routes) : e.old \in same => e.new \in same
  BY DEF Led
<1>3. Resolve(routes, id) \in same
  <2> HIDE DEF same
  <2> QED BY <1>1, <1>2, ResolveStays
<1> QED BY <1>3

LEMMA MoveStep ==
  ASSUME Placed, Led, NEW id \in Outbox!Id, Outbox!Move(id)
  PROVE  /\ Placed' /\ Led' /\ Kept
         /\ \A x \in Outbox!Id : \E y \in Outbox!Id : post'[y] = post[x]
<1> DEFINE x == Resolve(routes, id)
<1>1. x \in Outbox!Id /\ origin[x] = origin[id]
  BY OutboxLeadsToSame
<1>2. /\ post[x] # Absent /\ used < MaxPlace /\ used' = used + 1
      /\ post' = [post EXCEPT ![x] = Absent, ![used + 1] = post[x]]
      /\ origin' = [origin EXCEPT ![used + 1] = post[x]]
      /\ routes' = Record(routes, id, used + 1)
  BY SameTables DEF Outbox!Move
<1> HIDE DEF x
<1>3. used + 1 \in Outbox!Id /\ \A y \in Outbox!Id : y \in Nat
  BY <1>2 DEF Outbox!Id, Placed
<1>4. /\ post[x] = origin[x] /\ origin[x] # Absent /\ origin[id] # Absent
      /\ x # used + 1 /\ id # used + 1
  <2>1. post[x] = origin[x] /\ origin[x] # Absent /\ origin[id] # Absent
    BY <1>1, <1>2 DEF Placed
  <2>2. x <= used /\ id <= used /\ used \in Nat
    BY <1>1, <2>1, <1>3 DEF Placed
  <2> QED BY <2>1, <2>2, <1>1, <1>3
<1>5. post[used + 1] = Absent /\ origin[used + 1] = Absent
  <2>1. used + 1 > used
    BY DEF Placed
  <2> QED BY <2>1, <1>3 DEF Placed
<1>6. Kept
  BY <1>2, <1>3, <1>5 DEF Kept, Placed
<1>7. \A y \in Outbox!Id : /\ origin'[y] = IF y = used + 1 THEN post[x] ELSE origin[y]
                    /\ post'[y] = IF y = used + 1 THEN post[x]
                                   ELSE IF y = x THEN Absent ELSE post[y]
  BY <1>1, <1>2, <1>3, <1>4 DEF Placed
<1>8. Placed'
  <2>1. used' \in Nat /\ used' <= MaxPlace
    BY <1>2 DEF Placed
  <2>2. /\ origin' \in [Outbox!Id -> Draft \cup {Absent}]
        /\ post' \in [Outbox!Id -> Draft \cup {Absent}]
    BY <1>1, <1>2, <1>3, <1>4 DEF Placed
  <2>3. \A y \in Outbox!Id : (origin'[y] = Absent) <=> (y > used')
    <3> SUFFICES ASSUME NEW y \in Outbox!Id PROVE (origin'[y] = Absent) <=> (y > used')
      OBVIOUS
    <3>1. CASE y = used + 1
      BY <3>1, <1>2, <1>3, <1>7 DEF Placed
    <3>2. CASE y # used + 1
      <4>1. (y > used') <=> (y > used)
        BY <3>2, <1>2, <1>3 DEF Placed
      <4> QED BY <4>1, <3>2, <1>7 DEF Placed
    <3> QED BY <3>1, <3>2
  <2>4. \A y \in Outbox!Id : post'[y] \in {origin'[y], Absent}
    BY <1>4, <1>7 DEF Placed
  <2> QED BY <2>1, <2>2, <2>3, <2>4 DEF Placed
<1>9. Led'
  <2>1. /\ routes' \in Seq([old : Outbox!Id, new : Outbox!Id])
        /\ IsTable(routes') /\ Len(routes') <= MaxEntries
        /\ Entries(routes') \subseteq Entries(routes) \cup {[old |-> id, new |-> used + 1]}
    BY <1>2, <1>3, RecordKeepsTable DEF Led
  <2>2. \A e \in Entries(routes') :
          /\ e.old \in Outbox!Id /\ e.new \in Outbox!Id
          /\ origin'[e.old] # Absent /\ origin'[e.new] = origin'[e.old]
    <3> SUFFICES ASSUME NEW e \in Entries(routes')
                 PROVE  /\ e.old \in Outbox!Id /\ e.new \in Outbox!Id
                        /\ origin'[e.old] # Absent /\ origin'[e.new] = origin'[e.old]
      OBVIOUS
    <3>1. CASE e \in Entries(routes)
      BY <3>1, <1>6 DEF Led, Kept
    <3>2. CASE e = [old |-> id, new |-> used + 1]
      BY <3>2, <1>1, <1>3, <1>4, <1>7
    <3> QED BY <2>1, <3>1, <3>2
  <2> QED BY <2>1, <2>2 DEF Led
<1>10. \A z \in Outbox!Id : \E y \in Outbox!Id : post'[y] = post[z]
  <2> SUFFICES ASSUME NEW z \in Outbox!Id PROVE \E y \in Outbox!Id : post'[y] = post[z]
    OBVIOUS
  <2>1. CASE z = x
    BY <2>1, <1>3, <1>7
  <2>2. CASE z = used + 1
    BY <2>2, <1>1, <1>4, <1>5, <1>7
  <2>3. CASE z # x /\ z # used + 1
    BY <2>3, <1>7
  <2> QED BY <2>1, <2>2, <2>3
<1> QED BY <1>6, <1>8, <1>9, <1>10

LEMMA RemoveStep ==
  ASSUME Placed, Led, NEW id \in Outbox!Id, Outbox!Remove(id)
  PROVE  /\ Placed' /\ Led' /\ Kept /\ origin' = origin
         /\ \A x \in Outbox!Id : post[x] # origin[id] => post'[x] = post[x]
<1> DEFINE x == Resolve(routes, id)
<1>1. x \in Outbox!Id /\ origin[x] = origin[id]
  BY OutboxLeadsToSame
<1>2. post' = [post EXCEPT ![x] = Absent] /\ UNCHANGED <<used, routes, origin>>
  BY SameTables DEF Outbox!Remove
<1> HIDE DEF x
<1>3. \A y \in Outbox!Id : post'[y] = IF y = x THEN Absent ELSE post[y]
  BY <1>1, <1>2 DEF Placed
<1>4. Placed' /\ Led' /\ Kept
  BY <1>1, <1>2, <1>3 DEF Placed, Led, Kept
<1>5. \A y \in Outbox!Id : post[y] # origin[id] => post'[y] = post[y]
  BY <1>1, <1>3 DEF Placed
<1> QED BY <1>2, <1>4, <1>5

\* One call goes on with the same ids, the others rest.
LEMMA GoOn ==
  ASSUME Sendings, DoneSent, Kept, status' = status, NEW h \in Sender, NEW c, Proper(c),
         c.asked = sending[h].asked, Outbox!Become(h, c),
         sends' \in [Draft -> 0..2], \A d \in Draft : sends[d] > 0 => sends'[d] > 0,
         \A x \in c.done : x \in sending[h].done \/ sends'[origin'[x]] > 0,
         origin \in [Outbox!Id -> Draft \cup {Absent}]
  PROVE  Sendings' /\ DoneSent'
<1>1. \A i \in Sender : sending'[i] = IF i = h THEN c ELSE sending[i]
  BY DEF Outbox!Become, Sendings
<1>2. \A i \in Sender : Proper(sending'[i]) /\ sending'[i].asked = sending[i].asked
  BY <1>1 DEF Sendings
<1>3. sending' \in [Sender -> OneSending]
  BY DEF Outbox!Become, Sendings, Proper
<1>4. \A i \in Sender : \A x \in sending[i].asked : x \in Outbox!Id /\ origin'[x] = origin[x]
  BY DEF Sendings, Proper, OneSending, Pending, Kept
<1>5. Pending'
  BY <1>2, <1>4 DEF Pending, Sendings
<1>6. Sendings'
  BY <1>2, <1>3, <1>5 DEF Sendings
<1>7. \A i \in Sender : \A x \in sending[i].done : sends'[origin'[x]] > 0
  <2> SUFFICES ASSUME NEW i \in Sender, NEW x \in sending[i].done PROVE sends'[origin'[x]] > 0
    OBVIOUS
  <2>1. x \in sending[i].asked /\ sends[origin[x]] > 0 /\ origin[x] # Absent
    BY DEF Sendings, Proper, DoneSent, Pending
  <2>2. origin[x] \in Draft /\ origin'[x] = origin[x]
    BY <2>1, <1>4
  <2> QED BY <2>1, <2>2
<1>8. DoneSent'
  <2> SUFFICES ASSUME NEW i \in Sender, NEW x \in sending'[i].done PROVE sends'[origin'[x]] > 0
    BY DEF DoneSent
  <2>1. CASE i = h
    BY <2>1, <1>1, <1>7
  <2>2. CASE i # h
    BY <2>2, <1>1, <1>7
  <2> QED BY <2>1, <2>2
<1> QED BY <1>6, <1>8

\* A call is over, and its drafts are told of.
LEMMA Over ==
  ASSUME Sendings, DoneSent, Kept, NEW h \in Sender, Outbox!Become(h, Outbox!Idle),
         status' \in [Draft -> {"draft", "pending", "failed", "sent"}],
         \A d \in Draft : d \notin Outbox!Drafts(sending[h].asked) => status'[d] = status[d],
         sends' = sends, origin \in [Outbox!Id -> Draft \cup {Absent}]
  PROVE  Sendings' /\ DoneSent'
<1>1. \A i \in Sender : sending'[i] = IF i = h THEN Outbox!Idle ELSE sending[i]
  BY DEF Outbox!Become, Sendings
<1>2. Proper(Outbox!Idle) /\ Outbox!Idle.asked = {} /\ Outbox!Idle.done = {}
  BY DEF Proper, Outbox!Idle, OneSending
<1>3. sending' \in [Sender -> OneSending] /\ \A i \in Sender : Proper(sending'[i])
  BY <1>1, <1>2 DEF Outbox!Become, Sendings, Proper
<1>4. \A i \in Sender : \A x \in sending[i].asked :
          x \in Outbox!Id /\ origin'[x] = origin[x] /\ origin[x] \in Draft
  BY DEF Sendings, Proper, OneSending, Pending, Kept
<1>5. Pending'
  <2>1. ASSUME NEW i \in Sender, NEW x \in sending'[i].asked
        PROVE  origin'[x] # Absent /\ status'[origin'[x]] = "pending"
    <3>1. i # h /\ x \in sending[i].asked
      BY <2>1, <1>1, <1>2
    <3>2. origin[x] # Absent /\ status[origin[x]] = "pending"
      BY <3>1 DEF Sendings, Pending
    <3>3. origin[x] \notin Outbox!Drafts(sending[h].asked)
      BY <3>1 DEF Outbox!Drafts, Sendings, Pending
    <3> QED BY <3>1, <3>2, <3>3, <1>4
  <2>2. ASSUME NEW i \in Sender, NEW j \in Sender, NEW x \in sending'[i].asked,
               NEW y \in sending'[j].asked, origin'[x] = origin'[y]
        PROVE  i = j /\ x = y
    <3>1. x \in sending[i].asked /\ y \in sending[j].asked
      BY <2>2, <1>1, <1>2
    <3> QED BY <2>2, <3>1, <1>4 DEF Sendings, Pending
  <2> QED BY <2>1, <2>2 DEF Pending
<1>6. Sendings'
  BY <1>3, <1>5 DEF Sendings
<1>7. DoneSent'
  <2> SUFFICES ASSUME NEW i \in Sender, NEW x \in sending'[i].done PROVE sends'[origin'[x]] > 0
    BY DEF DoneSent
  <2>1. i # h /\ x \in sending[i].done
    BY <1>1, <1>2
  <2>2. x \in sending[i].asked
    BY <2>1 DEF Sendings, Proper
  <2> QED BY <2>1, <2>2, <1>4 DEF DoneSent
<1> QED BY <1>6, <1>7

\* Nothing asked for and not done has been sent, while nothing went wrong.
LEMMA NotDoneNotSent ==
  ASSUME Sendings, SentDone, faults = {}, NEW h \in Sender, NEW x \in sending[h].asked,
         x \notin sending[h].done, origin \in [Outbox!Id -> Draft \cup {Absent}]
  PROVE  origin[x] \in Draft /\ sends[origin[x]] = 0
<1>1. x \in Outbox!Id /\ origin[x] \in Draft /\ status[origin[x]] = "pending"
  BY DEF Sendings, Pending, Proper, OneSending
<1>2. ASSUME sends[origin[x]] > 0 PROVE FALSE
  <2>1. PICK i \in Sender : \E y \in sending[i].done : origin[y] = origin[x]
    BY <1>1, <1>2 DEF SentDone
  <2>2. PICK y \in sending[i].done : origin[y] = origin[x]
    BY <2>1
  <2>3. y \in sending[i].asked
    BY <2>2 DEF Sendings, Proper
  <2> QED BY <2>2, <2>3 DEF Sendings, Pending
<1>3. sends[origin[x]] \in 0..2
  BY <1>1 DEF Sendings
<1> QED BY <1>1, <1>2, <1>3

\* Every call rests.
LEMMA CallsRest ==
  ASSUME Sendings, DoneSent, Kept, UNCHANGED <<sending, status, sends>>,
         origin \in [Outbox!Id -> Draft \cup {Absent}]
  PROVE  Sendings' /\ DoneSent'
<1>1. \A i \in Sender : \A x \in sending[i].asked : x \in Outbox!Id /\ origin'[x] = origin[x]
  BY DEF Sendings, Proper, OneSending, Pending, Kept
<1>2. Pending'
  BY <1>1 DEF Pending, Sendings
<1>3. Sendings'
  BY <1>2 DEF Sendings
<1>4. DoneSent'
  <2> SUFFICES ASSUME NEW i \in Sender, NEW x \in sending[i].done PROVE sends[origin'[x]] > 0
    BY DEF DoneSent
  <2>1. x \in sending[i].asked
    BY DEF Sendings, Proper
  <2> QED BY <2>1, <1>1 DEF DoneSent
<1> QED BY <1>3, <1>4

LEMMA SentDoneRests ==
  ASSUME Sendings, SentDone, Kept, sends' = sends, faults' = {} => faults = {},
         \A d \in Draft : status[d] = "sent" => status'[d] = "sent",
         \A i \in Sender : \A x \in sending[i].done :
            x \in sending'[i].done \/ status'[origin[x]] = "sent"
  PROVE  SentDone'
<1> SUFFICES ASSUME faults' = {}, NEW d \in Draft, sends[d] > 0
             PROVE  \/ status'[d] = "sent"
                    \/ \E i \in Sender : \E x \in sending'[i].done : origin'[x] = d
  BY DEF SentDone
<1>1. CASE status[d] = "sent"
  BY <1>1
<1>2. CASE \E i \in Sender : \E x \in sending[i].done : origin[x] = d
  <2>1. PICK i \in Sender : \E x \in sending[i].done : origin[x] = d
    BY <1>2
  <2>2. PICK x \in sending[i].done : origin[x] = d
    BY <2>1
  <2>3. x \in Outbox!Id /\ origin'[x] = origin[x]
    BY <2>2 DEF Sendings, Proper, OneSending, Pending, Kept
  <2> QED BY <2>2, <2>3
<1> QED BY <1>1, <1>2 DEF SentDone

LEMMA GoneRests ==
  ASSUME Outbox!GoneIfSent, \A x \in Outbox!Id : \E y \in Outbox!Id : post'[y] = post[x],
         \A d \in Draft : sends[d] > 0 => sends'[d] > 0, doomed \subseteq doomed'
  PROVE  Outbox!GoneIfSent'
<1> SUFFICES ASSUME NEW d \in Draft
             PROVE  \/ \E x \in Outbox!Id : post'[x] = d
                    \/ sends'[d] > 0 \/ d \in doomed'
  BY DEF Outbox!GoneIfSent
<1> QED BY DEF Outbox!GoneIfSent

LEMMA InitSend == Outbox!Init => SendIInv
<1> SUFFICES ASSUME Outbox!Init PROVE SendIInv
  OBVIOUS
<1>1. \A x \in Outbox!Id : (origin[x] = Absent) <=> (x > used)
  <2>1. used \in Nat /\ used = Cardinality(Draft) /\ used <= MaxPlace
    BY FS_CardinalityType, SameSets DEF Outbox!Init
  <2>2. ASSUME NEW z \in Outbox!Id, z <= used, origin[z] = Absent PROVE FALSE
    <3> DEFINE rest == (1..used) \ {z}
               named == [x \in rest |-> origin[x]]
    <3>1. z \in 1..used /\ IsFiniteSet(1..used) /\ Cardinality(1..used) = used
      BY <2>1, <2>2, FS_Interval DEF Outbox!Id
    <3>2. IsFiniteSet(rest) /\ Cardinality(rest) = used - 1
      BY <3>1, FS_RemoveElement
    <3>3. Draft = {d \in Draft : \E x \in rest : origin[x] = d}
      BY <2>2 DEF Outbox!Init
    <3>4. \A x \in rest : origin[x] \in Draft \cup {Absent}
      BY <2>1 DEF Outbox!Init, Outbox!Id
    <3> DEFINE some == {x \in rest : origin[x] \in Draft}
               f == [x \in some |-> origin[x]]
    <3>5. IsFiniteSet(some) /\ Cardinality(some) <= used - 1
      BY <3>2, FS_Subset
    <3>6. f \in Surjection(some, Draft)
      BY <3>3 DEF Surjection
    <3>7. Cardinality(Draft) <= Cardinality(some)
      BY <3>5, <3>6, FS_Surjection
    <3>8. Cardinality(some) \in Nat
      BY <3>5, FS_CardinalityType
    <3> QED BY <2>1, <3>5, <3>7, <3>8
  <2>3. \A x \in Outbox!Id : x \in Nat
    BY DEF Outbox!Id
  <2> QED BY <2>1, <2>2, <2>3 DEF Outbox!Init
<1>2. Placed
  BY <1>1, FS_CardinalityType, SameSets DEF Outbox!Init, Placed
<1>3. Led
  <2>1. routes = << >>
    BY DEF Outbox!Init
  <2> QED BY <2>1, EmptyTable DEF Led
<1>4. Sendings /\ DoneSent
  <2>1. \A h \in Sender : sending[h] = Outbox!Idle
    BY DEF Outbox!Init
  <2>2. Proper(Outbox!Idle) /\ Outbox!Idle.asked = {} /\ Outbox!Idle.done = {} /\ Outbox!Idle \in OneSending
    BY DEF Proper, Outbox!Idle, OneSending
  <2>3. Pending /\ DoneSent
    BY <2>1, <2>2 DEF Pending, DoneSent
  <2> QED BY <2>1, <2>2, <2>3 DEF Outbox!Init, Sendings
<1>5. SentDone /\ Outbox!SentOnce
  BY DEF Outbox!Init, SentDone, Outbox!SentOnce
<1>6. Outbox!GoneIfSent
  <2>1. \A d \in Draft : \E x \in 1..used : origin[x] = d
    BY DEF Outbox!Init
  <2>2. 1..used \subseteq Outbox!Id
    BY <1>2 DEF Placed, Outbox!Id
  <2> QED BY <2>1, <2>2 DEF Outbox!Init, Outbox!GoneIfSent
<1> QED BY <1>2, <1>3, <1>4, <1>5, <1>6 DEF SendIInv

LEMMA SubmitStep ==
  ASSUME SendIInv, NEW h \in Sender, NEW ids \in SUBSET Outbox!Id, Outbox!Submit(h, ids)
  PROVE  SendIInv'
<1> DEFINE c == [Outbox!Idle EXCEPT !.pc = "next", !.asked = ids, !.todo = ids]
<1>1. /\ sending[h].pc = "idle" /\ sending[h].asked = {}
      /\ Absent \notin Outbox!Drafts(ids)
      /\ \A x, y \in ids : origin[x] = origin[y] => x = y
      /\ \A d \in Outbox!Drafts(ids) : status[d] \in {"draft", "failed"}
      /\ sending' = [sending EXCEPT ![h] = c]
      /\ status' = [d \in Draft |-> IF d \in Outbox!Drafts(ids) THEN "pending" ELSE status[d]]
      /\ UNCHANGED <<Outbox!mail, sends, doomed, missed, faults>>
  BY DEF Outbox!Submit, Outbox!At, Outbox!Become, Outbox!Tell, SendIInv, Sendings, Proper
<1>2. Proper(c) /\ c.asked = ids /\ c.done = {}
  BY DEF Proper, Outbox!Idle, OneSending
<1> HIDE DEF c
<1>3. \A i \in Sender : sending'[i] = IF i = h THEN c ELSE sending[i]
  BY <1>1 DEF SendIInv, Sendings
<1>4. Placed' /\ Led' /\ Outbox!GoneIfSent' /\ Outbox!SentOnce'
  BY <1>1 DEF SendIInv, Outbox!mail, Placed, Led, Outbox!GoneIfSent, Outbox!SentOnce
<1>5. \A i \in Sender : \A x \in sending'[i].asked :
         origin[x] # Absent /\ origin[x] \in Draft
         /\ status'[origin[x]] = "pending"
  <2> SUFFICES ASSUME NEW i \in Sender, NEW x \in sending'[i].asked
               PROVE  origin[x] \in Draft /\ status'[origin[x]] = "pending"
    OBVIOUS
  <2>1. CASE i = h
    <3>1. x \in ids /\ origin[x] \in Outbox!Drafts(ids)
      BY <2>1, <1>2, <1>3 DEF Outbox!Drafts
    <3>2. origin[x] \in Draft
      BY <3>1, <1>1 DEF SendIInv, Placed
    <3> QED BY <3>1, <3>2, <1>1
  <2>2. CASE i # h
    <3>1. x \in sending[i].asked /\ x \in Outbox!Id
      BY <2>2, <1>3 DEF SendIInv, Sendings, Proper, OneSending
    <3>2. origin[x] # Absent /\ status[origin[x]] = "pending"
      BY <3>1 DEF SendIInv, Sendings, Pending
    <3> QED BY <3>1, <3>2, <1>1 DEF SendIInv, Placed
  <2> QED BY <2>1, <2>2
<1>6. \A i \in Sender \ {h} : \A x \in sending[i].asked : \A y \in ids : origin[x] # origin[y]
  <2> SUFFICES ASSUME NEW i \in Sender \ {h}, NEW x \in sending[i].asked, NEW y \in ids
               PROVE  origin[x] # origin[y]
    OBVIOUS
  <2>1. status[origin[x]] = "pending"
    BY DEF SendIInv, Sendings, Pending
  <2>2. origin[y] \in Outbox!Drafts(ids)
    BY DEF Outbox!Drafts
  <2> QED BY <2>1, <2>2, <1>1
<1>7. \A i, j \in Sender : \A x \in sending'[i].asked : \A y \in sending'[j].asked :
         origin[x] = origin[y] => i = j /\ x = y
  <2> SUFFICES ASSUME NEW i \in Sender, NEW j \in Sender, NEW x \in sending'[i].asked,
                      NEW y \in sending'[j].asked, origin[x] = origin[y]
               PROVE  i = j /\ x = y
    OBVIOUS
  <2>1. CASE i = h /\ j = h
    BY <2>1, <1>1, <1>2, <1>3
  <2>2. CASE i # h /\ j # h
    BY <2>2, <1>3 DEF SendIInv, Sendings, Pending
  <2>3. CASE (i = h /\ j # h) \/ (i # h /\ j = h)
    BY <2>3, <1>2, <1>3, <1>6
  <2> QED BY <2>1, <2>2, <2>3
<1>8. Sendings'
  <2>1. origin' = origin /\ sends' = sends
    BY <1>1 DEF Outbox!mail
  <2>2. Pending'
    BY <2>1, <1>5, <1>7 DEF Pending
  <2>3. sending' \in [Sender -> OneSending] /\ \A i \in Sender : Proper(sending'[i])
    BY <1>1, <1>2, <1>3 DEF SendIInv, Sendings, Proper
  <2> QED BY <1>1, <2>1, <2>2, <2>3 DEF SendIInv, Sendings
<1>9. DoneSent'
  BY <1>1, <1>2, <1>3 DEF SendIInv, DoneSent, Outbox!mail
<1>10. SentDone'
  <2>1. \A d \in Draft : status[d] = "sent" => status'[d] = "sent"
    BY <1>1
  <2>2. \A i \in Sender : i = h => sending[i].done = {}
    BY <1>1 DEF SendIInv, Sendings, Proper
  <2> QED BY <2>1, <2>2, <1>1, <1>3, SentDoneRests DEF SendIInv, Kept, Outbox!mail
<1> QED BY <1>4, <1>8, <1>9, <1>10 DEF SendIInv

LEMMA FetchStep ==
  ASSUME SendIInv, NEW h \in Sender, NEW id \in Outbox!Id, Outbox!Fetch(h, id)
  PROVE  SendIInv'
<1> DEFINE c == sending[h]
           gone == [c EXCEPT !.todo = @ \ {id}]
           found == [c EXCEPT !.pc = "send", !.todo = @ \ {id}, !.now = id]
<1>1. /\ c.pc = "next" /\ id \in c.todo
      /\ Outbox!Become(h, gone) \/ Outbox!Become(h, found)
      /\ UNCHANGED <<Outbox!mail, status, sends, doomed, faults>>
  BY DEF Outbox!Fetch, Outbox!At
<1>2. Proper(c) /\ c \in OneSending
  BY DEF SendIInv, Sendings
<1>3. /\ Proper(gone) /\ gone.asked = c.asked /\ gone.done = c.done
      /\ Proper(found) /\ found.asked = c.asked /\ found.done = c.done
  BY <1>1, <1>2 DEF Proper, OneSending
<1>4. PICK d : Proper(d) /\ d.asked = c.asked /\ d.done = c.done /\ Outbox!Become(h, d)
  BY <1>1, <1>3
<1> HIDE DEF c
<1>5. Kept /\ origin \in [Outbox!Id -> Draft \cup {Absent}] /\ sends' \in [Draft -> 0..2]
  BY <1>1 DEF Kept, Outbox!mail, SendIInv, Placed, Sendings
<1>6. Sendings' /\ DoneSent'
  BY <1>1, <1>4, <1>5, GoOn DEF SendIInv, c
<1>7. \A i \in Sender : \A x \in sending[i].done : x \in sending'[i].done
  BY <1>4 DEF c, Outbox!Become, SendIInv, Sendings
<1>8. SentDone'
  BY <1>1, <1>5, <1>7, SentDoneRests DEF SendIInv
<1>9. Placed' /\ Led' /\ Outbox!GoneIfSent' /\ Outbox!SentOnce'
  BY <1>1 DEF SendIInv, Outbox!mail, Placed, Led, Outbox!GoneIfSent, Outbox!SentOnce
<1> QED BY <1>6, <1>8, <1>9 DEF SendIInv

LEMMA SendStep ==
  ASSUME SendIInv, NEW h \in Sender, Outbox!Send(h)
  PROVE  SendIInv'
<1> DEFINE c == sending[h]
           x == c.now
           d == origin[x]
           sent == [c EXCEPT !.pc = "patch", !.done = @ \cup {c.now}]
           given == [c EXCEPT !.pc = "next", !.now = Absent]
<1>1. /\ c.pc = "send"
      /\ \/ Outbox!Accept(d) /\ Outbox!Become(h, sent) /\ UNCHANGED faults
         \/ UNCHANGED <<sends, faults>> /\ Outbox!Become(h, given)
         \/ Outbox!Fault("lost") /\ Outbox!Accept(d) /\ Outbox!Become(h, given)
      /\ UNCHANGED <<Outbox!mail, status, doomed, missed>>
  BY DEF Outbox!Send, Outbox!At, Outbox!Sent, Outbox!NextCreate
<1>2. Proper(c) /\ c \in OneSending
  BY DEF SendIInv, Sendings
<1>3. /\ Proper(sent) /\ sent.asked = c.asked /\ sent.done = c.done \cup {x}
      /\ Proper(given) /\ given.asked = c.asked /\ given.done = c.done
      /\ x \in c.asked /\ x \notin c.done
  BY <1>1, <1>2 DEF Proper, OneSending
<1> HIDE DEF c, sent, given
<1>4. d \in Draft /\ x \in Outbox!Id
  BY <1>2, <1>3 DEF c, SendIInv, Sendings, Pending, Placed, Proper, OneSending
<1>5. Kept /\ origin' = origin /\ origin \in [Outbox!Id -> Draft \cup {Absent}]
  BY <1>1 DEF Kept, Outbox!mail, SendIInv, Placed
<1> HIDE DEF d, x
<1>6. CASE UNCHANGED <<sends, faults>> /\ Outbox!Become(h, given)
  <2>1. sends' \in [Draft -> 0..2]
    BY <1>6 DEF SendIInv, Sendings
  <2>2. Sendings' /\ DoneSent'
    BY <1>1, <1>3, <1>5, <1>6, <2>1, GoOn DEF SendIInv, c
  <2>3. \A i \in Sender : \A y \in sending[i].done : y \in sending'[i].done
    BY <1>3, <1>6 DEF c, Outbox!Become, SendIInv, Sendings
  <2>4. SentDone'
    BY <1>1, <1>5, <1>6, <2>3, SentDoneRests DEF SendIInv
  <2>5. Placed' /\ Led' /\ Outbox!GoneIfSent' /\ Outbox!SentOnce'
    BY <1>1, <1>6 DEF SendIInv, Outbox!mail, Placed, Led, Outbox!GoneIfSent, Outbox!SentOnce
  <2> QED BY <2>2, <2>4, <2>5 DEF SendIInv
<1>7. ASSUME Outbox!Accept(d)
      PROVE  /\ sends' \in [Draft -> 0..2] /\ sends'[d] > 0
             /\ sends[d] = 0 => sends'[d] = 1
             /\ \A e \in Draft : e # d => sends'[e] = sends[e]
             /\ \A e \in Draft : sends[e] > 0 => sends'[e] > 0
  <2>1. sends' = [sends EXCEPT ![d] = IF sends[d] = 0 THEN 1 ELSE 2] /\ sends \in [Draft -> 0..2]
    BY <1>7 DEF Outbox!Accept, SendIInv, Sendings
  <2>2. \A e \in Draft : e # d => sends'[e] = sends[e]
    BY <2>1
  <2>3. sends' \in [Draft -> 0..2]
    <3>1. PICK n \in 0..2 : sends' = [sends EXCEPT ![d] = n]
      <4>1. CASE sends[d] = 0
        BY <4>1, <2>1, 1 \in 0..2
      <4>2. CASE sends[d] # 0
        BY <4>2, <2>1, 2 \in 0..2
      <4> QED BY <4>1, <4>2
    <3> QED BY <3>1, <2>1
  <2>4. sends'[d] = IF sends[d] = 0 THEN 1 ELSE 2
    BY <2>1, <1>4
  <2>5. sends[d] = 0 => sends'[d] = 1
    BY <2>4
  <2>6. sends'[d] > 0
    <3>1. CASE sends[d] = 0
      BY <3>1, <2>5, 1 > 0
    <3>2. CASE sends[d] # 0
      <4>1. sends'[d] = 2
        BY <3>2, <2>4
      <4> QED BY <4>1, 2 > 0
    <3> QED BY <3>1, <3>2
  <2> QED BY <2>2, <2>3, <2>5, <2>6
<1>8. ASSUME Outbox!Accept(d) PROVE Placed' /\ Led' /\ Outbox!GoneIfSent'
  <2>1. Outbox!GoneIfSent'
    BY <1>1, <1>7, <1>8 DEF SendIInv, Outbox!GoneIfSent, Outbox!mail
  <2> QED BY <2>1, <1>1 DEF SendIInv, Outbox!mail, Placed, Led
<1>9. CASE Outbox!Fault("lost") /\ Outbox!Accept(d) /\ Outbox!Become(h, given)
  <2>1. faults' # {}
    BY <1>9 DEF Outbox!Fault
  <2>2. Sendings' /\ DoneSent'
    BY <1>1, <1>3, <1>5, <1>7, <1>9, GoOn DEF SendIInv, c
  <2> QED BY <2>1, <2>2, <1>8, <1>9 DEF SendIInv, SentDone, Outbox!SentOnce
<1>10. CASE Outbox!Accept(d) /\ Outbox!Become(h, sent) /\ UNCHANGED faults
  <2>1. \A y \in sent.done : y \in c.done \/ sends'[origin'[y]] > 0
    BY <1>3, <1>5, <1>7, <1>10 DEF d
  <2>2. Sendings' /\ DoneSent'
    BY <1>1, <1>3, <1>5, <1>7, <1>10, <2>1, GoOn DEF SendIInv, c
  <2>3. faults = {} => sends[d] = 0
    BY <1>3, <1>5, NotDoneNotSent DEF SendIInv, c, d
  <2>4. Outbox!SentOnce'
    <3> SUFFICES ASSUME faults = {}, NEW e \in Draft PROVE sends'[e] <= 1
      BY <1>10 DEF Outbox!SentOnce
    <3>1. e = d => sends'[e] = 1
      BY <2>3, <1>7, <1>10
    <3>2. e # d => sends'[e] = sends[e] /\ sends[e] <= 1
      BY <1>7, <1>10 DEF SendIInv, Outbox!SentOnce
    <3> QED BY <3>1, <3>2, 1 <= 1
  <2>5. \A i \in Sender : sending'[i] = IF i = h THEN sent ELSE sending[i]
    BY <1>10 DEF Outbox!Become, SendIInv, Sendings
  <2>6. SentDone'
    <3> SUFFICES ASSUME faults = {}, NEW e \in Draft, sends'[e] > 0
                 PROVE  \/ status[e] = "sent"
                        \/ \E i \in Sender : \E y \in sending'[i].done : origin[y] = e
      BY <1>1, <1>5, <1>10 DEF SentDone
    <3>1. CASE e = d
      BY <3>1, <2>5, <1>3 DEF d
    <3>2. CASE e # d
      <4>1. sends[e] > 0
        BY <3>2, <1>7, <1>10
      <4>2. \A i \in Sender : sending[i].done \subseteq sending'[i].done
        BY <2>5, <1>3 DEF c
      <4> QED BY <4>1, <4>2 DEF SendIInv, SentDone
    <3> QED BY <3>1, <3>2
  <2> QED BY <2>2, <2>4, <2>6, <1>8, <1>10 DEF SendIInv
<1> QED BY <1>1, <1>6, <1>9, <1>10

LEMMA PatchStep ==
  ASSUME SendIInv, NEW h \in Sender, Outbox!Patch(h)
  PROVE  SendIInv'
<1> DEFINE c == sending[h]
           next == [c EXCEPT !.pc = "purge"]
<1>1. /\ c.pc = "patch" /\ Outbox!Become(h, next)
      /\ UNCHANGED Outbox!mail \/ Outbox!Move(c.now)
      /\ UNCHANGED <<status, sends, doomed, missed, faults>>
  BY DEF Outbox!Patch, Outbox!At
<1>2. Proper(c) /\ c \in OneSending
  BY DEF SendIInv, Sendings
<1>3. /\ Proper(next) /\ next.asked = c.asked /\ next.done = c.done
      /\ c.now \in Outbox!Id
  BY <1>1, <1>2 DEF Proper, OneSending
<1> HIDE DEF c, next
<1>4. /\ Placed' /\ Led' /\ Kept
      /\ \A x \in Outbox!Id : \E y \in Outbox!Id : post'[y] = post[x]
  <2>1. CASE UNCHANGED Outbox!mail
    BY <2>1 DEF Outbox!mail, SendIInv, Placed, Led, Kept
  <2>2. CASE Outbox!Move(c.now)
    BY <2>2, <1>3, MoveStep DEF SendIInv
  <2> QED BY <1>1, <2>1, <2>2
<1>5. sends' \in [Draft -> 0..2] /\ origin \in [Outbox!Id -> Draft \cup {Absent}]
  BY <1>1 DEF SendIInv, Sendings, Placed
<1>6. Sendings' /\ DoneSent'
  BY <1>1, <1>3, <1>4, <1>5, GoOn DEF SendIInv, c
<1>7. \A i \in Sender : \A x \in sending[i].done : x \in sending'[i].done
  BY <1>1, <1>3 DEF c, Outbox!Become, SendIInv, Sendings
<1>8. SentDone'
  BY <1>1, <1>4, <1>7, SentDoneRests DEF SendIInv
<1>9. Outbox!GoneIfSent' /\ Outbox!SentOnce'
  BY <1>1, <1>4, GoneRests DEF SendIInv, Outbox!SentOnce
<1> QED BY <1>4, <1>6, <1>8, <1>9 DEF SendIInv

LEMMA PurgeStep ==
  ASSUME SendIInv, NEW h \in Sender, Outbox!Purge(h)
  PROVE  SendIInv'
<1> DEFINE c == sending[h]
           next == [c EXCEPT !.pc = "next", !.now = Absent]
<1>1. /\ c.pc = "purge" /\ Outbox!Become(h, next)
      /\ UNCHANGED Outbox!mail \/ Outbox!Remove(c.now)
      /\ UNCHANGED <<status, sends, doomed, missed, faults>>
  BY DEF Outbox!Purge, Outbox!At, Outbox!NextCreate
<1>2. Proper(c) /\ c \in OneSending
  BY DEF SendIInv, Sendings
<1>3. /\ Proper(next) /\ next.asked = c.asked /\ next.done = c.done
      /\ c.now \in Outbox!Id /\ c.now \in c.done
  BY <1>1, <1>2 DEF Proper, OneSending
<1> HIDE DEF c, next
<1>4. /\ Placed' /\ Led' /\ Kept
      /\ \A x \in Outbox!Id : post[x] # origin[c.now] => post'[x] = post[x]
  <2>1. CASE UNCHANGED Outbox!mail
    BY <2>1 DEF Outbox!mail, SendIInv, Placed, Led, Kept
  <2>2. CASE Outbox!Remove(c.now)
    BY <2>2, <1>3, RemoveStep DEF SendIInv
  <2> QED BY <1>1, <2>1, <2>2
<1>5. sends' \in [Draft -> 0..2] /\ origin \in [Outbox!Id -> Draft \cup {Absent}]
  BY <1>1 DEF SendIInv, Sendings, Placed
<1>6. Sendings' /\ DoneSent'
  BY <1>1, <1>3, <1>4, <1>5, GoOn DEF SendIInv, c
<1>7. \A i \in Sender : \A x \in sending[i].done : x \in sending'[i].done
  BY <1>1, <1>3 DEF c, Outbox!Become, SendIInv, Sendings
<1>8. SentDone'
  BY <1>1, <1>4, <1>7, SentDoneRests DEF SendIInv
<1>9. sends[origin[c.now]] > 0
  BY <1>3 DEF c, SendIInv, DoneSent
<1>10. Outbox!GoneIfSent' /\ Outbox!SentOnce'
  BY <1>1, <1>4, <1>9 DEF SendIInv, Outbox!SentOnce, Outbox!GoneIfSent
<1> QED BY <1>4, <1>6, <1>8, <1>10 DEF SendIInv

LEMMA CrashStep ==
  ASSUME SendIInv, NEW h \in Sender, Outbox!Crash(h)
  PROVE  SendIInv'
<1>1. /\ faults' # {} /\ Outbox!Become(h, Outbox!Idle)
      /\ status' = [d \in Draft |-> IF d \in Outbox!Drafts(sending[h].asked) THEN "failed" ELSE status[d]]
      /\ UNCHANGED <<Outbox!mail, sends, doomed, missed>>
  BY DEF Outbox!Crash, Outbox!Fail, Outbox!Fault, Outbox!Tell
<1>2. Kept /\ origin \in [Outbox!Id -> Draft \cup {Absent}]
  BY <1>1 DEF Kept, Outbox!mail, SendIInv, Placed
<1>3. Sendings' /\ DoneSent'
  <2>1. /\ status' \in [Draft -> {"draft", "pending", "failed", "sent"}]
        /\ \A d \in Draft : d \notin Outbox!Drafts(sending[h].asked) => status'[d] = status[d]
    BY <1>1 DEF SendIInv, Sendings
  <2> QED BY <1>1, <1>2, <2>1, Over DEF SendIInv
<1>4. SentDone' /\ Outbox!SentOnce'
  BY <1>1 DEF SentDone, Outbox!SentOnce
<1>5. Placed' /\ Led' /\ Outbox!GoneIfSent'
  BY <1>1 DEF SendIInv, Outbox!mail, Placed, Led, Outbox!GoneIfSent
<1> QED BY <1>3, <1>4, <1>5 DEF SendIInv

LEMMA AnswerStep ==
  ASSUME SendIInv, NEW h \in Sender, Outbox!Answer(h)
  PROVE  SendIInv'
<1>1. /\ Outbox!Become(h, Outbox!Idle)
      /\ status' = [d \in Draft |->
            IF d \in Outbox!Drafts(sending[h].done) THEN "sent"
            ELSE IF d \in Outbox!Drafts(sending[h].asked) THEN "failed" ELSE status[d]]
      /\ UNCHANGED <<Outbox!mail, sends, doomed, missed, faults>>
  BY DEF Outbox!Answer
<1>2. Kept /\ origin \in [Outbox!Id -> Draft \cup {Absent}] /\ origin' = origin
  BY <1>1 DEF Kept, Outbox!mail, SendIInv, Placed
<1>3. Outbox!Drafts(sending[h].done) \subseteq Outbox!Drafts(sending[h].asked)
  BY DEF Outbox!Drafts, SendIInv, Sendings, Proper
<1>4. Sendings' /\ DoneSent'
  <2>1. /\ status' \in [Draft -> {"draft", "pending", "failed", "sent"}]
        /\ \A d \in Draft : d \notin Outbox!Drafts(sending[h].asked) => status'[d] = status[d]
    BY <1>1, <1>3 DEF SendIInv, Sendings
  <2> QED BY <1>1, <1>2, <2>1, Over DEF SendIInv
<1>5. SentDone'
  <2>1. ASSUME NEW d \in Draft, status[d] = "sent" PROVE status'[d] = "sent"
    <3>1. d \notin Outbox!Drafts(sending[h].asked)
      BY <2>1 DEF Outbox!Drafts, SendIInv, Sendings, Pending
    <3> QED BY <2>1, <3>1, <1>1, <1>3
  <2>2. ASSUME NEW i \in Sender, NEW x \in sending[i].done
        PROVE  x \in sending'[i].done \/ status'[origin[x]] = "sent"
    <3>1. CASE i = h
      <4>1. origin[x] \in Outbox!Drafts(sending[h].done)
        BY <3>1 DEF Outbox!Drafts
      <4>2. x \in sending[i].asked /\ x \in Outbox!Id /\ origin[x] # Absent
        BY DEF SendIInv, Sendings, Proper, OneSending, Pending
      <4> QED BY <4>1, <4>2, <1>1, <1>2
    <3>2. CASE i # h
      BY <3>2, <1>1 DEF Outbox!Become, SendIInv, Sendings
    <3> QED BY <3>1, <3>2
  <2> QED BY <1>1, <1>2, <2>1, <2>2, SentDoneRests DEF SendIInv
<1>6. Placed' /\ Led' /\ Outbox!GoneIfSent' /\ Outbox!SentOnce'
  BY <1>1 DEF SendIInv, Outbox!mail, Placed, Led, Outbox!GoneIfSent, Outbox!SentOnce
<1> QED BY <1>4, <1>5, <1>6 DEF SendIInv

LEMMA MoveElsewhereStep ==
  ASSUME SendIInv, NEW id \in Outbox!Id, Outbox!MoveElsewhere(id)
  PROVE  SendIInv'
<1>1. Outbox!Move(id) /\ UNCHANGED <<sending, status, sends, doomed, missed, faults>>
  BY DEF Outbox!MoveElsewhere
<1>2. /\ Placed' /\ Led' /\ Kept
      /\ \A x \in Outbox!Id : \E y \in Outbox!Id : post'[y] = post[x]
  BY <1>1, MoveStep DEF SendIInv
<1>3. Sendings' /\ DoneSent'
  BY <1>1, <1>2, CallsRest DEF SendIInv, Placed
<1>4. SentDone'
  BY <1>1, <1>2, SentDoneRests DEF SendIInv
<1>5. Outbox!GoneIfSent' /\ Outbox!SentOnce'
  BY <1>1, <1>2, GoneRests DEF SendIInv, Outbox!SentOnce
<1> QED BY <1>2, <1>3, <1>4, <1>5 DEF SendIInv

LEMMA DestroyElsewhereStep ==
  ASSUME SendIInv, NEW id \in Outbox!Id, Outbox!DestroyElsewhere(id)
  PROVE  SendIInv'
<1>1. /\ Outbox!Remove(id) /\ doomed' = doomed \cup {origin[id]}
      /\ UNCHANGED <<sending, status, sends, missed, faults>>
  BY DEF Outbox!DestroyElsewhere
<1>2. /\ Placed' /\ Led' /\ Kept
      /\ \A x \in Outbox!Id : post[x] # origin[id] => post'[x] = post[x]
  BY <1>1, RemoveStep DEF SendIInv
<1>3. Sendings' /\ DoneSent'
  BY <1>1, <1>2, CallsRest DEF SendIInv, Placed
<1>4. SentDone'
  BY <1>1, <1>2, SentDoneRests DEF SendIInv
<1>5. Outbox!GoneIfSent' /\ Outbox!SentOnce'
  BY <1>1, <1>2 DEF SendIInv, Outbox!SentOnce, Outbox!GoneIfSent
<1> QED BY <1>2, <1>3, <1>4, <1>5 DEF SendIInv

LEMMA RestartStep == SendIInv /\ Outbox!Restart => SendIInv'
<1> SUFFICES ASSUME SendIInv, Outbox!Restart PROVE SendIInv'
  OBVIOUS
<1>1. /\ faults' # {} /\ routes' = << >> /\ sending' = [h \in Sender |-> Outbox!Idle]
      /\ status' = [d \in Draft |->
            IF d \in {e \in Draft : status[e] = "pending"} THEN "failed" ELSE status[d]]
      /\ UNCHANGED <<post, used, origin, sends, doomed, missed>>
  BY DEF Outbox!Restart, Outbox!Fault, Outbox!Tell
<1>2. Led'
  BY <1>1, EmptyTable DEF Led
<1>3. Sendings' /\ DoneSent'
  <2>1. \A h \in Sender : sending'[h] = Outbox!Idle
    BY <1>1
  <2>2. Proper(Outbox!Idle) /\ Outbox!Idle.asked = {} /\ Outbox!Idle.done = {} /\ Outbox!Idle \in OneSending
    BY DEF Proper, Outbox!Idle, OneSending
  <2>3. Pending' /\ DoneSent'
    BY <2>1, <2>2 DEF Pending, DoneSent
  <2>4. status' \in [Draft -> {"draft", "pending", "failed", "sent"}]
    BY <1>1 DEF SendIInv, Sendings
  <2> QED BY <1>1, <2>1, <2>2, <2>3, <2>4 DEF SendIInv, Sendings
<1>4. Placed' /\ Outbox!GoneIfSent' /\ SentDone' /\ Outbox!SentOnce'
  BY <1>1 DEF SendIInv, Placed, Outbox!GoneIfSent, SentDone, Outbox!SentOnce
<1> QED BY <1>2, <1>3, <1>4 DEF SendIInv

LEMMA SendInvariance == OutboxSpec => []SendIInv
<1>1. SendIInv /\ [Outbox!Next]_outboxVars => SendIInv'
  <2> SUFFICES ASSUME SendIInv, [Outbox!Next]_outboxVars PROVE SendIInv'
    OBVIOUS
  <2>1. CASE UNCHANGED outboxVars
    BY <2>1 DEF outboxVars, Outbox!mail, SendIInv, Placed, Led, Sendings, Pending, DoneSent,
                SentDone, Outbox!GoneIfSent, Outbox!SentOnce
  <2>2. ASSUME NEW h \in Sender, NEW ids \in SUBSET Outbox!Id, Outbox!Submit(h, ids) PROVE SendIInv'
    BY <2>2, SubmitStep
  <2>3. ASSUME NEW h \in Sender, NEW id \in Outbox!Id, Outbox!Fetch(h, id) PROVE SendIInv'
    BY <2>3, FetchStep
  <2>4. ASSUME NEW h \in Sender, Outbox!Send(h) PROVE SendIInv'
    BY <2>4, SendStep
  <2>5. ASSUME NEW h \in Sender, Outbox!Patch(h) PROVE SendIInv'
    BY <2>5, PatchStep
  <2>6. ASSUME NEW h \in Sender, Outbox!Purge(h) PROVE SendIInv'
    BY <2>6, PurgeStep
  <2>7. ASSUME NEW h \in Sender, Outbox!Crash(h) PROVE SendIInv'
    BY <2>7, CrashStep
  <2>8. ASSUME NEW h \in Sender, Outbox!Answer(h) PROVE SendIInv'
    BY <2>8, AnswerStep
  <2>9. ASSUME NEW id \in Outbox!Id, Outbox!MoveElsewhere(id) PROVE SendIInv'
    BY <2>9, MoveElsewhereStep
  <2>10. ASSUME NEW id \in Outbox!Id, Outbox!DestroyElsewhere(id) PROVE SendIInv'
    BY <2>10, DestroyElsewhereStep
  <2>11. ASSUME NEW h \in Sender,
                \/ \E ids \in SUBSET Outbox!Id : Outbox!Submit(h, ids)
                \/ \E id \in Outbox!Id : Outbox!Fetch(h, id)
                \/ Outbox!Send(h) \/ Outbox!Patch(h) \/ Outbox!Purge(h)
                \/ Outbox!Crash(h) \/ Outbox!Answer(h)
         PROVE  SendIInv'
    BY <2>2, <2>3, <2>4, <2>5, <2>6, <2>7, <2>8, <2>11
  <2>12. CASE Outbox!Restart
    BY <2>12, RestartStep
  <2> QED BY <2>1, <2>9, <2>10, <2>11, <2>12 DEF Outbox!Next
<1> QED BY <1>1, InitSend, PTL DEF OutboxSpec

\* Whatever moves, fails, crashes or restarts while EmailSubmission/set runs,
\* and wherever redirects lead by then, a message it destroys has been sent.
THEOREM DraftsSurvive == OutboxSpec => []GoneIfSent
<1>1. SendIInv => GoneIfSent
  BY DEF SendIInv, GoneIfSent
<1> QED BY <1>1, SendInvariance, PTL

\* As long as no answer is lost, no request is malformed and the bridge runs,
\* no two calls both hand one draft to SMTP, and none does after it was sent.
THEOREM NothingSentTwice == OutboxSpec => []SentOnce
<1>1. SendIInv => SentOnce
  BY DEF SendIInv, SentOnce
<1> QED BY <1>1, SendInvariance, PTL
=============================================================================
