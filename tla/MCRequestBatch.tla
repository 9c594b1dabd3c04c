---------------------------- MODULE MCRequestBatch ----------------------------
(* RequestBatch, the calls of a request, and Threads, a call of Thread/get    *)
(* with what its request swept before, one of which takes its steps in each   *)
(* behaviour; under names of their own, for TLC and for ParallelSweep_proofs, *)
(* which extends this module beside ParallelSweep.                            *)
EXTENDS Sequences, TLC

CONSTANTS Tag, Creation, Absent, MaxCalls, MaxMail

VARIABLES mail, cache, call, results, created, begun,
          made, own, answered, states, refused, aborted

Batch == INSTANCE RequestBatch WITH None <- Absent

ASSUME BatchConstants == Batch!BatchAssumption

batchVars == <<mail, cache, call, results, created, begun,
               made, own, answered, states, refused, aborted>>

-----------------------------------------------------------------------------
CONSTANTS Box, Colon, Id, Message, MaxUid, MaxMoved

VARIABLES folder, next, told, moved, get, stayed

Thread == INSTANCE Threads WITH None <- Absent, call <- get

ASSUME ThreadConstants == Thread!ThreadAssumption

threadVars == <<folder, next, told, moved, get, stayed>>

\* Messages of a thread with root `first`: without ids, the root, an answer by
\* In-Reply-To only, one with both; and one of a thread that mentions it.
CONSTANTS first, second

Letter(id, references, inReplyTo) ==
    [messageId |-> id, references |-> references, inReplyTo |-> inReplyTo]

Letters ==
    {Letter(Absent, << >>, << >>), Letter(first, << >>, << >>),
     Letter(second, << >>, <<first>>), Letter(Absent, <<first, second>>, <<second>>),
     Letter(Absent, <<second, first>>, <<first>>)}

-----------------------------------------------------------------------------
\* A component that takes no steps.
BatchRests ==
    /\ mail = 0 /\ cache = Absent /\ call = Batch!Idle /\ begun = MaxCalls
    /\ results = << >> /\ created = [c \in Creation |-> Absent] /\ made = created
    /\ own = 0 /\ answered = 0 /\ states = {} /\ refused = {} /\ aborted = TRUE
ThreadRests ==
    /\ folder = << >> /\ next = << >> /\ told = {} /\ moved = MaxMoved
    /\ get = [pc |-> "failed"] /\ stayed = {}

RequestInit ==
    \/ Batch!Init /\ ThreadRests
    \/ Thread!Init /\ BatchRests

RequestNext ==
    \/ folder = << >> /\ Batch!Next /\ UNCHANGED threadVars
    \/ folder # << >> /\ Thread!Next /\ UNCHANGED batchVars

RequestSpec == RequestInit /\ [][RequestNext]_<<batchVars, threadVars>>

\* A call after a successful set is answered with a state that covers what
\* the set changed, whatever was cached before it.
Fresh == folder = << >> => Batch!Fresh

\* Between two calls each creation id leads to the record last created under
\* it, in whichever call, as long as no set failed as a whole.
Remembered == folder = << >> => Batch!Remembered

\* A message that stays is listed with its thread and no other (thread.py:20),
\* unless its mailbox could not be selected for its lookup.
Grouped == folder # << >> => Thread!Grouped

\* An answer is as the state it says (thread.py:101), but for such lookups.
AsOfState == folder # << >> => Thread!AsOfState

\* Claims that do not hold: no message that stays is notFound (thread.py:129),
\* and every answer is as its state (thread.py:198).
AlwaysGrouped == folder # << >> => Thread!AlwaysGrouped

AlwaysAsOfState == folder # << >> => Thread!AlwaysAsOfState

\* Tags are interchangeable, and so are creation ids and mailboxes.
Symmetry == Permutations(Tag) \cup Permutations(Creation) \cup Permutations(Box)
=============================================================================
