----------------------------- MODULE MCEventStore -----------------------------
(* Instances of EventStore, where an event is, and of Occurrences, what is in *)
(* it; one of them takes its steps in each behaviour.                         *)
EXTENDS EventStore, TLC

CONSTANTS h1, h2
Symmetry == Permutations({h1, h2})
MovesAhead == {m \in Calendar \X Calendar : m[1] < m[2]}
Anywhere == {m \in Calendar \X Calendar : m[1] # m[2]}

-----------------------------------------------------------------------------
CONSTANTS Key, Time, Title, None, Unchanged, MaxEdits, LateEdits, Mixed
VARIABLES cal, shown, extras, edits

Recurring == INSTANCE Occurrences

occurrenceVars == <<cal, shown, extras, edits>>

OccurrencesRest == cal = << >> /\ shown = << >> /\ extras = {} /\ edits = MaxEdits
StoreRests ==
    /\ kind = "event" /\ object = << >> /\ stamp = 0 /\ table = << >>
    /\ task = [h \in Handler |-> Idle] /\ known = {} /\ asked = MaxAsks
    /\ acked = {} /\ destroyed = TRUE /\ overlapped = FALSE /\ faults = MaxFaults

EventInit ==
    \/ Init /\ OccurrencesRest
    \/ Recurring!Init /\ StoreRests

EventNext ==
    \/ shown = << >> /\ Next /\ UNCHANGED occurrenceVars
    \/ shown # << >> /\ Recurring!Next /\ UNCHANGED vars

EventSpec == EventInit /\ [][EventNext]_<<vars, occurrenceVars>>

\* Every occurrence is what the last patch made of it (event_map.py:697).
Occurs == shown # << >> => Recurring!Occurs

\* A claim that does not hold: what a patch does not name survives it
\* (event_map.py:24).
ExtrasSurvive == shown # << >> => Recurring!ExtrasSurvive
=============================================================================
