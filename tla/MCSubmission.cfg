SPECIFICATION OutboxSpec
CONSTANTS
    Draft = {d1, d2}
    Sender = {h1, h2}
    Absent = Absent
    MaxPlace = 4
    Faults = {"malformed", "lost", "restart"}
    MaxFaults = 1
    MaxEntries = 3
SYMMETRY Symmetry
INVARIANTS GoneIfSent SentOnce
CHECK_DEADLOCK FALSE
