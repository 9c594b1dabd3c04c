SPECIFICATION RequestSpec
CONSTANTS
    Tag = {t1, t2}
    Creation = {year, month}
    Absent = Absent
    MaxCalls = 3
    MaxMail = 3
    first = first
    second = second
    Box = {m1, m2}
    Colon = {}
    Id = {first, second}
    Message <- Letters
    MaxUid = 2
    MaxMoved = 2
SYMMETRY Symmetry
INVARIANTS Fresh Remembered Grouped AsOfState
CHECK_DEADLOCK FALSE
