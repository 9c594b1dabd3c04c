CONSTANTS
    h1 = h1
    h2 = h2
    Calendar = {1, 2, 3}
    Handler = {h1, h2}
    Home = 1
    Moves <- MovesAhead
    Kinds = {"event", "card"}
    MaxAsks = 3
    MaxFaults = 1
    MaxEntries = 3
    Key = {1, 2}
    Time = {1, 2, 3}
    Title = {"a", "b"}
    None = None
    Unchanged = Unchanged
    MaxEdits = 4
    LateEdits = FALSE
    Mixed = FALSE
SPECIFICATION EventSpec
CHECK_DEADLOCK FALSE
SYMMETRY Symmetry
INVARIANTS Survives Resolvable Occurs
