CONSTANTS
    Root = Root
    one = one
    other = other
    below = below
    Segment = {one, other}
    Name <- Flat
    First <- OneBox
    Handler = {h1}
    Reuse = TRUE
    MaxAsks = 3
    MaxFaults = 0
    MaxEntries = 3
SPECIFICATION NamesSpec
CHECK_DEADLOCK FALSE
INVARIANT NoneLost
