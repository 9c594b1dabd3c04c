CONSTANTS
    Root = Root
    one = one
    other = other
    below = below
    Segment = {one, other, below}
    Name <- Nested
    First <- Family
    Handler = {h1, h2}
    Reuse = FALSE
    MaxAsks = 4
    MaxFaults = 1
    MaxEntries = 4
SPECIFICATION NamesSpec
CHECK_DEADLOCK FALSE
SYMMETRY Symmetry
INVARIANTS NoneLost RightMailbox Reachable
