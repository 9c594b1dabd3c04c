SPECIFICATION CreateSpec
CONSTANTS
    Message = {x1, x2}
    Mailbox = {m1, m2}
    Handler = {h1, h2}
    None = None
    MaxUid = 3
    MaxEntries = 2
    Versions = {}
SYMMETRY Symmetry
INVARIANTS
    Survives
    RightMessage
    Created
