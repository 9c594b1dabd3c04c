SPECIFICATION FairSpec
CONSTANTS
    Request = {r1, r2}
    Worker = {w1, w2, w3, w4}
    None = None
    MaxPerUser = 4
    MaxEntries = 2
INVARIANTS HoldersAreActive SomebodyCanProceed
PROPERTIES SweepsComplete
