SPECIFICATION FairSpec
CONSTANTS
    Client = {c1, c2}
    Watcher = {w1, w2}
    Mailbox = {m1, m2}
    None = None
    MaxChanges = 3
INVARIANTS OnlyRegisteredWatches InSync
PROPERTIES NeverBackwards EventuallyTold
