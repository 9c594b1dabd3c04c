SPECIFICATION FairSpec
CONSTANTS
    Task = {t1, t2, t3}
    Conn = {c1, c2}
    Password = {p1, p2}
    None = None
    MaxPerUser = 2
    IdleEviction = 0
    SweepInterval = 1
    AcquireTimeout = 1
INVARIANTS
    ExclusiveUse
    IdleQuiescent
    OwnSession
    SlotAccounting
    Capacity
    NoLostWakeup
PROPERTIES
    ImplementsLease
    ServedIfArrivalsStop
