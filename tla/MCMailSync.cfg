SPECIFICATION FairSpec
CONSTANTS
    Mailbox = {m1, m2}
    Boots <- FirstMailboxes
    Servers = {"qresync", "condstore"}
    InitialMail = 1
    MaxChanges = 3
INVARIANTS
    MirrorComplete
PROPERTY
    EventuallyComplete
