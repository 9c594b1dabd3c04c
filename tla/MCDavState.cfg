CONSTANTS
    Href <- Href2
    Name <- Name2
    Renames <- Forwards
    Kinds = {"calendar", "addressbook"}
    MaxChanges = 3
    MaxFaults = 1
    MaxUnread = 1
SPECIFICATION FairSpec
INVARIANTS NothingMissed CardsCurrent
PROPERTY Converges
