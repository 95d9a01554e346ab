SPECIFICATION FairSpec
CONSTANTS
    Posters = {q1, q2}
    Limit = 1
    MaxOffset = 2
    Retention = 1
    MaxClock = 2
    Found = 2
    MaxSaves = 2
    MaxBoots = 2
INVARIANTS
    StoreInv
    AcknowledgedIsKept
    TotalCoversPage
    PagesMissNothing
PROPERTY
    ShutdownEnds
CHECK_DEADLOCK FALSE
