SPECIFICATION FairSpec
CONSTANTS
    ExplicitPath = FALSE
    MaxClock = 1
    MaxFaults = 0
    MaxBoots = 2
PROPERTY
    EventuallyLive
CHECK_DEADLOCK FALSE
