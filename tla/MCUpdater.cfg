SPECIFICATION FairSpec
CONSTANTS
    ExplicitPath = TRUE
    MaxClock = 3
    MaxFaults = 3
    MaxBoots = 2
INVARIANTS
    IInv
    ServesWhatIsOnDisk
PROPERTIES
    GoodCopySurvives
    ComesLive
    RefreshKeepsRunning
    StopsOnCancel
CHECK_DEADLOCK FALSE
