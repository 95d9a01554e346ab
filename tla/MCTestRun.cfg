SPECIFICATION FairSpec
CONSTANTS
    Streams = {s1, s2}
    Chunks = 2
    MaxRuns = 2
INVARIANTS
    RunInv
    GradeComparesLoadWithQuiet
PROPERTIES
    NoRequestAfterStop
    StopEndsRun
    TimedPhasesEnd
CHECK_DEADLOCK FALSE
