SPECIFICATION Spec
CONSTANTS
    Streams = {s1, s2}
    Chunks = 1
    MaxRuns = 1
INVARIANT
    OnlyStopIsSilent
CHECK_DEADLOCK FALSE
