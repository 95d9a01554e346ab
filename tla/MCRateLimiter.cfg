SPECIFICATION Spec
CONSTANTS
    IPs = {a}
    Requests = {q1, q2, q3}
    Burst = 1
    Period = 2
    IdleTTL = 3
    Second = 2
    MaxStall = 1
    MaxClock = 5
    MaxGen = 2
    MaxDebt = 4
SYMMETRY Goroutines
INVARIANTS
    LimiterInv
    WindowBound
PROPERTY
    RetryAfterHonest
CHECK_DEADLOCK FALSE
