SPECIFICATION Spec
CONSTANTS
    IPs = {a}
    Requests = {q1, q2}
    Burst = 2
    Period = 3
    IdleTTL = 7
    Second = 2
    MaxStall = 0
    MaxClock = 16
    MaxGen = 2
    MaxDebt = 3
INVARIANT
    DenialCostsNothing
CHECK_DEADLOCK FALSE
