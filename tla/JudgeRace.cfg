SPECIFICATION Spec
CONSTANTS
    s1 = s1
    s2 = s2
    Senders = {s1, s2}
    MaxTs = 2
    MaxClock = 2
    MaxSends = 2
    MaxRestarts = 0
    Remain = 2
    Limit = 1
    MaxStep = 2
    MinInterval = 0
    StaleAfter = 1
    RedisFails = FALSE
INVARIANT PointsUsedOnce
