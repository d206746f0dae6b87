SPECIFICATION Spec
CONSTANTS
    s1 = s1
    Senders = {s1}
    MaxTs = 4
    MaxClock = 3
    MaxSends = 5
    MaxRestarts = 1
    Remain = 2
    Limit = 2
    MaxStep = 2
    MinInterval = 1
    StaleAfter = 1
    RedisFails = FALSE
INVARIANTS
    Episodes
    PointsUsedOnce
