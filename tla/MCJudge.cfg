SPECIFICATION Spec
CONSTANTS
    s1 = s1
    s2 = s2
    Senders = {s1, s2}
    MaxTs = 3
    MaxClock = 2
    MaxSends = 3
    MaxRestarts = 1
    Remain = 2
    Limit = 2
    MaxStep = 1
    MinInterval = 1
    StaleAfter = 0
    RedisFails = TRUE
SYMMETRY Perms
INVARIANTS
    HistoryOrdered
    WalkOrdered
