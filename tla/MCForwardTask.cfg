SPECIFICATION Spec
CONSTANTS
    c1 = c1
    c2 = c2
    c3 = c3
    p1 = p1
    p2 = p2
    p3 = p3
    Callers = {c1, c2, c3}
    MaxConns = 2
    MaxIdle = 1
    MaxCnt = 3
    Producers = {p1, p2, p3}
    MaxItems = 1
    MaxSize = 1
    Batch = 2
    MaxTry = 3
SYMMETRY Perms
INVARIANTS
    NothingVanishes
    SentWasReceived
    NeverErrMaxConn
