SPECIFICATION FairSpec
CONSTANTS
    c1 = c1
    c2 = c2
    p1 = p1
    p2 = p2
    Callers = {c1, c2}
    MaxConns = 1
    MaxIdle = 1
    MaxCnt = 2
    Producers = {p1, p2}
    MaxItems = 2
    MaxSize = 1
    Batch = 1
    MaxTry = 2
INVARIANT QueueOvershoot
PROPERTY AcceptedSettles
