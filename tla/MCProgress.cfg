SPECIFICATION ProgressSpec
CONSTANTS
    Senders = {"a", "b"}
    TransferAddrs = {"t", "u"}
    Samples = {1, 2}
    IgnoreMetrics = {2}
    MaxClients = 4
    MaxBatches = 3
    Handlers = {"h", "i"}
    MaxVersion = 3
    MaxAgentFaults = 1
    Horizon = 4
    MockRows <- Configs
    MaxNodataFaults = 3
    c1 = c1
    c2 = c2
    c3 = c3
    Callers = {c1, c2, c3}
    MaxConns = 2
    MaxIdle = 1
    MaxCnt = 5
CHECK_DEADLOCK FALSE
INVARIANTS
    MockInGap
    PoolAccounting
    ConnExclusive
    PoolBounded
PROPERTIES
    ImplementsPermits
    SendReturns
    HostRowHeals
    NodataReported
