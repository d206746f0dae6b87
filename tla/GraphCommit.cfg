SPECIFICATION FairSpec
CONSTANTS
    h1 = h1
    h2 = h2
    Handlers = {h1}
    Committers = {"sync", "get", "main"}
    MaxTs = 2
    MaxSends = 2
    MaxQueries = 0
    MaxGets = 1
    HistorySize = 2
    IoCap = 1
    MaxCleans = 0
    Fails = TRUE
INVARIANT AcceptedKept
PROPERTY CacheDrains
PROPERTY ShutdownEnds
CHECK_DEADLOCK FALSE
