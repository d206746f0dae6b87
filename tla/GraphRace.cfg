SPECIFICATION Spec
CONSTANTS
    h1 = h1
    h2 = h2
    Handlers = {h1, h2}
    Committers = {"sync"}
    MaxTs = 2
    MaxSends = 2
    MaxQueries = 0
    MaxGets = 0
    HistorySize = 2
    IoCap = 1
    MaxCleans = 0
    Fails = FALSE
INVARIANT NoneLost
