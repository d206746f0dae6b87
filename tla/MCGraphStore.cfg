SPECIFICATION Spec
CONSTANTS
    h1 = h1
    h2 = h2
    Handlers = {h1}
    Committers = {"sync"}
    MaxTs = 3
    MaxSends = 3
    MaxQueries = 1
    MaxGets = 0
    HistorySize = 2
    IoCap = 1
    MaxCleans = 1
    Fails = FALSE
INVARIANT NoneLost
INVARIANT QuerySees
INVARIANT LastIsNewest
INVARIANT IndexKnows
