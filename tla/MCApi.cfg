SPECIFICATION ApiSpec
CONSTANTS
    Names = {"root", "amy"}
    Passwords = {"p", "q"}
    MaxUsers = 3
    MaxSigs = 3
    MaxTeams = 1
    MaxReqs = 4
    MaxPend = 2
    Hostnames = {"a", "b"}
    Owners = {"amy"}
    MaxGrps = 2
    MaxRows = 2
    MaxGrpReqs = 5
    MaxGrpPend = 2
    MaxTpls = 2
    MaxActs = 2
    MaxRules = 2
    MaxTplReqs = 4
    EndpointLists <- EsLists
    CounterLists <- CsLists
    MaxScreens = 2
    MaxGraphs = 1
    MaxTmp = 2
    MaxBoardReqs = 3
    CaseIds = {"c"}
    CaseUsers = {"amy"}
    MaxClock = 4
    PageLimit = 2
    ClusterIds = {1}
    ClusterItems <- Clusters
    AggHosts = {"a", "b"}
    Counters = {"m", "n"}
    HostValues = {1, 3}
    MaxSecond = 2
    MaxRowEdits = 3
    Channels = {"sms", "im"}
    TeamMembers = {"amy", "bob"}
    HasContact <- Contacts
    HighPriorities = {2}
    Kinds <- EventKinds
    MaxEvents = 2
    Workers = 1
    MaxFaults = 1
CHECK_DEADLOCK FALSE
INVARIANTS
    OnlyLiveTokens
    ChangesKept
    DeletedGroupsSilent
    OwnedRowsLive
    TmpGraphStable
    CaseShowsDecision
    WorkersFollow
    MeanInRange
    ToldOnce
