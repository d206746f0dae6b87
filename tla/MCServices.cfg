SPECIFICATION ServicesSpec
CONSTANTS
    HbsTpls = {1, 2}
    HbsGrps = {1, 2}
    StrategyRows <- Rules
    InheritLimit = 3
    MaxEdits = 2
    MaxHbsFaults = 1
    Paths = {"p", "q"}
    Dirs <- PluginDirs
    Watch = {1, 2}
    MaxMTime = 2
    MaxAnswers = 3
    MaxWatchEdits = 2
    MigrateWorkers = {w, v}
    TaskCap = 1
    MaxTries = 1
    MaxTs = 2
    MaxShutdowns = 1
    MaxMigrateFaults = 1
    Slow = TRUE
    TransferHostnames <- TwoTransfers
    GwMaxConns = 1
    Retry = 2
    GwQueueSize = 1
    MaxGwBatches = 3
SYMMETRY MigrateSymmetry
CHECK_DEADLOCK FALSE
INVARIANTS
    AnswersSettle
    PluginsAsTold
    ChecksumHonest
    HistoryReadable
    MigrationKeeps
    GatewayBooks
