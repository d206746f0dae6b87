SPECIFICATION MigrationFairSpec
CONSTANTS
    MigrateWorkers = {"w"}
    TaskCap = 1
    MaxTries = 3
    MaxTs = 2
    MaxShutdowns = 0
    MaxMigrateFaults = 0
    Slow = FALSE
CHECK_DEADLOCK FALSE
PROPERTY NewSeriesFlushed
