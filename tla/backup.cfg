\* Three days, one manual cycle beside the daily ones, two faults.
SPECIFICATION Spec
CONSTANTS
    Cron = Cron
    Manual = Manual
    Day = 2
    Retention = 0
    MaxRun = 1
    MaxTime = 4
    MaxCycles = 4
    MaxManual = 1
    MaxFaults = 2
INVARIANTS
    BucketIsRestorable
    BufferIsRestorable
    RecentBackupsAreKept
    SnapshotsAreAccounted
    TypeOK
PROPERTIES
    TrimHasSuccessor
CHECK_DEADLOCK FALSE
