CONSTANTS
    NumPollers = 2
    NumWorkers = 1
    Log <- TwoLogs
    Assigned <- SplitAssigned
    Heavy <- NoHeavy
    BatchRecords = 1
    MaxRecords = 2
    MaxPerPartition = 2
    CountLimit = NoCount
    CountPerPartition = NoCount
    NoCount = NoCount
    Modes <- OrderedMode
    Follow = FALSE
    Faults <- SpawnFaults
SPECIFICATION FairSpec
INVARIANTS
    NoOutputAfterStartupFailure
