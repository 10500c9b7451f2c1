CONSTANTS
    NumPollers = 2
    NumWorkers = 2
    Log <- FatalLogs
    Assigned <- SplitAssigned
    Heavy <- NoHeavy
    BatchRecords = 1
    MaxRecords = 2
    MaxPerPartition = 2
    CountLimit = NoCount
    CountPerPartition = 2
    NoCount = NoCount
    Modes <- OrderedMode
    Follow = FALSE
    Faults <- ThreadFaults
SPECIFICATION FairSpec
PROPERTIES
    ImplementsOutput
    RunsEnd
