CONSTANTS
    NumPollers = 2
    NumWorkers = 2
    Log <- TwoLogs
    Assigned <- SplitAssigned
    Heavy <- FirstHeavy
    BatchRecords = 2
    MaxRecords = 3
    MaxPerPartition = 2
    CountLimit = 3
    CountPerPartition = NoCount
    NoCount = NoCount
    Modes <- OtherModes
    Follow = TRUE
    Faults <- OnlySignal
SPECIFICATION FairSpec
INVARIANTS
    CompleteCoversInput
PROPERTIES
    ImplementsOutput
    RunsEnd
