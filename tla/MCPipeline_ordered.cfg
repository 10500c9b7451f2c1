CONSTANTS
    NumPollers = 1
    NumWorkers = 3
    Log <- CountedLogs
    Assigned <- SharedAssigned
    Heavy <- NoHeavy
    BatchRecords = 3
    MaxRecords = 3
    MaxPerPartition = 2
    CountLimit = NoCount
    CountPerPartition = 3
    NoCount = NoCount
    Modes <- OrderedMode
    Follow = FALSE
    Faults <- NoFaults
SPECIFICATION FairSpec
INVARIANTS
    CreditsConserved
    CreditsOutliveWrites
    WriterNeverWaits
    HealthyRunsSucceed
    CompleteCoversInput
PROPERTIES
    ImplementsOutput
    RunsEnd
