CONSTANTS
    Partitions <- MCPartitions
    Requests <- MCRequests
    StartHigh <- MCStartHigh
    MaxHigh <- MCMaxHigh
    MaxLow <- MCMaxLow
    Invisible <- MCInvisible
    Bad <- MCBad
    Time <- MCTime
    BatchSize = 2
    QueueSize = 2
    MaxErrors = 1
    CallsFail = TRUE
SPECIFICATION FairSpec
INVARIANTS
    RemainingIsExact
    DeliversTheRange
    DoneDeliversAll
    TimestampsBoundTheRange
PROPERTIES
    DoneStaysSilent
    RangesEnd
