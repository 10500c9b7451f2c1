CONSTANTS
    None = None
    I32Max = 4
    I64Max = 9
    U64Max = 130000
    U128Max = 1073741824
    UsizeMax = 4096
    MaxPartitions = 3
    MaxConsumers = 3
    Requests <- RunRequests
    Records = 2
    Dropped <- MCDropped
    Unknown <- MCUnknown
    Parallelism = 3
    Sinks <- MCSinks
SPECIFICATION FairSpec
INVARIANTS
    ConfigurationErrorsExitTwo
