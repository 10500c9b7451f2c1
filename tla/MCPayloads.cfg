CONSTANTS
    None = None
    MaxRecords = 2
    MaxBytes = 3
    MaxBuffer = 2
    Chunks <- MCChunks
    Capacities <- MCCapacities
    Log <- MCLog
    HeaderSlot = 3
    I32Max = 2
    Requests <- MCRequests
SPECIFICATION Spec
INVARIANTS
    PoolExact
    OutputAsPromised
    StorageReturns
    StatsAddUp
