CONSTANTS
    Inputs <- MCInputs
    Offsets <- MCOffsets
    Built <- MCBuilt
    Low = 0
    High = 6
    BatchSize = 2
SPECIFICATION PrepareSpec
INVARIANTS
    EachOffsetOnce
    AllowancesFit
    ConsumersWork
    NothingOutlivesItsClient
