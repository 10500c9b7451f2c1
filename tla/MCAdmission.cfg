CONSTANTS
    p1 = p1
    p2 = p2
    p3 = p3
    Pollers <- MCPollers
    Records <- MCRecords
    Owner <- MCOwner
    Size <- MCSize
    MaxRecords = 2
    MaxBytes = 3
    HasLimit = TRUE
    CountLimit = 3
    UsizeMax = 7
SPECIFICATION FairSpec
INVARIANTS
    TypeOK
    CountersExact
    ChargedFits
PROPERTIES
    ImplementsBudget
    EveryRecordServed
CHECK_DEADLOCK FALSE
