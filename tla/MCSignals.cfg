CONSTANTS
    h1 = h1
    h2 = h2
    h3 = h3
    Deliveries <- MCDeliveries
SPECIFICATION FairSpec
INVARIANTS
    StartupSignalWins
    LoneSignalDrains
PROPERTIES
    SignalIsReported
    TwoSignalsExit
