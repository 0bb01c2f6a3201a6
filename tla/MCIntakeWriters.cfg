SPECIFICATION Spec
CONSTANTS
    Bodies <- MCKnown
    SeedTxns <- MCSeedTxns
    SeedLast = 1
    SeedUsers <- MCSeedUsers
    NewUsers <- MCNone
    BackPressure = 1
    MaxCrashes = 1
    Writers = 2
    MaxId = 3
INVARIANTS
    GapsWereOpen
CHECK_DEADLOCK FALSE
