SPECIFICATION FairSpec
CONSTANTS
    Bodies <- MCBodies
    SeedTxns <- MCSeedTxns
    SeedLast = 1
    SeedUsers <- MCSeedUsers
    NewUsers <- MCNewUsers
    BackPressure = 1
    MaxCrashes = 1
    Writers = 1
    MaxId = 3
INVARIANTS
    TypeOK
    CursorLeavesNoGap
    CapturedOnce
    PublishedOnce
    CapturesAccountedFor
    OvershootOfOnePoll
PROPERTY FlowDrains
CHECK_DEADLOCK FALSE
