SPECIFICATION FairSpec
CONSTANTS
    MaxRows = 2
    MaxRuns = 2
INVARIANTS
    TypeOK
    CommittedIsWritten
    OneQueryPerCheckpoint
    OncePerRun
PROPERTY FlaggingCatchesUp
CHECK_DEADLOCK FALSE
