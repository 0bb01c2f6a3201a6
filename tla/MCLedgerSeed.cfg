SPECIFICATION Spec
CONSTANTS
    Clients = {c1, c2}
    Forms <- MCStrangers
    SeedUsers <- MCSeedUsers
    SeedTxns <- MCSeedTxns
    MaxSubs = 1
    MaxTries = 1
INVARIANT AutoIncrementAdmits
CHECK_DEADLOCK FALSE
