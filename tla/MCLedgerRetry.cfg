SPECIFICATION Spec
CONSTANTS
    Clients = {c1}
    Forms <- MCOneTxn
    SeedUsers <- MCSeedUsers
    SeedTxns <- MCSeedTxns
    MaxSubs = 1
    MaxTries = 2
INVARIANT TryAgainStoresOnce
CHECK_DEADLOCK FALSE
