SPECIFICATION FairSpec
CONSTANTS
    Clients = {c1, c2}
    Forms <- MCForms
    SeedUsers <- MCSeedUsers
    SeedTxns <- MCSeedTxns
    MaxSubs = 1
    MaxTries = 2
INVARIANTS
    TypeOK
    ReportsAreTrue
    FreshTransactionIds
    UsersAreUnique
PROPERTIES
    ImplementsStore
    Answered
CHECK_DEADLOCK FALSE
