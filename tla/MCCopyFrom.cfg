SPECIFICATION Spec
CONSTANTS
    None = None
    End = End
    Missing = Missing
    Null = Null
    Unset = Unset
    Invalid = Invalid
    Old = Old
    Bad = Bad
    w1 = w1
    w2 = w2
INVARIANTS
    NoRowForgotten
    CompletedMeansSettled
    SentIsWanted
    StoredAsRead
    BatchesFollowTheRing
PROPERTIES
    KeepsPromise
    ReplicasFirst
    ImportEnds
CHECK_DEADLOCK FALSE
