SPECIFICATION FairTopicsSpec
CONSTANTS
    QueueLimit = 2
    MaxSessionEpoch = 1
    MaxRevision = 3
    MaxLosses = 1
    MaxResponses = 1
CHECK_DEADLOCK FALSE
INVARIANTS
    NoLostUpdate
PROPERTIES
    CatchesUp
