SPECIFICATION FairSpec
CONSTANTS
    t1 = t1
    Tokens = {t1}
    MaxAge = 2
    FreshFor = 1
    Retry = 1
    MaxClaims = 2
    MaxTries = 2
    Hour = 3
    Limit = 4
    Penalty = 2
    MaxRows = 2
    LastRow = 1
    MaxNow = 4
    MaxCrashes = 1
INVARIANTS
    NoRowLost
PROPERTIES
    EveryCandidateEnds
    ImplementsDelivery
