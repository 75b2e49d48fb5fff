SPECIFICATION FairSpec
CONSTANTS
    e1 = e1  e2 = e2  t1 = t1  t2 = t2
    Events <- MCOthers
    Tokens = {t1, t2}
    TokenOf <- MCOthersToken
    SourceOf <- MCOthersFrom
    AgeOf <- MCOthersAge
    Activation = 1
    Scores <- MCOneScore
    LowScore = 1
    MidScore = 2
    Pressure = 1
    Cohort = 1
    SizeChecks <- MCSizeChecks
    MidChecks <- MCMidChecks
    DexDelay <- MCDexDelay
    MinRetry <- MCMinRetry
    Defer = 1
    MaxPriceAge = 1
    MaxSourceAge = 1
    MaxAge = 3
    LastArrival = 1
    MaxNow = 4
    MaxCrashes = 1
PROPERTIES
    EveryJobEnds
