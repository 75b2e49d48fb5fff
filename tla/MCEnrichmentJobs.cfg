SPECIFICATION Spec
CONSTANTS
    e1 = e1  e2 = e2  t1 = t1  t2 = t2
    Events <- MCMixed
    Tokens = {t1, t2}
    TokenOf <- MCMixedToken
    SourceOf <- MCMixedFrom
    AgeOf <- MCMixedAge
    Activation = 0
    Scores <- MCScores
    LowScore = 1
    MidScore = 2
    Pressure = 1
    Cohort = 1
    SizeChecks <- MCSizeChecks
    MidChecks <- MCMidChecks
    DexDelay <- MCDexDelay
    MinRetry <- MCMinRetry
    Defer = 1
    MaxPriceAge = 1
    MaxSourceAge = 1
    MaxAge = 4
    LastArrival = 1
    MaxNow = 6
    MaxCrashes = 1
INVARIANTS
    TypeOK
    OneActivePerToken
    HeldJobIsProcessing
    StagesAreEarned
    FinalStrongHasAlert
    NoDoubleAlert
