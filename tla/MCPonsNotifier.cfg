SPECIFICATION FairSpec
CONSTANTS
    t1 = t1  t2 = t2
    Tokens = {t1, t2}
    LaunchOf <- MCLaunch
    NameOf <- MCName
    Caps = {1, 2}
    SizeChecks = {1, 2, 4}
    MinAge = 1
    MaxAge = 4
    NameWindow = 3
    Hour = 2
    MaxPerHour = 1
    MaxAttempts = 2
    Lease = 1
    Backoff <- MCBackoff
    Penalty = 2
    MaxNow = 6
    MaxFaults = 1
INVARIANTS
    HourlyCap
    AskedOncePerCheckpoint
PROPERTIES
    ImplementsDelivery
