SPECIFICATION FairSpec
CONSTANTS
    e1 = e1  e2 = e2  t = t
    Events <- MCEvents
    Tokens = {t}
    TokenOf <- MCTokenOf
    MaxAttempts = 2
    Lease = 2
    Timeout = 1
    Backoff <- MCBackoff
    Penalty = 2
    Interval = 1
    Hour = 2
    SampleMax = 1
    MaxCrashes = 1
    MaxCalls = 2
    Window = 2
INVARIANTS
    TypeOK
    CopiesWithinAttempts
    NoConcurrentSends
    HeldRowIsPending
PROPERTIES
    ImplementsDelivery
