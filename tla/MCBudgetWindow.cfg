SPECIFICATION WindowSpec
CONSTANTS
    MaxCalls = 2
    Window = 3
    MaxNow = 9
    MaxHolds = 2
    Delays <- MCDelays
INVARIANTS
    WindowTypeOK
    WindowCap
    CooldownHonoured
    NoBudgetLost
