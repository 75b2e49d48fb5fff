SPECIFICATION FairSpec
CONSTANTS
    Stale = 1
    Stalled = 1
    AlertAfter = 1
    Cooldown = 2
    RecoverAfter = 2
    Depth = 2
    MaxFaults = 1
INVARIANTS
    NoNeedlessMessage
PROPERTIES
    RecoveryIsEarned
    ChannelFollows
    HoldIsEscalated
