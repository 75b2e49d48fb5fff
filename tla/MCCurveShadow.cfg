SPECIFICATION Spec
CONSTANTS
    launch = launch  trade = trade  token = token
    Logs = {launch, trade}
    Tokens = {token}
    TokenOf <- MCTokenOf
    KindOf <- MCKindOf
    Window = 2
    PollWindow = 1
    Chunk = 2
    Overlap = 1
    SeedOverlap = 1
    Retention = 2
    Behind = 1
    LastLog = 2
    MaxNow = 3
    MaxFaults = 3
INVARIANTS
    CheckpointSound
    EvidenceComplete
    ReorgHonoured
