SPECIFICATION Spec
CONSTANTS
    a = a  b = b
    Logs = {a, b}
    MaxBlock = 4
    Step = 2
    Window = 3
    Overlap = 1
    Lag = 0
    Failures = 2
    Recoveries = 2
    MaxFaults = 1
INVARIANTS
    HoldStallsChain
