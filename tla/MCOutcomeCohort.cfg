SPECIFICATION FairSpec
CONSTANTS
    Events = {1, 2}
    Sampled = {1}
    Horizons <- MCHorizons
    Tolerance <- MCTolerance
    Lookback = 2
    EnrollLimit = 2
    ControlLimit = 1
    MeasureLimit = 1
    LastDecision = 1
    LastBaseline = 2
    MaxNow = 5
    MaxCrashes = 1
INVARIANTS
    HorizonsInOrder
PROPERTIES
    FrozenOnceStored
    EveryHorizonRecorded
