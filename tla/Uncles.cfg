SPECIFICATION Spec
CONSTANTS
    Depth = 3
    StaleThreshold = 3
    SideChanSize = 3
    MaxBlocks = 6
    MaxFork = 2
    Nil = Nil
INVARIANTS
    TypeOK
    UnclesValid
PROPERTIES
    PrefersLocal
    SweepKeepsCandidates
    KeepsUncleCount
