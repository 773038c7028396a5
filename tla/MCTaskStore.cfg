SPECIFICATION Spec
CONSTANTS
    a = a
    b = b
    c = c
    w1 = w1
    w2 = w2
    None = None
    Writers <- TwoWriters
    Ids <- ThreeIds
    Backends <- Both
    Capacity = 2
    Retention = 0
    PruneEvery = 2
    MaxTime = 1
    MaxWrites = 5
    MaxCrashes = 1
SYMMETRY Symmetry
CHECK_DEADLOCK FALSE
INVARIANTS
    NoLostUpdate
    PruneKeepsUp
PROPERTIES
    FinishedRows
