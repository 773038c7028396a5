SPECIFICATION Spec
CONSTANTS
    a = a
    b = b
    c = c
    w1 = w1
    w2 = w2
    None = None
    Writers <- TwoWriters
    Ids <- ThreeIds
    Backends <- MemoryOnly
    Capacity = 2
    Retention = 1
    PruneEvery = 2
    MaxTime = 0
    MaxWrites = 4
    MaxCrashes = 1
SYMMETRY Symmetry
CHECK_DEADLOCK FALSE
INVARIANT MemoryBounded
