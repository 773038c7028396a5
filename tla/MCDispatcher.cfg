SPECIFICATION FairSpec
CONSTANTS
    Shapes <- PossibleShapes
    Names <- SomeNames
    Scopes <- SomeScopes
    Allowed <- Restrictions
    Held <- ScopeLists
    Batches <- SomeBatches
    MaxFrame = 2
    MaxGrowth = 2
    IdleTimeout = 2
    MaxDuration = 5
INVARIANTS
    OneLine
    LineMatchesAnswer
    RefusedNeverRuns
PROPERTIES
    StreamEnds
CHECK_DEADLOCK FALSE
