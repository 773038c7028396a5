SPECIFICATION Spec
CONSTANTS
    Shapes <- RoutedShapes
    Names <- SomeNames
    Scopes <- SomeScopes
    Allowed <- Restrictions
    Held <- ScopeLists
    Batches <- SomeBatches
    MaxFrame = 2
    MaxGrowth = 2
    IdleTimeout = 2
    MaxDuration = 5
INVARIANT AlwaysAudited
CHECK_DEADLOCK FALSE
