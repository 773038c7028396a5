SPECIFICATION Spec
CONSTANTS
    t1 = t1
    t2 = t2
    c1 = c1
    c2 = c2
    Tasks <- TwoTasks
    Callers <- TwoCallers
    TaskMax = 2
    BackoffMax = 2
    MaxTime = 2
    MaxCrashes = 1
    StoreMayFail = FALSE
    Revoked <- SecondRevoked
    NoTask = NoTask
SYMMETRY CallerSymmetry
CHECK_DEADLOCK FALSE
INVARIANTS
    OneFiling
    RunnerOwnsRunningTask
    ToldAgrees
PROPERTIES
    BoardSpec
