SPECIFICATION FairSpec
CONSTANTS
    t1 = t1
    t2 = t2
    c1 = c1
    c2 = c2
    Tasks <- OneTask
    Callers <- TwoCallers
    TaskMax = 2
    BackoffMax = 2
    MaxTime = 3
    MaxCrashes = 1
    StoreMayFail = TRUE
    Revoked <- NoneRevoked
    NoTask = NoTask
CHECK_DEADLOCK FALSE
PROPERTIES
    LiveTaskEnds
    CallerAnswered
