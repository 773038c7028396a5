SPECIFICATION FairSpec
CONSTANTS
    c1 = c1
    c2 = c2
    c3 = c3
    Clients <- ThreeClients
    OpenAfter = 2
    Cooldown = 2
    Unsigned <- OneClient
    Impatient <- OtherClient
INVARIANTS
    TrippedInTime
    HalfOpenHasProbe
PROPERTIES
    MovesExplained
    Recovers
CHECK_DEADLOCK FALSE
