SPECIFICATION Spec
CONSTANTS
    c1 = c1
    c2 = c2
    c3 = c3
    Clients <- ThreeClients
    OpenAfter = 1
    Cooldown = 1
    Unsigned <- OneClient
    Impatient <- OtherClient
INVARIANT NeverWedged
CHECK_DEADLOCK FALSE
