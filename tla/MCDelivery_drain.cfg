SPECIFICATION Spec
CONSTANTS
    u1 = u1
    u2 = u2
    u3 = u3
    t1 = t1
    t2 = t2
    Adapters <- SignalOnly
    Slots = 2
    MaxFaults = 2
    MaxCrashes = 1
    MaxSent = 5
    MaxChatFaults = 3
    ChanCap = 2
    MaxConns = 2
    MaxMessages = 2
    MaxTrouble = 2
    Users <- ThreeUsers
    FormTenants <- TwoTenants
    FormCap = 2
    FieldCount = 2
    MaxForms = 3
    Deployments <- ThreeDeployments
    MaxRequests = 1
    Readers = {"c1", "c2"}
    First = "c1"
    Tokens = 2
    Window = 1
    TextMax = 1
    MaxLosses = 1
PROPERTY SignalDrains
CHECK_DEADLOCK FALSE
