CONSTANTS
    Hour = 2
    CardTTL = 1
    CallbackTTL = 2
    CallbackSkew = 1
    ServiceWindow = 2
    Channels = {"msteams", "google_chat", "telegram", "discord", "whatsapp", "twilio", "rcs", "receipts", "bridge", "signal", "email"}
    Users <- const_Users
    Home <- const_Home
    Owner = "u1"
    Configs <- const_Configs
    OldKey <- const_OldKey
    NewKey <- const_NewKey
    ShortKey <- const_ShortKey
    Agents <- const_Agents
    MaxClock = 4
    MaxChanges = 3
    Sides = {"chat"}
    Principals <- const_Principals
    Operators <- const_Operators
    TaskIds = {"x1", "x2"}
    RingCap = 1
    MaxHttp = 3
    Styles = {"oidc", "teams", "google", "access", "mint", "wif"}
    Kids = {"k1", "k2"}
    Callers = {"r1", "r2"}
    TTL = 1
    Cooldown = 1
    Timeout = 1
    Lead = 1
    Life = 2
    AccessCap = 1
    MaxNow = 3
    MaxEvents = 1
    x = x
    y = y
    z = z
    k1 = k1
    k2 = k2
    th1 = th1
    th2 = th2
    Threads <- TwoThreads
    Tenants <- ThreeTenants
    Keys <- TwoKeys
    Rate = 1
    Cost = 2
    Burst = 3
    MaxBuckets = 2
    Window = 2
    Limiters <- AllLimiters
    MaxTime = 4
    MaxSeen = 4
    Platforms = {"poll"}
    Posted = 1
    MaxMisses = 0
SPECIFICATION IngressSpec
CHECK_DEADLOCK FALSE
INVARIANTS
    SealSurvivesRotation
