SPECIFICATION FairSpec
CONSTANTS
    l1 = l1
    l2 = l2
    s1 = s1
    s2 = s2
    c1 = c1
    c2 = c2
    None = None
    Labels <- TwoLabels
    Seeds <- OneSeed
    Clients <- TwoClients
    Policy = "Strict"
    CreateMode = "rename"
    CachedMk = TRUE
    FailIn = {"start", "rotate", "mark", "commit"}
    LateFailIn = {"start", "rotate", "commit", "refresh"}
    TornClean = FALSE
    MaxMk = 2
    MaxFaults = 2
INVARIANT RecoveryCompletes
INVARIANT GateSeesOneMk
PROPERTY StartupRecovers
