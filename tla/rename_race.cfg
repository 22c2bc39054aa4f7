SPECIFICATION Spec
CONSTANTS
    l1 = l1
    l2 = l2
    s1 = s1
    s2 = s2
    c1 = c1
    c2 = c2
    None = None
    Labels <- OneLabel
    Seeds <- OneSeed
    Clients <- TwoClients
    Policy = "Callback"
    CreateMode = "rename"
    CachedMk = FALSE
    FailIn = {}
    LateFailIn = {}
    TornClean = FALSE
    MaxMk = 2
    MaxFaults = 0
INVARIANT OneSecretPerFile
