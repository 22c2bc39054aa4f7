SPECIFICATION Spec
CONSTANTS
    l1 = l1
    l2 = l2
    s1 = s1
    s2 = s2
    c1 = c1
    c2 = c2
    None = None
    Labels <- TwoLabels
    Seeds <- OneSeed
    Clients <- TwoClients
    Policy = "Callback"
    CreateMode = "link"
    CachedMk = FALSE
    FailIn = {"start", "rotate", "mark", "commit", "repair", "refresh"}
    LateFailIn = {"start", "rotate", "commit", "repair", "refresh"}
    TornClean = TRUE
    MaxMk = 2
    MaxFaults = 2
INVARIANT NoSecretLost
PROPERTY ImplementsDirectory
INVARIANT MixedStoreFailsClosed
