SPECIFICATION FairSpec
CONSTANTS
    i1 = i1
    i2 = i2
    None = None
    Instances <- TwoInstances
    Environments <- Uses
    BestEffort = TRUE
    MaxDraws = 6
    MaxStops = 3
    MaxLosses = 2
CHECK_DEADLOCK FALSE
INVARIANT TypeOK
INVARIANT KeysMatchStore
PROPERTY IdentityKept
PROPERTY StartsInTheEnd
