SPECIFICATION FairSpec
CONSTANTS
    k1 = k1
    c1 = c1
    c2 = c2
    None = None
    Keys <- OneKey
    Callers <- TwoCallers
    Ttls = {1, 2}
    MaxTime = 2
    MaxVersion = 2
INVARIANT EntryPlanned
INVARIANT WakesInTime
INVARIANT TakenIsGone
PROPERTY OnlyExpiredDropped
PROPERTY Scrubbed
PROPERTY DropReturns
