SPECIFICATION Spec
CONSTANTS
    w1 = w1
    w2 = w2
    t1 = t1
    t2 = t2
    Target = Target
    None = None
    Writers <- TwoWriters
    Tmps <- TwoTmps
    Cuts <- OneCut
    RecLen = 28
    MaxTries = 2
    MaxCalls = 3
    MaxFaults = 2
    Radix = 4
    SaltLen = 2
    NonceLen = 1
    CtWrapLen = 3
    DekLen = 2
    UsizeMax = 255
    Magic <- MagicBytes
    MaxKeyfileSize = 64
SYMMETRY Symmetry
INVARIANT SyncedWritesSurvive
INVARIANT ResultsAreTrue
INVARIANT TmpsAreAccountedFor
INVARIANT ThePathLoads
INVARIANT ParseInvertsBuild
PROPERTY CreateNeverReplaces
PROPERTY ImplementsAtomicFile
CHECK_DEADLOCK FALSE
