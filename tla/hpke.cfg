SPECIFICATION SessionFairSpec
CONSTANTS
    s1 = s1
    s2 = s2
    NoInfo = NoInfo
    Damaged = Damaged
    Sessions <- TwoSessions
    Infos = {"i", "j"}
    Aads = {"a", "b"}
    MaxSeq = 3
    SeqNonce <- XorNonce
CHECK_DEADLOCK FALSE
INVARIANT DeliveredPrefix
INVARIANT NonceOnce
PROPERTY StrayIsFinal
PROPERTY AllOpened
