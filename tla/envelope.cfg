SPECIFICATION Spec
CONSTANTS
    Printable <- PrintableBytes
    Slash = 1
    Nul = 0
    Version <- VersionSegment
    MaxContextLen = 9
    Segments <- Tried
    Bindings <- Confusable
    MaxBuilt = 3
    Users = {1, 2}
    KeyPath <- OwnPaths
    Infos <- TwoInfos
    Aads <- TwoAads
    Paths <- ThreePaths
    MaxSeals = 2
    Radix = 4
    XLen = 1
    KLen = 2
    SeedLen = 3
    KemCtLen = 2
    SigLens <- TwoLens
    FrameNonce = 1
    TagLen = 2
    HexBase = 2
    MaxBuffer = 8
INVARIANTS
    BindingIsUnique
    OpensExactlyAsSealed
    BothSignaturesNeeded
    OneEncodingPerValue
CHECK_DEADLOCK FALSE
