SPECIFICATION GrowthSpec
CONSTANTS
    h1 = h1
    h2 = h2
    h3 = h3
    Zero = Zero
    None = None
    Handles <- ThreeHandles
    Lens = {0, 1, 16, 17}
    Size = 64
SYMMETRY Symmetry
CHECK_DEADLOCK FALSE
INVARIANT Tiled
INVARIANT OwnBytes
INVARIANT NoResidue
INVARIANT GrowthWasNeeded
