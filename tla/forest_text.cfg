SPECIFICATION Spec
CONSTANTS
    NoLimit = NoLimit
    MaxHeightDiff = 2
    MinCompleteness = 0
    VerbatimChars = 0
    ChunkLens = {1, 2}
    MaxChunks = 2
    Times = {1, 2}
    InOrder = FALSE
    MaxLeaves = 4
    DamageSize = 4
    Clock = {0, 1, 2, 3}
INVARIANTS TimeWindowsAreExact DocumentsAreApart
PROPERTIES ShowsClientText
CHECK_DEADLOCK FALSE
