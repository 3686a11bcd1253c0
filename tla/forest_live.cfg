SPECIFICATION FairSpec
CONSTANTS
    NoLimit = NoLimit
    MaxHeightDiff = 1
    MinCompleteness = 100
    VerbatimChars = 0
    ChunkLens = {1}
    MaxChunks = 3
    Times = {0}
    InOrder = TRUE
    MaxLeaves = 7
    DamageSize = 7
    Clock = {0, 1, 2, 3}
PROPERTIES Converges
CHECK_DEADLOCK FALSE
