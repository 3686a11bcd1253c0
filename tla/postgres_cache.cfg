SPECIFICATION PgSpec
CONSTANTS
    NoLimit = NoLimit
    MaxHeightDiff = 2
    MinCompleteness = 0
    VerbatimChars = 0
    ChunkLens = {1}
    MaxChunks = 3
    Times = {0}
    InOrder = FALSE
    MaxLeaves = 6
CHECK_DEADLOCK FALSE
INVARIANT FollowersExist
