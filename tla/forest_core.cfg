SPECIFICATION Spec
CONSTANTS
    NoLimit = NoLimit
    MaxHeightDiff = 2
    MinCompleteness = 0
    VerbatimChars = 0
    ChunkLens = {2}
    MaxChunks = 3
    Times = {1, 2}
    InOrder = TRUE
    MaxLeaves = 6
    DamageSize = 7
    Clock = {0, 1, 2, 3}
INVARIANTS TypeOK LeavesTile ParentsMatchChildren NeighborsMatchCoordinates RootsTile NoCoordinateClash JobsNotStale BackendsAgree ValidatorsAgree UpkeepIsSound QueriesAgree
PROPERTIES LeavesAreStable KeepsShape
CHECK_DEADLOCK FALSE
