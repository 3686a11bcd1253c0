SPECIFICATION PartsSpec
CONSTANTS
    Docs = {d1}
    Clients = {c1}
    TakeTurns = TRUE
    MaxParallelism = 2
    MaxBatch = 2
    MaxLeaves = 2
    MaxOps = 3
    MaxFaults = 1
    c1 = c1
    d1 = d1
    Reported = {p1, p2}
    p1 = p1
    p2 = p2
    Directory <- MCDirectory
    NoMetadata = NoMetadata
    MaxRuns = 2
    MaxNodes = 3
    MaxUpsets = 2
INVARIANTS JobsAreRightlyClaimed NothingDangles IdleMeansIndexed ExportShowsTheWork
CHECK_DEADLOCK FALSE
