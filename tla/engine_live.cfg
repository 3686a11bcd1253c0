SPECIFICATION FairSpec
CONSTANTS
    Docs = {d1, d2}
    Clients = {c1, c2}
    TakeTurns = TRUE
    MaxParallelism = 1
    MaxBatch = 2
    MaxLeaves = 2
    MaxOps = 2
    MaxFaults = 1
    c1 = c1
    c2 = c2
    d1 = d1
    d2 = d2
PROPERTIES EverythingIsIndexed WaitsEnd
CHECK_DEADLOCK FALSE
