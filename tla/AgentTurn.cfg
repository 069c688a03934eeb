CONSTANTS
    p1 = p1
    p2 = p2
    MaxIterations = 3
    MaxAttempts = 2
    MaxBatch = 3
    Paths <- MCPaths
    Batches <- MCBatches
    Histories <- MCHistories
    KeepRecent = 1
    Interactive = TRUE
SPECIFICATION FairSpec
CHECK_DEADLOCK FALSE
INVARIANTS TypeOK HistoryPaired WritesInCallOrder OneCallAfterCancel
PROPERTIES TurnEnds TurnIsABlock
