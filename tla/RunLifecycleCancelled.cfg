CONSTANTS
    a = a
    b = b
    c = c
    w1 = w1
    w2 = w2
    Nobody = Nobody
    Runs <- TwoRuns
    Workers <- OneWorker
    Home <- AllOnOne
    Mode <- Served
    Cancels <- AnyCancel
    FileDuckDB = FALSE
    LongRuns = FALSE
    MaxAttempts = 1
    MaxRequests = 1
SPECIFICATION FairSpec
INVARIANTS
    KilledStaysDown
    ServedRunsSettle
PROPERTIES
    
    PollingEnds
