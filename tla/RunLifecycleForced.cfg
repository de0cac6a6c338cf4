CONSTANTS
    a = a
    b = b
    c = c
    w1 = w1
    w2 = w2
    Nobody = Nobody
    Runs <- TwoRuns
    Workers <- TwoWorkers
    Home <- Apart
    Mode <- AllBackground
    Cancels <- ByRun
    FileDuckDB = FALSE
    LongRuns = FALSE
    MaxAttempts = 1
    MaxRequests = 1
SPECIFICATION Spec
INVARIANTS
    OneDbtAtATime
