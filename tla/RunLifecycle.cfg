CONSTANTS
    a = a
    b = b
    c = c
    w1 = w1
    w2 = w2
    Nobody = Nobody
    Runs <- ThreeRuns
    Workers <- OneWorker
    Home <- AllOnOne
    Mode <- Mixed
    Cancels <- NoCancel
    FileDuckDB = TRUE
    LongRuns = TRUE
    MaxAttempts = 2
    MaxRequests = 1
SPECIFICATION Spec
INVARIANTS
    OneDbtAtATime
    
