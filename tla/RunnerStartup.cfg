CONSTANTS
    Workers = {w1, w2, w3}
    Runs = {r1, r2}
    Nobody = Nobody
    DatabaseFaults = TRUE
    Processes = {p1, p2, p3}
    NoProcess = NoProcess
    MaxOutages = 1
SPECIFICATION MCSpec
INVARIANTS
    OneReconciler
    MarkerMeansReconciled
    OneScheduler
PROPERTIES
    TicksGoOn
CHECK_DEADLOCK FALSE
