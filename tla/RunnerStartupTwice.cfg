CONSTANTS
    Workers = {w1, w2}
    Runs = {r1}
    Nobody = Nobody
    DatabaseFaults = FALSE
    Processes = {p1}
    NoProcess = NoProcess
    MaxOutages = 0
SPECIFICATION MCSpec
SYMMETRY Symmetry
INVARIANTS
    LiveRunsSurvive
CHECK_DEADLOCK FALSE
