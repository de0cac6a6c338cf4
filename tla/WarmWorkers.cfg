CONSTANTS
    j1 = j1
    j2 = j2
    j3 = j3
    x = x
    y = y
    Jobs <- ThreeJobs
    Projects <- TwoProjects
    Project <- LastApart
    Capacity = 2
    MaxProjects = 1
    Releases = TRUE
    StartFaults = TRUE
SPECIFICATION FairSpec
INVARIANTS
    PoolsExact
PROPERTIES
    SweepSparesJobs
    CallsReturn
