CONSTANTS
    h1 = h1
    h2 = h2
    r1 = r1
    q1 = q1
    HttpTokens <- MCHttp
    RunTokens <- MCRun
    QueryTokens <- MCQuery
    MaxRuns = 2
    MaxQueries = 1
    LeaseTTL = 3
    RenewInterval = 1
    MaxLag = 1
    MaxWait = 1
    RedisFaults = TRUE
SPECIFICATION FairSpec
INVARIANTS
    PoolsWithinLimit
    EnginesWithinBudget
PROPERTIES
    PoolsSpec
    SlotsComeBack
