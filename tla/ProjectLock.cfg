CONSTANTS
    Callers = {a, b, c}
    Nobody = Nobody
    LockTTL = 3
    RenewInterval = 1
    MaxLag = 1
    Timeout = 2
    RedisFaults = TRUE
SPECIFICATION FairSpec
INVARIANTS
    SoundHoldersExclude
PROPERTIES
    PromiseSpec
    LockComesFree
