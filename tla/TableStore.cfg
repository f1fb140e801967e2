CONSTANTS
    k1 = k1
    k2 = k2
    Keys = {k1, k2}
    Handles = {h1, h2}
    Threads = {t1, t2}
    MaxTables = 3
    Capacity <- Capacities
    HashOf <- Hashes
    CHUNK = 1
    NUM_SHARDS = 1
    FrozenIsMiss = FALSE
    NULL = NULL
    Unborn = Unborn
SPECIFICATION SettledSpec
SYMMETRY Symmetry
CHECK_DEADLOCK FALSE
INVARIANTS
    SInv
    NoUseAfterFree
    TablesSafe
    RefcountExact
    NothingLeaked
PROPERTY ImplementsObjectStore
