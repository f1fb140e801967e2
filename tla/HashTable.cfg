CONSTANTS
    k1 = k1
    k2 = k2
    Keys = {k1, k2}
    Handles = {h1, h2, h3}
    Threads = {t1, t2}
    MaxTables = 3
    Capacity <- Capacities
    HashOf <- Hashes
    CHUNK = 1
    NUM_SHARDS = 4
    FrozenIsMiss = FALSE
    NULL = NULL
SPECIFICATION FairSpec
INVARIANTS
    IInv
    OneNodePerKey
    MigrationExact
    CountsNodes
PROPERTIES
    PutsLand
    GetsFresh
    CallsReturn
