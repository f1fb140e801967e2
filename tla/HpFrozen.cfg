CONSTANTS
    k1 = k1
    k2 = k2
    Keys = {k1}
    Handles = {h1, h2, h3}
    Threads = {t1, t2}
    MaxTables = 2
    Capacity <- Capacities
    HashOf <- Hashes
    CHUNK = 1
    NUM_SHARDS = 1
    FrozenIsMiss = FALSE
    NULL = NULL
    Unborn = Unborn
SPECIFICATION SSpec
INVARIANT NoUseAfterFree
