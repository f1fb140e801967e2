CONSTANTS
    k1 = k1
    k2 = k2
    Keys = {k1, k2}
    Handles = {h1, h2, h3}
    Threads = {t1, t2}
    MaxTables = 3
    Capacity <- Capacities
    HashOf <- Hashes
    CHUNK = 1
    NUM_SHARDS = 1
    FrozenIsMiss = TRUE
    NULL = NULL
SPECIFICATION TSpec
PROPERTY StableKeyFound
