CONSTANTS
    Keys = {k1}
    Handles = {h1, h2}
    Refs = {r1}
    Threads = {t1, t2}
    Slots = {s1, s2}
    SCAN_THRESHOLD = 1
    NULL = NULL
    Unborn = Unborn
SPECIFICATION FairSpec
PROPERTIES
    PutReturns
    LifetimeEnds
    GetLockFree
