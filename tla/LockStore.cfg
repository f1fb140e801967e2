CONSTANTS
    k1 = k1
    k2 = k2
    k3 = k3
    l1 = l1
    l2 = l2
    Keys = {k1, k2, k3}
    Handles = {h1, h2, h3}
    Refs = {r1, r2}
    Threads = {t1, t2}
    Locks = {l1, l2}
    LockOf <- Groups
    NULL = NULL
    Unborn = Unborn
SPECIFICATION FairSpec
INVARIANTS
    IInv
    RefcountExact
    NoUseAfterFree
PROPERTIES
    ImplementsObjectStore
    WaitsForOthersOnly
