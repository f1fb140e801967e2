CONSTANTS
    Keys = {k1, k2}
    Handles = {h1, h2, h3}
    Refs = {r1, r2}
    Threads = {t1, t2}
    Slots = {s1, s2}
    SCAN_THRESHOLD = 2
    NULL = NULL
    Unborn = Unborn
SPECIFICATION Spec
SYMMETRY Symmetry
INVARIANTS
    IInv
    NoUseAfterFree
    RefcountExact
    HazardSeen
    BoundedGarbage
    NothingLeaked
PROPERTY ImplementsObjectStore
