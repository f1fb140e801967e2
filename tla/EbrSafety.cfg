CONSTANTS
    Keys = {k1}
    Handles = {h1, h2, h3}
    Refs = {r1}
    Threads = {t1, t2}
    Slots = {s1, s2}
    RETIRE_BATCH = 1
    MaxEpoch = 3
    INACTIVE = INACTIVE
    NULL = NULL
    Unborn = Unborn
SPECIFICATION GraceSpec
SYMMETRY Symmetry
CHECK_DEADLOCK FALSE
INVARIANTS
    IInv
    NoUseAfterFree
    EpochLag
    RefcountExact
    ListSorted
    NothingLeaked
PROPERTIES
    ImplementsObjectStore
    ImplementsGracePeriod
