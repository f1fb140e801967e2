CONSTANTS
    Keys = {k1}
    Handles = {h1, h2}
    Refs = {r1}
    Threads = {t1, t2}
    Slots = {s1, s2}
    RETIRE_BATCH = 1
    MaxEpoch = 1
    INACTIVE = INACTIVE
    NULL = NULL
    Unborn = Unborn
SPECIFICATION FairSpec
PROPERTY CallsReturn
