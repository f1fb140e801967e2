CONSTANTS
    Threads = {t1, t2, t3}
    Scanners = {u1}
    ChunkSize = 2
    MaxChunks = 2
SPECIFICATION Spec
SYMMETRY Symmetry
CHECK_DEADLOCK FALSE
INVARIANT GarbageAdoptable
