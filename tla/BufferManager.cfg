CONSTANTS
    None = None
    Threads = {t1, t2}
    Pages = {p1, p2}
    Written = {p1, p2}
    PoolSize = 1
    BatchSize = 1
    AllocSizes = {1}
    Checkpoints = TRUE
    Races = {}
    MaxOps = 4
    Retries = 0
SPECIFICATION Spec
SYMMETRY Symmetry
CHECK_DEADLOCK FALSE
INVARIANTS
    FramesAreExclusive
    NoLostWrite
    MemoryIsBounded
PROPERTIES
    ReadsAreConsistent
