SPECIFICATION FairSpec
CONSTANTS
    Pages = {p1, p2}
    BulkLoads = {2}
    MaxTransactions = 4
    MaxCheckpoints = 3
    MaxCrashes = 3
    MaxFailures = 2
    RuntimeChecks = TRUE
    Faults = {"crash", "power", "ioUnlogged"}
    Absent = Absent
    Corrupt = Corrupt
    p1 = p1
    p2 = p2
INVARIANT CheckpointRecordMeansShadowPages
INVARIANT NothingFollowsTheStop
INVARIANT DataFileIsWhole
PROPERTY ImplementsDurableStore
PROPERTY ComesUp
