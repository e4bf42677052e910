SPECIFICATION Spec
CONSTANTS
    Pages = {p1, p2}
    BulkLoads = {2}
    MaxTransactions = 3
    MaxCheckpoints = 2
    MaxCrashes = 2
    MaxFailures = 1
    RuntimeChecks = TRUE
    Faults = {"crash", "power", "ioUnlogged", "crashWhileRemoving"}
    Absent = Absent
    Corrupt = Corrupt
    p1 = p1
    p2 = p2
SYMMETRY Symmetry
INVARIANT CheckpointRecordMeansShadowPages
