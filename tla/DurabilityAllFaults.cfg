SPECIFICATION Spec
CONSTANTS
    Pages = {p1, p2}
    BulkLoads = {2}
    MaxTransactions = 3
    MaxCheckpoints = 2
    MaxCrashes = 3
    MaxFailures = 2
    RuntimeChecks = FALSE
    Faults = {"crash", "power", "ioUnlogged", "crashWhileRemoving", "powerAfterReplay", "ioLogged", "ioCommit"}
    Absent = Absent
    Corrupt = Corrupt
    p1 = p1
    p2 = p2
SYMMETRY Symmetry
INVARIANT CompletedCheckpointHeals
