CONSTANTS
    Clients = {c1, c2}
    None = None
    EnableMultiWrites = FALSE
    MaxStatements = 3
SPECIFICATION FairSpec
INVARIANTS
    TypeOK
    CheckpointRunsAlone
    NoDanglingTransaction
    NoLeakedTransaction
    AutoStatementsCloseTheirTransaction
    SnapshotIsStable
    SingleWriter
PROPERTIES
    StatementsEnd
