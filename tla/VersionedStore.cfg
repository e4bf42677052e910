SPECIFICATION Spec

CONSTANTS
    VectorCapacity = 2
    NodeGroupSize = 4
    START_TRANSACTION_ID = 10
    INVALID_TRANSACTION = 100
    NoValue = NoValue
    Clients = {c1, c2}
    Names = {n1, n2}
    RowValues = {v1, v2}
    TableValues = {e1, e2}
    InitialRows = {0, 3}
    BatchSizes = {1, 4}
    MaxSize = 5
    MaxTransactions = 3
    MaxRecords <- MCMaxRecords
    MaxLocalRows = 2
    Unsound = {}

INVARIANTS
    TypeOK
    NoTracesLeft
    IndexedRowsAreFound
    AppendedRowsReadBack

PROPERTIES
    ImplementsSnapshotStore

SYMMETRY Symmetry

CHECK_DEADLOCK FALSE
