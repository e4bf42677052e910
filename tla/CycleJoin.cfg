CONSTANTS
    Threads = {t1, t2}
    Keys = {1, 2}
    Payloads = {1, 2}
    FlatPaths = {2}
    Edges <- MCEdges
    DEFAULT_VECTOR_CAPACITY = 2
    numTuplesPerBlock = 2
    numLeftNodes = 3
    numRightNodes = 2
    Connected <- MCConnected
    Ids = {1, 2, 3}
    Capacity = 2
    EnableDynamicOrder = TRUE
    MaxTuples = 2
    BuiltNode = 1
    Neighbours <- MCNeighbours
SYMMETRY ThreadSymmetry
SPECIFICATION Spec
INVARIANTS
    TypeOK
    TableHoldsLists
    OnlyMatches
    AllMatches
CHECK_DEADLOCK FALSE
