CONSTANTS
    Threads = {t1}
    Keys = {1}
    Payloads = {1, 2}
    FlatPaths = {}
    Edges <- MCParallelEdges
    DEFAULT_VECTOR_CAPACITY = 3
    numTuplesPerBlock = 2
    numLeftNodes = 3
    numRightNodes = 2
    Connected <- MCConnected
    Ids = {1}
    Capacity = 3
    EnableDynamicOrder = TRUE
    MaxTuples = 1
    BuiltNode = 1
    Neighbours <- MCParallelNeighbours
SPECIFICATION Spec
INVARIANTS
    OutputsProduct
CHECK_DEADLOCK FALSE
