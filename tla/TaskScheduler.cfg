CONSTANTS
    None = None
    join = join
    build = build
    gds = gds
    frontier = frontier
    Workers = {w1, w2}
    Tasks <- BothTasks
    Roots = {join, gds}
    Children <- BothChildren
    Nested <- BothNested
    MaxThreads <- BothThreads
    MayTerminate = {build}
SPECIFICATION FairSpec
INVARIANTS
    TypeOK
    NoThreadWorksAfterReturn
    FinalizedOnceByLast
    ReturnMeansSuccess
    DependenciesComplete
    OnlySuccessfulTasksLinger
PROPERTIES
    QueriesEnd
