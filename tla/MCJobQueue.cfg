CONSTANTS
    h1 = h1
    h2 = h2
    Jobs = {1, 2}
    Handlers = {h1, h2}
    NCells = 2
    KLCells = {2}
    Matrices <- AllMatrices
    Scenarios <- AllScenarios
    MaxRuns = 3
    MaxArrays = 2
    MaxCrashes = 1
SPECIFICATION FairSpec
INVARIANTS OneJobAtATime RunsAreTheirs
PROPERTIES CompletedIsKept JobEnds
CHECK_DEADLOCK FALSE
