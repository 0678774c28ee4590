CONSTANTS
    Callers = {c1, c2}
    MaxProcs = 2
    Scenarios <- AllScenarios
SPECIFICATION FairSpec
INVARIANTS StopSawExit StartingIsWatched OrderlyUseIsSound
PROPERTIES RouterSettles
CHECK_DEADLOCK FALSE
