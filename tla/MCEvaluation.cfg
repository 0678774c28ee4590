CONSTANTS
    Models = {"small", "large", "other"}
    Info <- MCInfo
    Configs <- MCConfigs
    Requests <- MCRequests
    Installed = {"small", "large"}
    Scenarios <- MCScenarios
    MaxOps = 2
    MaxJobs = 2
    Readers = {r1}
    None = None
SPECIFICATION FairSpec
INVARIANTS NothingIsHalfDone ScoresAreComparable
PROPERTIES CancelEndsJob
CHECK_DEADLOCK FALSE
