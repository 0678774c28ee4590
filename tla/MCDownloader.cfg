CONSTANTS
    Callers = {c1, c2}
    NFiles = 2
    NChunks = 2
    Replies = {"206", "200range", "200"}
    Scenarios <- AllScenarios
    MaxTasks = 2
    MaxCrashes = 1
SPECIFICATION FairSpec
INVARIANTS ListedUnlessEarly FilesAreSound
PROPERTIES CancelIsObeyed
CHECK_DEADLOCK FALSE
