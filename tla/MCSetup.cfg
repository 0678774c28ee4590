CONSTANTS
    None = None
    Limit = 5
    Machines <- MCMachines
    OldConfigs <- MCOldConfigs
    PerGPU = 80
    Needs = {1, 40, 80, 81, 159, 200, 300}
    Loads = {0, 39, 40}
    Inputs <- MCInputs
SPECIFICATION SetupSpec
INVARIANTS PlacementIsHonoured SizesAreRight LaunchIsTheConfig FreeTextIsHeard SettingsSurvive RecommendationsAreTheirs
CHECK_DEADLOCK FALSE
