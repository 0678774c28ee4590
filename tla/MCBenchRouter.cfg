CONSTANTS
    Plans <- AllPlans
    Builds <- Builds12
    Models <- Models12
    UserBuild = "b1"
    Scenarios <- AllScenarios
    MaxEdits = 1
SPECIFICATION FairSpec
INVARIANTS CellsGetTheirServer MeasuresAServer RouterIsTheUsers
PROPERTIES RouterIsGivenBack
CHECK_DEADLOCK FALSE
