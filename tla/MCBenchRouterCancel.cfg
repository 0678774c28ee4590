CONSTANTS
    Plans <- AllPlans
    Builds <- Builds12
    Models <- Models12
    UserBuild = "b1"
    Scenarios <- CancelScenario
    MaxEdits = 1
SPECIFICATION Spec
INVARIANT IdleIsUsers
CHECK_DEADLOCK FALSE
