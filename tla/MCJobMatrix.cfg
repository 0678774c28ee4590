CONSTANTS
    Requests <- AllRequests
    PresetSource <- Source
    Saved <- SavedSizes
    MaxJobCells = 7
    NumGPUs = 1
    MaxEdits = 2
SPECIFICATION MatrixSpec
INVARIANTS CompletedIsAsLabelled MatrixIsSound
PROPERTIES CompletedSurvives
CHECK_DEADLOCK FALSE
