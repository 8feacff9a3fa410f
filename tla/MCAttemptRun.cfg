CONSTANTS
    MaxBase = 1
    MaxFaults = 1
    MaxOthers = 1
    MaxCrashes = 1
    Scenes <- MCScenes
SPECIFICATION AttemptSpec
INVARIANTS
    AttemptTypeOK
    HandoffHasNote
    ResultsTruthful
    EndIsSound
PROPERTIES
    OthersWorkKept
    ConflictPushChecked
CHECK_DEADLOCK FALSE
