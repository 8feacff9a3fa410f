CONSTANTS
    MaxBase = 1
    MaxFaults = 1
    MaxOthers = 0
    MaxCrashes = 0
    Scenes <- MCScenes
SPECIFICATION AttemptSpec
INVARIANT OnlyVerifiedConflictPush
CHECK_DEADLOCK FALSE
