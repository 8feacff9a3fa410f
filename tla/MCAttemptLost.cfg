CONSTANTS
    MaxBase = 1
    MaxFaults = 0
    MaxOthers = 0
    MaxCrashes = 1
    Scenes <- MCScenes
SPECIFICATION AttemptSpec
INVARIANT CommittedWorkPushed
CHECK_DEADLOCK FALSE
