\* A recovery command accepted while the process starts.
CONSTANTS
    ReqIds = {r1}
    Attempts = {a1, a2}
    Issues = {i1}
    MaxAfter = 1
    None = None
    Menu = {"recovery_retry"}
    MaxExits = 1
    MaxErrors = 3
    IdleRecovery = FALSE
SPECIFICATION LifeSpec
CHECK_DEADLOCK FALSE
INVARIANTS
    NoAttemptLost
