\* Recovery commands and error resets on retained attempts, with one crash.
CONSTANTS
    ReqIds = {r1, r2}
    Attempts = {a1, a2}
    Issues = {i1}
    MaxAfter = 1
    None = None
    Menu = {"stop", "handoff", "recovery_retry", "recovery_release", "errors_reset"}
    MaxExits = 1
    MaxErrors = 2
    IdleRecovery = TRUE
SYMMETRY Symmetry
SPECIFICATION LifeSpec
CHECK_DEADLOCK FALSE
INVARIANTS
    NoAttemptLost
    RecoveryTruthful
    ErrorsCountedOnce
PROPERTIES
    ImplementsAttemptLife
