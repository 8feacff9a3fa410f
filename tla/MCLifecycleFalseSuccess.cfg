\* A crash between the push decision and the result comment.
CONSTANTS
    ReqIds = {r1}
    Attempts = {a1}
    Issues = {i1}
    MaxAfter = 1
    None = None
    Menu = {}
    MaxExits = 1
    MaxErrors = 2
    IdleRecovery = TRUE
SPECIFICATION LifeSpec
CHECK_DEADLOCK FALSE
INVARIANTS
    OnlyVerifiedSuccess
