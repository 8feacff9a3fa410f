\* Every stop and handoff settles; the first error halts.
CONSTANTS
    ReqIds = {r1, r2}
    Attempts = {a1}
    Issues = {i1}
    MaxAfter = 1
    None = None
    Menu = {"stop", "resume", "handoff", "errors_reset"}
    MaxExits = 1
    MaxErrors = 1
    IdleRecovery = TRUE
SPECIFICATION FairLifeSpec
CHECK_DEADLOCK FALSE
PROPERTIES
    StopsSettle
