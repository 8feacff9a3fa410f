\* Two workers, with one login or two, on one issue.
CONSTANTS
    Workers = {w1, w2}
    Issues = {i1}
    Pools = {"shared", "peers"}
    MaxCont = 1
    MaxConflict = 2
    MaxAttempts = 3
    MaxCrashes = 1
    MaxHuman = 1
    None = None
SYMMETRY Symmetry
SPECIFICATION ClaimSpec
CHECK_DEADLOCK FALSE
INVARIANTS
    ClaimTypeOK
    OneWorkerPerIssue
    NothingLeftBehind
    ContinuationBudget
    ConflictBudget
