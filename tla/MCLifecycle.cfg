\* Stop plans, handoffs and priorities against the loop, with one crash.
CONSTANTS
    ReqIds = {r1, r2}
    Attempts = {a1, a2}
    Issues = {i1}
    MaxAfter = 2
    None = None
    Menu = {"stop", "stop_after", "resume", "handoff", "next_issue"}
    MaxExits = 1
    MaxErrors = 2
    IdleRecovery = TRUE
SYMMETRY Symmetry
SPECIFICATION LifeSpec
CHECK_DEADLOCK FALSE
INVARIANTS
    LifeTypeOK
    FinalizedWorkOnly
PROPERTIES
    StopsWait
