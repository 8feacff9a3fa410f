\* Every command over four request ids and three attempts, stop --after 1 and 2.
CONSTANTS
    ReqIds = {r1, r2, r3, r4}
    Attempts = {a1, a2, a3}
    Issues = {i1, i2}
    MaxAfter = 2
    None = None
SYMMETRY Symmetry
SPECIFICATION StoreSpec
CHECK_DEADLOCK FALSE
INVARIANTS
    TypeOK
    OneStopPlan
    IntakeExplained
    CountdownExact
    PriorityTracked
    HandoffTracked
PROPERTIES
    AcksAreFinal
    BegunHandoffKept
    OnlyOperatorReopens
