CONSTANTS
    Subagents = {"task"}
    MaxTokens = 10
    ShareThreshold = 7
    ReserveTurns = 1
    MainBase = 1
    SubagentBase = 1
    Output = 1
    Growth = 1
    Usages <- MCUsages
    MaxResponses = 2
    MaxInputs = 1
SPECIFICATION LedgerSpec
INVARIANTS
    LedgerTypeOK
    ReportsMergedOnce
    LimitsWatch
    EntriesMatchSettled
    ModeTruthful
PROPERTIES
    ReserveKept
