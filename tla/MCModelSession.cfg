CONSTANTS
    t1 = t1
    t2 = t2
    Tasks = {t1, t2}
    MaxRequests = 2
    Scenes <- MCScenes
SPECIFICATION SessionSpec
INVARIANTS
    SessionTypeOK
    InstructionSurvives
    OneRequestServed
    CleanSuccess
PROPERTIES
    PromptsBounded
    RequestAnswered
