SPECIFICATION FairSpec
CONSTANTS
    MaxCalls = 3
    MaxSize = 4
    Capacity = 3
    Numbers = {1, 2, 3}
INVARIANTS
    AnswerIsOwn
    FileStaysOpen
PROPERTIES
    CallReturns
    HelperGoes
CHECK_DEADLOCK FALSE
