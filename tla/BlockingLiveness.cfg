SPECIFICATION FairSpec
CONSTANTS
    MaxBusiness = 2
    BlockingCapacity = 2
    EventCapacity = 4
    DrainCapacity = 2
    Budget = 1
    MaxEvents = 4
    MaxTime = 1
    MaxTurn = 5
    MaxReset = 2
    Prompt = TRUE
PROPERTIES
    CallersReturn
    ResetsApply
CHECK_DEADLOCK FALSE
