SPECIFICATION Spec
CONSTANTS
    MaxBusiness = 3
    BlockingCapacity = 2
    EventCapacity = 2
    DrainCapacity = 2
    Budget = 1
    MaxEvents = 4
    MaxTime = 1
    MaxTurn = 5
    MaxReset = 3
    Prompt = FALSE
INVARIANTS
    AnswersExact
    DrainsAgree
    
PROPERTY StartsAreCurrent
CHECK_DEADLOCK FALSE
