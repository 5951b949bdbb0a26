SPECIFICATION Spec
CONSTANTS
    MaxBusiness = 2
    BlockingCapacity = 2
    EventCapacity = 4
    DrainCapacity = 2
    Budget = 1
    MaxEvents = 4
    MaxTime = 2
    MaxTurn = 5
    MaxReset = 1
    Prompt = FALSE
INVARIANT StoppedMeansAnswered
CHECK_DEADLOCK FALSE
