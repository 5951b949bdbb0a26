SPECIFICATION StructuredSpec
CONSTANTS
    x1 = x1
    x2 = x2
    s1 = s1
    s2 = s2
    NumScopes = 3
    Things <- TwoThings
    EntryLimit = 2
    ActionLimit = 3
    ObserverLimit = 1
    MaxGeneration = 5
    MaxSequence = 3
    MaxViews = 1
    Pools = {1, 2}
    TaskScopes <- TwoScopes
    MaxInstances = 1
    TaskCapacity = 3
    ResultCapacity = 2
    QueueDepth = 2
    WaiterLimit = 2
    ResultSlots = 3
    PoolEntryLimit = 4
    MaxHandles = 3
SYMMETRY StructuredSymmetry
INVARIANTS
    OwnedOnce
    PlansComplete
    CountersExact
    OwnedWhileLive
    NoClosedKnot
CHECK_DEADLOCK FALSE
