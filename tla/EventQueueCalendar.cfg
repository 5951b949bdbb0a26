SPECIFICATION FairSpec
CONSTANTS
    NumSlots = 2
    MaxTime = 1
    MaxTurn = 1
    Ranks = {1}
    MaxGeneration = 2
    MaxSequence = 4
    MaxBatch = 6
    MaxWork = 1
PROPERTIES
    
    ImplementsCalendar
