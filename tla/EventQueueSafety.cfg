SPECIFICATION Spec
CONSTANTS
    NumSlots = 2
    MaxTime = 1
    MaxTurn = 1
    Ranks = {1, 2}
    MaxGeneration = 2
    MaxSequence = 5
    MaxBatch = 4
    MaxWork = 1
INVARIANTS
    ClosedBatch
PROPERTIES
    GenerationNamesEvent
    NothingDropped
