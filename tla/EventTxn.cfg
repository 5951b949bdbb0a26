SPECIFICATION MCSpec
CONSTANTS
    t1 = t1
    t2 = t2
    p1 = p1
    p2 = p2
    Txns <- TwoTxns
    Participants <- TwoParticipants
    Cells = {1, 2}
    EpochIndependent = {2}
    Values = {1, 2}
    MaxVersion = 2
    MaxEpoch = 1
    WriteBudget = 2
    EventBudget = 1
    ActionBudget = 1
    ByteBudget = 2
    MaxSaves = 2
    NumSlots = 2
    MaxTime = 0
    MaxTurn = 1
    Ranks = {1}
    MaxGeneration = 2
    MaxSequence = 3
    MaxBatch = 3
    MaxWork = 0
SYMMETRY Symmetry
INVARIANTS
    NeverTerminates
    WritersSerialised
    ParticipantsSettledOnce
    SavepointsRestore
CHECK_DEADLOCK FALSE
