SPECIFICATION HelpersSpec
CHECK_DEADLOCK FALSE
CONSTANTS
    GroupCount = 2
    BranchLimit = 2
    Sources = {1, 2}
    WaitProcesses = {1, 2}
    Priorities = {0, 1}
    CapabilityLimit = 4
    GroupGenerations = 4
    WaitClock = 2
    GroupCopies = 3
    Connections = {1}
    Transports = {1, 2, 3}
    AdmissionLimits <- FewOfEach
    ResponseOrders = {"InOrder", "ReadyOrder"}
    AdmissionGenerations = 9
    DraftLimit = 1
    ResponseTimes = {0, 1}
    Attempts = {1, 2}
    AbortLimit = 1
    MaxRetries = 1
    DrainCapacity = 1
    Kind = "Pipeline"
    Channels = 2
    Interval = 1
    ReservationCapacity = 2
    Durations = {2}
    ResourceOwners = {1}
    ResourceSegments = {1, 2}
    TicketGenerations = 2
    ResourceClock = 2
    LeaseCount = 1
    AccessCount = 2
    Addresses = {0, 1}
    AccessGenerations = 2
    InputLimit = 2
    ChangeLimit = 1
    BackingLimit = 2
    SequenceLimit = 2
    ManagedClock = 2
    TimerSegments = {1, 2}
    Periods = {0, 1}
    Deadline = 1
    PulseWidth = 1
    TokenLimit = 3
    EpochLimit = 1
    TimerClock = 2
INVARIANT CleanupKept
