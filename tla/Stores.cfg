SPECIFICATION StoresSpec
CHECK_DEADLOCK FALSE
CONSTANTS
    ResultSlotCount = 2
    ConsumerCount = 2
    PinLimit = 1
    ResultSegments = {1}
    StagedLimit = 2
    ResultGenerations = 2
    ConsumerGenerations = 2
    ViewHops = {1}
    BitsPerByte = 1
    Requests <- TwoRequests
    Registers <- OneRegister
    MemorySize = 2
    PayloadSegments = {1, 2}
    WriteBudget = 4
    FrameLimit = 2
    WaitLimit = 1
    ProcessContexts <- TwoContexts
    ProcessGenerations = 4
    ProcessClock = 1
    CopyLimit = 2
    QueueCapacity = 2
    QueueScopes = {"a"}
    QueueSegments = {1, 2}
    RightCapacity = 3
    DrainCap = 1
    RightLimit = 4
    EntryLimit = 2
    AddressTop = 3
    AddressMaps <- FewMaps
    Upstreams = {1, 2}
    Downstreams = {"memory"}
    MaxRoutes = 1
    MaxGrants = 3
    Fanouts = {1, 2}
    PermissionSets = {{"Read"}, {"Read", "Write"}}
    Lengths = {0, 1, 2}
    RouteLimit = 1
    ReferenceLimit = 2
    GrantLimit = 2
INVARIANTS ResultsExact  TargetsExact ProcessesExact QueueOwns CrossbarExact
