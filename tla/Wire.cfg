SPECIFICATION WireSpec
CHECK_DEADLOCK FALSE
CONSTANTS
    Transactions = {1, 2, 3}
    Hops = {1, 2}
    Instances = {1}
    Owner <- OneOwner
    Capacity = 2
    HopLimit = 1
    MaxEpoch = 1
    MaxReceipt = 2
    MaxReset = 2
    MaxViews = 2
    Pins = {TRUE, FALSE}
    SetFlags <- SomeFlags
    h1 = h1
    h2 = h2
    h3 = h3
    WireHops <- ThreeHops
    Connections = {1}
    Transports = {1, 2}
    Segments = {1, 2}
    LedgerLimit = 2
    TicketLimit = 2
    HistoryLimit = 4
    MaxTime = 1
    Extensions <- Probe
    Ignorable = {"TRACE"}
SYMMETRY HopSymmetry
INVARIANTS EpochBarrier CohortExact  TicketsKeepLedgers LanesExact MilestonesTellState
