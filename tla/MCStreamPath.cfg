SPECIFICATION PathSpec
CONSTANTS
    Requests = {}
    Streams = {"s1"}
    Blocks <- MCBlocks
    Chains <- MCOnePrompt
    CompactFloor = 1
    NumReplicas = 1
    Policy = "RoundRobin"
    Alpha = 1
    Beta = 1
    MinMatchBlocks = 1
    BlockBudget = 2
    MaxInflight = 1
    UpstreamCodes = {"Ok", "DeadlineExceeded", "Cancelled"}
    MaxFaults = 0
    MayCancel = TRUE
    MaxMessages = 2
    MaxChunks = 2
    ChannelSize = 1
INVARIANTS
    RelayTypeOK
    RelayLoadAccounted
    RelayInOrder
    AnswersWhole
PROPERTIES
    ImplementsRelay
    AbandonedTasksEnd
    StreamEnds
