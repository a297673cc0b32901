SPECIFICATION Spec
CONSTANTS
    q1 = q1
    q2 = q2
    Requests = {q1, q2}
    Blocks <- MCBlocks
    Chains <- MCOnePrompt
    CompactFloor = 1
    NumReplicas = 2
    Policy = "RoundRobin"
    Alpha = 1
    Beta = 1
    MinMatchBlocks = 1
    BlockBudget = 2
    MaxInflight = 1
    UpstreamCodes = {"Ok", "DeadlineExceeded", "Cancelled"}
    MaxFaults = 0
    MayCancel = FALSE
INVARIANT RetriesElsewhere
