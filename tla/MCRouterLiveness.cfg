SPECIFICATION FairSpec
CONSTANTS
    q1 = q1
    q2 = q2
    Requests = {q1}
    Blocks <- MCBlocks
    Chains <- MCOnePrompt
    CompactFloor = 1
    NumReplicas = 2
    Policy = "RoundRobin"
    Alpha = 1
    Beta = 1
    MinMatchBlocks = 1
    BlockBudget = 2
    MaxInflight = 1
    UpstreamCodes = {"Ok", "DeadlineExceeded", "Cancelled"}
    MaxFaults = 3
    MayCancel = TRUE
PROPERTIES
    EveryRequestAnswered
    DeadReplicaLeaves
    LiveReplicaReturns
    HealthGaugeSettles
