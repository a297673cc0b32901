SPECIFICATION Spec
CONSTANTS
    Blocks <- MCBlocks
    Chains <- MCNoChains
    CompactFloor = 1
    NumReplicas = 3
    Policy = "RoundRobin"
    Alpha = 1
    Beta = 1
    MinMatchBlocks = 1
    BlockBudget = 2
    MaxInflight = 2
    MaxTicks = 3
INVARIANTS
    NoPhantomLoad
    BoundedBypass
