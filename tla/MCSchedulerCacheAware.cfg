SPECIFICATION Spec
CONSTANTS
    Blocks <- MCBlocks
    Chains <- MCChains
    CompactFloor = 1
    NumReplicas = 2
    Policy = "CacheAware"
    Alpha = 1
    Beta = 2
    MinMatchBlocks = 1
    BlockBudget = 2
    MaxInflight = 2
    MaxTicks = 3
INVARIANTS
    PickIsTotal
    WithinBudget
    HeapBounded
PROPERTY BoundedSkew
