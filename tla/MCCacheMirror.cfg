SPECIFICATION MirrorSpec
CONSTANTS
    BlockSize = 2
    HashWidth = 12
    Blocks <- MCBlocks
    Chains <- MCChains
    CompactFloor = 1
    NumReplicas = 1
    Policy = "CacheAware"
    Alpha = 1
    Beta = 1
    MinMatchBlocks = 1
    BlockBudget = 2
    Capacity = 2
    MaxInflight = 2
    MaxTicks = 4
    MaxFaults = 1
INVARIANTS
    PictureHonest
    PictureComplete
    PromisesKept
