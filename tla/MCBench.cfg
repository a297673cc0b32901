SPECIFICATION BenchSpec
CONSTANTS
    Traces <- MCTraces
    MaxConversations = 3
    Concurrency = 2
    HashesOf <- MCHashesOf
    Blocks <- MCBlocks
    Chains <- MCChains
    CompactFloor = 1
    NumReplicas = 1
    Policy = "CacheAware"
    Alpha = 1
    Beta = 2
    MinMatchBlocks = 1
    BlockBudget = 2
    Capacity = 2
    MaxInflight = 2
    MaxFaults = 1
INVARIANTS
    BenchTypeOK
    ConcurrencyKept
    ReportAccounts
    BooksAgree
    PredictionsAddUp
    NoSpuriousRefusal
CHECK_DEADLOCK FALSE
PROPERTIES
    RunEnds
    DrainEnds
