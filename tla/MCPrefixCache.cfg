SPECIFICATION Spec
CONSTANTS
    Blocks <- MCBlocks
    Chains <- MCChains
    CompactFloor = 2
    MaxClock = 5
    Budgets = {0, 1, 2, 3}
INVARIANTS
    TypeOK
    NoOrphans
    Inv
    EvictionExact
    ClosedFormsAreTheLoops
PROPERTY ImplementsRadixLru
