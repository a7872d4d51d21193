SPECIFICATION FairSpec
CONSTANTS
    NumRequests = 3
    Quantities <- MCQuantities
    InitialStock = 3
    UnitPriceCents = 5
    MaximumCents = 10
    MaxInt = 31
    PoolSize = 1
    StoreFaults = FALSE
    MaxRestarts = 0
INVARIANTS
    PricedExactly
PROPERTIES
    RequestsAnswered
CHECK_DEADLOCK FALSE
