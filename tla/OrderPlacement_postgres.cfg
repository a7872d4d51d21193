SPECIFICATION Spec
CONSTANTS
    NumRequests = 3
    Quantities <- MCFewQuantities
    InitialStock = 3
    UnitPriceCents = 5
    MaximumCents = 10
    MaxInt = 31
    PoolSize = 2
    StoreFaults = TRUE
    MaxRestarts = 1
INVARIANTS
    TypeOK
    StockAccounted
    CommitNeverCollides
    OrdersPaid
    ReplyAgreesWithStore
CHECK_DEADLOCK FALSE
