SPECIFICATION FairSpec
CONSTANTS
    NumRequests = 2
    Quantities <- MCQuantities
    InitialStock = 3
    UnitPriceCents = 5
    MaximumCents = 10
    MaxInt = 31
    PoolSize = 1
    StoreFaults = FALSE
    MaxRestarts = 0
INVARIANT PaymentCompensated
CHECK_DEADLOCK FALSE
