SPECIFICATION FairSpec
CONSTANTS
    Requests = {r1, r2, r3}
    Orders = {i1, i2}
    Composable = {i1}
    TestCapacity = 2
    MaxAttempts = 2
    NoOrder = NoOrder
INVARIANTS
    TypeOK
    NeverReplayed
    ReceiptTruthful
    OnlyCommittedRevealed
    RevealedIsAudited
PROPERTIES
    Answered
CHECK_DEADLOCK FALSE
