SPECIFICATION FairSpec
CONSTANTS
    Clients = {c1, c2}
    IDs = {i1, i2}
    None = None
INVARIANTS
    ConnectionExclusive
    AppliedOnce
PROPERTIES
    ImplementsOrderStore
    CallsReturn
