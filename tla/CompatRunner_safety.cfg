SPECIFICATION Spec
CONSTANTS
    MaxVersion = 2
    source = source
    vendor = vendor
    old = old
    new = new
    Paths = {source, vendor}
    Vendored = {vendor}
    Digests = {old, new}
    Committed <- MCCommitted
    MaxLeftovers = 1
INVARIANTS
    PairsVerified
    ModificationReported
    MirrorIsCommitted
    LeftoversWarned
