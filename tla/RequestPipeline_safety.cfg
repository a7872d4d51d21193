SPECIFICATION Spec
CONSTANTS
    Requests = {r1, r2}
    Routes = {"place", "get", "catalog"}
    MaxRequests = 3
SYMMETRY Symmetry
INVARIANTS
    MetricsConserved
    OutcomesCounted
    ProtectedByToken
CHECK_DEADLOCK FALSE
