SPECIFICATION Spec
CONSTANTS
    Keys = {k1, k2, k3, k4}
    Values = {v1, v2}
    Callers = {c1, c2}
    Capacity = 3
    TTLs = {1}
    MaxTime = 1
    Nil = Nil
    Nothing = Nothing
SYMMETRY Symmetry
INVARIANTS
    ListMatchesMap
PROPERTIES
    ImplementsLRU
