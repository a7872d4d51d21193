SPECIFICATION RouteSpec
CONSTANTS
    Keys = {request}
    Values = {product}
    Callers = {r1, r2}
    Capacity = 1
    TTLs = {0, 1, 2}
    MaxTime = 3
    Nil = Nil
    Nothing = Nothing
PROPERTIES
    LoadOnlyWithoutLiveEntry
    CatalogAnswered
