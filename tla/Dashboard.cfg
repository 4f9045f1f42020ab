SPECIFICATION DashboardSpec
CONSTANTS
    a1 = a1
    a2 = a2
    d1 = d1
    d2 = d2
    v1 = v1
    v2 = v2
    Nothing = Nothing
    Actors = {a1, a2}
    Views = {v1, v2}
    Domains = {d1, d2}
    CacheOn = TRUE
SYMMETRY Symmetry
INVARIANTS AnswersOwnScope
CHECK_DEADLOCK FALSE
