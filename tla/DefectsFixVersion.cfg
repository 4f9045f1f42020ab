SPECIFICATION Spec
CONSTANTS
    d1 = d1
    d2 = d2
    r1 = r1
    r2 = r2
    r3 = r3
    a1 = a1
    a2 = a2
    None = None
    Defects = {d1, d2}
    Requests = {r1, r2, r3}
    Actors = {a1}
    Histories <- MCStarted
    Contested <- MCFixing
SYMMETRY Symmetry
INVARIANT FixVersionBehindStatus
CHECK_DEADLOCK FALSE
