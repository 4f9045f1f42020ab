SPECIFICATION PlatformSpec
CONSTANTS
    f1 = f1
    f2 = f2
    c1 = c1
    s1 = s1
    p1 = p1
    e1 = e1
    i1 = i1
    t1 = t1
    t2 = t2
    t3 = t3
    v1 = v1
    v2 = v2
    r1 = r1
    r2 = r2
    k1 = k1
    k2 = k2
    Seed = Seed
    None = None
    Folders = {f1, f2}
    Cases = {c1}
    Sessions = {s1}
    Plans = {p1}
    Executions = {e1}
    Ingestions = {i1}
    Items = {t1, t2, t3}
    Version <- MCVersion
    Scopes <- MCScopes
    Writers = {r1, r2}
    Keys = {k1, k2}
    Initially <- MCInitially
SYMMETRY Symmetry
INVARIANT LatestRunIsLast
CHECK_DEADLOCK FALSE
