SPECIFICATION FairSpec
CONSTANTS
    s1 = s1
    c1 = c1
    c2 = c2
    c3 = c3
    w1 = w1
    w2 = w2
    None = None
    Sessions = {s1}
    Calls = {c1, c2}
    Workers = {w1}
PROPERTY RevokedIsFinal
CHECK_DEADLOCK FALSE
