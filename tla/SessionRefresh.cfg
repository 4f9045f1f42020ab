SPECIFICATION FairSpec
CONSTANTS
    s1 = s1
    c1 = c1
    c2 = c2
    c3 = c3
    w1 = w1
    w2 = w2
    None = None
    Sessions = {s1}
    Calls = {c1, c2, c3}
    Workers = {w1, w2}
INVARIANTS TypeOK OneFlight AnswersOwnToken ExchangedOnce RevokedForCause
PROPERTY EveryCallEnds
CHECK_DEADLOCK FALSE
