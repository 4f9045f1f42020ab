CONSTANTS
    a1 = a1
    a2 = a2
    a3 = a3
    k1 = k1
    k2 = k2
    b1 = b1
    b2 = b2
    x1 = x1
    x2 = x2
    Attempts = {a1, a2, a3}
    NoAttempt = NoAttempt
    Keys = {k1}
    Bodies = {b1, b2}
    Resources = {x1, x2}
    NoResource = NoResource
    NoRecord = NoRecord
SPECIFICATION FairSpec
INVARIANTS TypeOK AtMostOnce AnswersAgree
PROPERTIES ImplementsOnce EveryAttemptEnds
