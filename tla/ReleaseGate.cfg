CONSTANTS
    r1 = r1
    r2 = r2
    v1 = v1
    v2 = v2
    i1 = i1
    i2 = i2
    t1 = t1
    Requests = {r1, r2}
    NoRequest = NoRequest
    Versions = {v1}
    Iterations = {i1, i2}
    Tasks = {t1}
SYMMETRY RequestSymmetry
SPECIFICATION Spec
INVARIANTS TypeOK OneActiveIteration NumbersDense
PROPERTIES ReleaseLeavesNoTodo
