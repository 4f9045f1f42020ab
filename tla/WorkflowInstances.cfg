SPECIFICATION Spec
CONSTANTS
    i1 = i1
    i2 = i2
    r1 = r1
    r2 = r2
    r3 = r3
    k1 = k1
    k2 = k2
    None = None
    Instances = {i1}
    Requests = {r1, r2, r3}
    Keys = {k1, k2}
    Versions = {1, 2, 3}
    Moves <- MCMoves
    Initial = "todo"
    Terminal = {"closed", "canceled"}
    Past <- MCPast
SYMMETRY Symmetry
INVARIANTS TypeOK KeyTakesEffectOnce StatesAreReached
CHECK_DEADLOCK FALSE
