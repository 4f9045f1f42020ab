SPECIFICATION Spec
CONSTANTS
    q1 = q1
    w1 = w1
    b1 = b1
    c1 = c1
    u1 = u1
    title = title
    description = description
    r1 = r1
    r2 = r2
    r3 = r3
    None = None
    Requirements = {q1}
    Reviews = {}
    Baselines = {}
    Changes = {}
    Requests = {r1, r2, r3}
    Columns = {title, description}
    Reviewers = {u1}
SYMMETRY Symmetry
INVARIANT ContentIsCaptured
CHECK_DEADLOCK FALSE
