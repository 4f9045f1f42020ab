SPECIFICATION Spec
CONSTANTS
    q1 = q1
    w1 = w1
    b1 = b1
    c1 = c1
    u1 = u1
    title = title
    description = description
    r1 = r1
    r2 = r2
    r3 = r3
    None = None
    Requirements = {q1}
    Reviews = {w1}
    Baselines = {b1}
    Changes = {c1}
    Requests = {r1, r2, r3}
    Columns = {title, description}
    Reviewers = {u1}
SYMMETRY Symmetry
INVARIANTS TypeOK ContentIsFrozen AppliedLeavesRevision
CHECK_DEADLOCK FALSE
