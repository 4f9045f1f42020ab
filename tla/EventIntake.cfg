SPECIFICATION IntakeSpec
CONSTANTS
    n1 = n1
    n2 = n2
    task = task
    security = security
    e1 = e1
    r1 = r1
    r2 = r2
    r3 = r3
    r4 = r4
    None = None
    Notices = {n1, n2}
    Settings = {task, security}
    Locked = {security}
    SettingOf <- MCSettingOf
    Events = {e1}
    Requests = {r1, r2, r3, r4}
SYMMETRY Symmetry
INVARIANTS EachEventOnce
CHECK_DEADLOCK FALSE
