CONSTANTS
    r1 = r1
    r2 = r2
    lead = lead
    t1 = t1
    t2 = t2
    Requests = {r1, r2}
    NoRequest = NoRequest
    Users = {lead}
    RoleOf <- MCRoleOf
    Tasks = {t1, t2}
    MaxDay = 2
    DayLimit = 1
    MaxEntries = 3
SPECIFICATION FairSpec
INVARIANTS TypeOK DailyLimit TaskTotalNonNegative NoWorkAfterCompletion
PROPERTIES ImplementsBook EveryRequestEnds
