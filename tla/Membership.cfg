CONSTANTS
    r1 = r1
    r2 = r2
    ann = ann
    bob = bob
    Requests = {r1, r2}
    NoRequest = NoRequest
    Users = {ann, bob}
    Nobody = Nobody
    Creator = ann
    Ids = {1, 2, 3}
    FirstId = 1
    GivenRoles = {"admin", "viewer"}
    MaxVersion = 3
SPECIFICATION FairSpec
INVARIANTS TypeOK ExactlyOneOwner OwnerSnapshotAgrees OneActiveMembership
PROPERTIES OwnershipHandedOver EveryRequestEnds
