----------------------------- MODULE Membership -----------------------------
(***************************************************************************)
(* The members of one project and its owner: CollaborationService          *)
(* add_member, change_member_role, remove_member and transfer_owner of     *)
(* project-service, run by concurrent requests, each in one READ COMMITTED *)
(* transaction of its own.                                                 *)
(*                                                                         *)
(* A request reads its actor's membership without a lock, then waits for   *)
(* the row it names (SELECT ... FOR UPDATE), and a transfer then waits for *)
(* the owner's row as well.  Its writes become visible at commit.          *)
(***************************************************************************)
EXTENDS Integers, FiniteSets, Policies

CONSTANTS
    Requests,     \* concurrent HTTP requests (workers)
    NoRequest,    \* a lock nobody holds
    Users,
    Nobody,       \* removed_by of a row that was not removed
    Creator,      \* the user who created the project
    Ids,          \* ids of project_memberships rows that may come to exist
    FirstId,      \* the row create_project wrote for the creator
    GivenRoles,   \* the roles that requests ask for
    MaxVersion    \* bound: rows and the project are not changed from this version on

ASSUME RequestAssumption == NoRequest \notin Requests
ASSUME UserAssumption == Creator \in Users /\ Nobody \notin Users
ASSUME IdAssumption == FirstId \in Ids
ASSUME RoleAssumption == GivenRoles \subseteq Roles \ {"owner"} /\ GivenRoles # {}
ASSUME BoundAssumption == MaxVersion \in Nat \ {0}

VARIABLES
    rows,      \* project_memberships; status "absent" before the row is inserted
    owner,     \* projects.owner_id
    version,   \* projects.version
    rowLock,   \* holder of each membership row lock
    pc,        \* where each request is
    cmd        \* what each request has been given and has read

vars == <<rows, owner, version, rowLock, pc, cmd>>

Row == [user: Users, role: Roles, status: {"absent", "active", "removed"},
        version: Nat, removed_by: Users \cup {Nobody}]

Places == {"idle", "insert", "lock_change", "change", "lock_remove", "remove",
           "lock_target", "update_roles", "owner_index", "save_project"}

Command == [actor: Users, user: Users, role: Roles, id: Ids,
            current: Ids, read_version: Nat, project_version: Nat]

NoCommand == [actor |-> Creator, user |-> Creator, role |-> "member", id |-> FirstId,
              current |-> FirstId, read_version |-> 0, project_version |-> 0]

TypeOK ==
    /\ rows \in [Ids -> Row]
    /\ \A i \in Ids : rows[i].status = "removed" <=> rows[i].removed_by # Nobody
    /\ owner \in Users
    /\ version \in Nat
    /\ rowLock \in [Ids -> Requests \cup {NoRequest}]
    /\ pc \in [Requests -> Places]
    /\ cmd \in [Requests -> Command]

(* ProjectService.create_project left the project and its owner's row. *)
Init ==
    /\ rows = [i \in Ids |-> [user |-> Creator, role |-> IF i = FirstId THEN "owner" ELSE "member",
                              status |-> IF i = FirstId THEN "active" ELSE "absent",
                              version |-> 1, removed_by |-> Nobody]]
    /\ owner = Creator
    /\ version = 1
    /\ rowLock = [i \in Ids |-> NoRequest]
    /\ pc = [r \in Requests |-> "idle"]
    /\ cmd = [r \in Requests |-> NoCommand]

-----------------------------------------------------------------------------
IsActive(i) == rows[i].status = "active"

IsOwner(i) == IsActive(i) /\ rows[i].role = "owner"

(* get_active_membership and AuthorizationPolicy: row i lets its user act. *)
Access(i, action) == IsActive(i) /\ Authorized(rows[i].role, action, TRUE)

(* A bound, not code: no change of a row whose version has reached it; the  *)
(* request is answered like one with a stale If-Match.                      *)
WithinBound(i) == rows[i].version < MaxVersion

Goto(r, place, command) ==
    /\ pc' = [pc EXCEPT ![r] = place]
    /\ cmd' = [cmd EXCEPT ![r] = command]

(* Commit, rollback and a lost worker all end the transaction. *)
EndTransaction(r) ==
    /\ rowLock' = [i \in Ids |-> IF rowLock[i] = r THEN NoRequest ELSE rowLock[i]]
    /\ Goto(r, "idle", NoCommand)

Rollback(r) == EndTransaction(r) /\ UNCHANGED <<rows, owner, version>>

-----------------------------------------------------------------------------
(* add_member: the check for an active row precedes the INSERT, and the     *)
(* index uq_membership_active_user decides at the flush.                    *)

BeginAdd(r) ==
    /\ pc[r] = "idle"
    /\ \E a \in Ids, user \in Users, role \in GivenRoles :
         /\ Access(a, "manage_members")
         /\ \A i \in Ids : IsActive(i) => rows[i].user # user
         /\ Goto(r, "insert", [NoCommand EXCEPT !.user = user, !.role = role])
    /\ UNCHANGED <<rows, owner, version, rowLock>>

UserFreeUnchecked(user) == TRUE   \* mutated: no unique index behind the check

UserFree(user) == \A i \in Ids : IsActive(i) => rows[i].user # user

FreshIds == {i \in Ids : rows[i].status = "absent"}

Inserted(c) == [user |-> c.user, role |-> c.role, status |-> "active",
                version |-> 1, removed_by |-> Nobody]

Insert(r) ==
    /\ pc[r] = "insert"
    /\ \/ /\ UserFree(cmd[r].user)
          /\ FreshIds # {}
          /\ rows' = [rows EXCEPT ![CHOOSE i \in FreshIds : TRUE] = Inserted(cmd[r])]
          /\ EndTransaction(r)
          /\ UNCHANGED <<owner, version>>
       \/ /\ \/ ~UserFree(cmd[r].user)
             \/ FreshIds = {}   \* bound: no id is left
          /\ Rollback(r)

-----------------------------------------------------------------------------
(* change_member_role and remove_member: the row is found by its id,        *)
(* whatever its status, and locked; If-Match names its version.             *)

BeginChange(r) ==
    /\ pc[r] = "idle"
    /\ \E a \in Ids, id \in Ids :
         /\ Access(a, "manage_members")
         /\ \/ Goto(r, "lock_change", [NoCommand EXCEPT !.id = id])
            \/ Goto(r, "lock_remove", [NoCommand EXCEPT !.id = id, !.actor = rows[a].user])
    /\ UNCHANGED <<rows, owner, version, rowLock>>

(* SELECT ... FOR UPDATE of the row can return *)
RowFree(r) == rowLock[cmd[r].id] = NoRequest

TakeRow(r, place, command) ==
    /\ rowLock' = [rowLock EXCEPT ![command.id] = r]
    /\ Goto(r, place, command)

(* ProjectMembership.change_role *)
Changeable(row, role) == row.status # "absent" /\ row.role # "owner" /\ role # "owner"

LockChange(r) ==
    /\ pc[r] = "lock_change"
    /\ RowFree(r)
    /\ \/ /\ WithinBound(cmd[r].id)
          /\ \E role \in GivenRoles \cup {"owner"} :
               /\ Changeable(rows[cmd[r].id], role)
               /\ TakeRow(r, "change", [cmd[r] EXCEPT !.role = role, !.read_version = rows[cmd[r].id].version])
       \/ EndTransaction(r)   \* not found, a stale If-Match or the owner's role
    /\ UNCHANGED <<rows, owner, version>>

(* ProjectMembership.remove *)
Removable(row) == row.status # "absent" /\ row.role # "owner"

LockRemove(r) ==
    /\ pc[r] = "lock_remove"
    /\ RowFree(r)
    /\ \/ /\ WithinBound(cmd[r].id)
          /\ Removable(rows[cmd[r].id])
          /\ TakeRow(r, "remove", [cmd[r] EXCEPT !.read_version = rows[cmd[r].id].version])
       \/ EndTransaction(r)
    /\ UNCHANGED <<rows, owner, version>>

ChangedRow(row, role) == [row EXCEPT !.role = role, !.version = @ + 1]

(* save_membership: UPDATE ... WHERE version = expected; no row, no commit. *)
Save(r, new) ==
    \/ /\ rows[cmd[r].id].version = cmd[r].read_version
       /\ rows' = [rows EXCEPT ![cmd[r].id] = new]
       /\ EndTransaction(r)
       /\ UNCHANGED <<owner, version>>
    \/ /\ rows[cmd[r].id].version # cmd[r].read_version
       /\ Rollback(r)

ChangeRole(r) ==
    /\ pc[r] = "change"
    /\ Save(r, ChangedRow(rows[cmd[r].id], cmd[r].role))

RemovedRowUnrecorded(row, actor) ==   \* mutated: removed_by stays NULL
    [row EXCEPT !.status = "removed", !.version = @ + 1]

RemovedRow(row, actor) ==
    [row EXCEPT !.status = "removed", !.version = @ + 1, !.removed_by = actor]

Remove(r) ==
    /\ pc[r] = "remove"
    /\ Save(r, RemovedRow(rows[cmd[r].id], cmd[r].actor))

-----------------------------------------------------------------------------
(* transfer_owner *)

BeginTransfer(r) ==
    /\ pc[r] = "idle"
    /\ \E a \in Ids, id \in Ids :
         /\ Access(a, "transfer_owner")
         /\ WithinBound(a) /\ WithinBound(id) /\ version < MaxVersion   \* bound
         /\ Goto(r, "lock_target", [NoCommand EXCEPT !.id = id, !.current = a,
                            !.read_version = rows[a].version, !.project_version = version])
    /\ UNCHANGED <<rows, owner, version, rowLock>>

EligibleAnyStatus(row) == row.status # "absent" /\ row.role # "viewer"   \* mutated: get_membership

EligibleViewer(row) == row.status = "active"   \* mutated: a viewer too

(* get_active_membership of the new owner, and not a viewer *)
Eligible(row) == row.status = "active" /\ row.role # "viewer"

LockTarget(r) ==
    /\ pc[r] = "lock_target"
    /\ RowFree(r)
    /\ \/ Eligible(rows[cmd[r].id]) /\ TakeRow(r, "update_roles", cmd[r])
       \/ ~Eligible(rows[cmd[r].id]) /\ EndTransaction(r)
    /\ UNCHANGED <<rows, owner, version>>

MatchesCurrentAnyVersion(r) == cmd[r].id # cmd[r].current   \* mutated: WHERE names the ids only

(* The WHERE of transfer_owner_roles selects the current owner's row too.   *)
MatchesCurrent(r) ==
    /\ cmd[r].id # cmd[r].current
    /\ rows[cmd[r].current].version = cmd[r].read_version

(* One UPDATE of both rows.  The partial unique index is checked row by row *)
(* in the order in which the rows lie in the table.                         *)
UpdateRoles(r) ==
    /\ pc[r] = "update_roles"
    /\ \/ /\ MatchesCurrent(r)
          /\ rowLock[cmd[r].current] = NoRequest
          /\ \/ /\ rowLock' = [rowLock EXCEPT ![cmd[r].current] = r]
                /\ Goto(r, "save_project", cmd[r])
             \/ /\ UNCHANGED rowLock
                /\ Goto(r, "owner_index", cmd[r])
       \/ ~MatchesCurrent(r) /\ EndTransaction(r)
    /\ UNCHANGED <<rows, owner, version>>

(* IntegrityError: answered 500 by the generic handler. *)
OwnerIndexViolated(r) == pc[r] = "owner_index" /\ Rollback(r)

NewOwnerUnsaved(r) == owner   \* mutated: projects.owner_id is not written

NewOwner(r) == rows[cmd[r].id].user

SaveProject(r) ==
    /\ pc[r] = "save_project"
    /\ \/ /\ version = cmd[r].project_version
          /\ rows' = [rows EXCEPT ![cmd[r].current] = ChangedRow(@, "admin"),
                                  ![cmd[r].id] = ChangedRow(@, "owner")]
          /\ owner' = NewOwner(r)
          /\ version' = version + 1
          /\ EndTransaction(r)
       \/ version # cmd[r].project_version /\ Rollback(r)

-----------------------------------------------------------------------------
(* The worker dies or loses its connection: PostgreSQL rolls back. *)
Crash(r) == pc[r] # "idle" /\ Rollback(r)

Begin(r) == BeginAdd(r) \/ BeginChange(r) \/ BeginTransfer(r)

Acquire(r) == LockChange(r) \/ LockRemove(r) \/ LockTarget(r) \/ UpdateRoles(r)

Proceed(r) == Insert(r) \/ ChangeRole(r) \/ Remove(r) \/ OwnerIndexViolated(r) \/ SaveProject(r)

Next == \E r \in Requests : Begin(r) \/ Acquire(r) \/ Proceed(r) \/ Crash(r)

Spec == Init /\ [][Next]_vars

(* A worker that can run does; a lock queue is first come, first served.    *)
FairSpec ==
    /\ Spec
    /\ \A r \in Requests : WF_vars(Proceed(r)) /\ SF_vars(Acquire(r))

-----------------------------------------------------------------------------
(* The project has exactly one active owner, whatever adds, role changes,   *)
(* removals and transfers run at the same time.                             *)
ExactlyOneOwner ==
    \E i \in Ids : IsOwner(i) /\ \A j \in Ids : IsOwner(j) => j = i

(* projects.owner_id names the user of the active owner row.                *)
OwnerSnapshotAgrees == \A i \in Ids : IsOwner(i) => owner = rows[i].user

(* Adding a user twice at the same time, or again after a removal, never    *)
(* leaves two active memberships of that user.                              *)
OneActiveMembership ==
    \A i, j \in Ids : IsActive(i) /\ IsActive(j) /\ rows[i].user = rows[j].user => i = j

(* The owner changes hands only from its holder, to a member the project    *)
(* had, and the old owner stays as an admin: no add, role change or removal *)
(* moves the ownership.                                                     *)
OwnershipHandedOver ==
    [][\A i, j \in Ids : IsOwner(i) /\ IsOwner(j)' /\ i # j =>
          /\ IsActive(j) /\ rows[j].role # "viewer"
          /\ IsActive(i)' /\ rows'[i].role = "admin"
          /\ version' = version + 1]_vars

(* Every request ends: a transfer that holds the row of the new owner while *)
(* it waits for the row of the old one never waits in a circle.             *)
EveryRequestEnds == \A r \in Requests : pc[r] # "idle" ~> pc[r] = "idle"

=============================================================================
