-------------------------- MODULE MembershipProofs --------------------------
(***************************************************************************)
(* Proofs about two components that share no state.                        *)
(* Membership, for any number of users, rows and requests: the owner's row *)
(* is the delicate one, a transfer reads it without a lock and writes it   *)
(* later.  The proof rests on three facts: whoever holds a row lock keeps  *)
(* what it checked of the row; a row's version grows with every change; so *)
(* a row whose version is the one read is the row read.                    *)
(* TestPlatform, for any numbers of aggregates and requests: a request     *)
(* writes back copies of everything, and the proof says what an older copy *)
(* may still hold.                                                         *)
(***************************************************************************)
EXTENDS Membership, TestPlatform, FiniteSetTheorems, TLAPS

HoldsRow(r) == pc[r] \in {"change", "remove", "update_roles", "save_project"} => rowLock[cmd[r].id] = r

NotTheOwner(r) ==
    pc[r] \in {"change", "remove"} =>
        rows[cmd[r].id].status # "absent" /\ rows[cmd[r].id].role # "owner"

NoOwnerGiven(r) == pc[r] \in {"insert", "change"} => cmd[r].role # "owner"

TargetChecked(r) == pc[r] \in {"update_roles", "save_project"} => Eligible(rows[cmd[r].id])

(* The owner's row is the one read, or it has moved on to a later version. *)
CurrentRead(r) ==
    pc[r] \in {"lock_target", "update_roles", "save_project"} =>
        LET i == cmd[r].current
        IN  /\ rows[i].status # "absent"
            /\ \/ rows[i].version > cmd[r].read_version
               \/ rows[i].version = cmd[r].read_version /\ IsOwner(i)

CurrentLocked(r) ==
    pc[r] = "save_project" =>
        /\ cmd[r].id # cmd[r].current
        /\ rowLock[cmd[r].current] = r
        /\ rows[cmd[r].current].version = cmd[r].read_version

Checked(r) ==
    /\ HoldsRow(r)
    /\ NotTheOwner(r)
    /\ NoOwnerGiven(r)
    /\ TargetChecked(r)
    /\ CurrentRead(r)
    /\ CurrentLocked(r)

Inv ==
    /\ TypeOK
    /\ \A r \in Requests : Checked(r)
    /\ ExactlyOneOwner
    /\ OwnerSnapshotAgrees
    /\ OneActiveMembership

-----------------------------------------------------------------------------
LEMMA NoCommandType == NoCommand \in Command
  BY UserAssumption, IdAssumption DEF NoCommand, Command, Roles

LEMMA EndTransactionType ==
  ASSUME TypeOK, NEW r \in Requests, EndTransaction(r)
  PROVE  /\ rowLock' \in [Ids -> Requests \cup {NoRequest}]
         /\ pc' \in [Requests -> Places]
         /\ cmd' \in [Requests -> Command]
         /\ pc'[r] = "idle"
         /\ \A q \in Requests \ {r} :
              /\ pc'[q] = pc[q] /\ cmd'[q] = cmd[q]
              /\ \A i \in Ids : rowLock[i] = q => rowLock'[i] = q
  BY NoCommandType, RequestAssumption DEF TypeOK, EndTransaction, Goto, Places

(* A row that exists stays, and changes only with its version.             *)
Evolves(i) ==
    rows[i].status # "absent" =>
        /\ rows'[i].status # "absent"
        /\ rows'[i] = rows[i] \/ rows'[i].version > rows[i].version

LEMMA CheckedKept ==
  ASSUME TypeOK, TypeOK', NEW q \in Requests, Checked(q),
         pc'[q] = pc[q], cmd'[q] = cmd[q],
         \A i \in Ids : rowLock[i] = q =>
            rowLock'[i] = q /\ (rows[i].status # "absent" => rows'[i] = rows[i]),
         \A i \in Ids : Evolves(i)
  PROVE  Checked(q)'
  <1>1. cmd[q].id \in Ids /\ cmd[q].current \in Ids /\ cmd[q].read_version \in Nat
    BY DEF TypeOK, Command
  <1>2. \A i \in Ids : rows[i].version \in Nat /\ rows'[i].version \in Nat
    BY DEF TypeOK, Row
  <1>3. HoldsRow(q)' /\ NotTheOwner(q)' /\ NoOwnerGiven(q)'
    BY <1>1 DEF Checked, HoldsRow, NotTheOwner, NoOwnerGiven
  <1>4. TargetChecked(q)'
    BY <1>1 DEF Checked, HoldsRow, TargetChecked, Eligible
  <1>5. CurrentRead(q)'
    BY <1>1, <1>2 DEF Checked, CurrentRead, Evolves, IsOwner, IsActive
  <1>6. CurrentLocked(q)'
    BY <1>1 DEF Checked, CurrentRead, CurrentLocked
  <1>7. QED
    BY <1>3, <1>4, <1>5, <1>6 DEF Checked

(* Rejections, the 500 of the owner index and crashes.                     *)
LEMMA RollbackInv ==
  ASSUME Inv, NEW r \in Requests, Rollback(r)
  PROVE  Inv'
  <1>1. TypeOK /\ (\A q \in Requests : Checked(q)) /\ EndTransaction(r) /\ UNCHANGED <<rows, owner, version>>
    BY DEF Inv, Rollback
  <1>2. TypeOK'
    BY <1>1, EndTransactionType DEF TypeOK
  <1>3. ASSUME NEW q \in Requests PROVE Checked(q)'
    <2>1. CASE q = r
      <3>1. pc'[q] = "idle"
        BY <1>1, <2>1, EndTransactionType
      <3>2. QED
        BY <3>1 DEF Checked, HoldsRow, NotTheOwner, NoOwnerGiven, TargetChecked, CurrentRead, CurrentLocked
    <2>2. CASE q # r
      <3>1. /\ pc'[q] = pc[q] /\ cmd'[q] = cmd[q]
            /\ \A i \in Ids : rowLock[i] = q => rowLock'[i] = q
        BY <1>1, <2>2, EndTransactionType
      <3>2. \A i \in Ids : Evolves(i)
        BY <1>1 DEF Evolves
      <3>3. QED
        BY <1>1, <1>2, <3>1, <3>2, CheckedKept
    <2>3. QED
      BY <2>1, <2>2
  <1>4. (ExactlyOneOwner /\ OwnerSnapshotAgrees /\ OneActiveMembership)'
    BY <1>1 DEF Inv, ExactlyOneOwner, OwnerSnapshotAgrees, OneActiveMembership, IsOwner, IsActive
  <1>5. QED
    BY <1>2, <1>3, <1>4 DEF Inv

(* A step of r that changes no row and takes at most free locks keeps what  *)
(* the others checked.                                                      *)
LEMMA ReadStepInv ==
  ASSUME Inv, NEW r \in Requests, TypeOK', Checked(r)',
         UNCHANGED <<rows, owner, version>>,
         \A q \in Requests \ {r} : pc'[q] = pc[q] /\ cmd'[q] = cmd[q],
         \A i \in Ids : rowLock'[i] = rowLock[i] \/ rowLock[i] = NoRequest
  PROVE  Inv'
  <1>1. ASSUME NEW q \in Requests PROVE Checked(q)'
    <2>1. CASE q # r
      <3>1. \A i \in Ids : Evolves(i)
        BY DEF Evolves
      <3>2. \A i \in Ids : rowLock[i] = q => rowLock'[i] = q
        BY RequestAssumption
      <3>3. QED
        BY <2>1, <3>1, <3>2, CheckedKept DEF Inv
    <2>2. QED
      BY <2>1
  <1>2. (ExactlyOneOwner /\ OwnerSnapshotAgrees /\ OneActiveMembership)'
    BY DEF Inv, ExactlyOneOwner, OwnerSnapshotAgrees, OneActiveMembership, IsOwner, IsActive
  <1>3. QED
    BY <1>1, <1>2 DEF Inv

-----------------------------------------------------------------------------
LEMMA BeginInv ==
  ASSUME Inv, NEW r \in Requests, Begin(r)
  PROVE  Inv'
  <1>1. TypeOK /\ \A q \in Requests : Checked(q)
    BY DEF Inv
  <1>2. UNCHANGED <<rows, owner, version, rowLock>>
    BY DEF Begin, BeginAdd, BeginChange, BeginTransfer
  <1>3. PICK place \in {"insert", "lock_change", "lock_remove", "lock_target"}, c \in Command :
          /\ Goto(r, place, c)
          /\ place = "insert" => c.role # "owner"
          /\ place = "lock_target" => IsOwner(c.current) /\ c.read_version = rows[c.current].version
    <2>1. CASE BeginAdd(r)
      <3>1. PICK user \in Users, role \in GivenRoles :
              Goto(r, "insert", [NoCommand EXCEPT !.user = user, !.role = role])
        BY <2>1 DEF BeginAdd
      <3>2. [NoCommand EXCEPT !.user = user, !.role = role] \in Command /\ role # "owner"
        BY NoCommandType, RoleAssumption DEF Command
      <3>3. [NoCommand EXCEPT !.user = user, !.role = role].role = role
        BY DEF NoCommand
      <3>4. QED
        BY <3>1, <3>2, <3>3
    <2>2. CASE BeginChange(r)
      <3>1. PICK a \in Ids, id \in Ids :
              \/ Goto(r, "lock_change", [NoCommand EXCEPT !.id = id])
              \/ Goto(r, "lock_remove", [NoCommand EXCEPT !.id = id, !.actor = rows[a].user])
        BY <2>2 DEF BeginChange
      <3>2. [NoCommand EXCEPT !.id = id] \in Command
            /\ [NoCommand EXCEPT !.id = id, !.actor = rows[a].user] \in Command
        BY <1>1, NoCommandType DEF Command, TypeOK, Row
      <3>3. QED
        BY <3>1, <3>2
    <2>3. CASE BeginTransfer(r)
      <3>1. PICK a \in Ids, id \in Ids :
              /\ Access(a, "transfer_owner")
              /\ Goto(r, "lock_target", [NoCommand EXCEPT !.id = id, !.current = a,
                            !.read_version = rows[a].version, !.project_version = version])
        BY <2>3 DEF BeginTransfer
      <3> DEFINE c == [NoCommand EXCEPT !.id = id, !.current = a,
                            !.read_version = rows[a].version, !.project_version = version]
      <3>2. c \in Command
        BY <1>1, NoCommandType DEF Command, TypeOK, Row
      <3>3. c.current = a /\ c.read_version = rows[a].version
        BY DEF NoCommand
      <3>4. IsOwner(a)
        BY <3>1 DEF Access, Authorized, Allowed, IsOwner
      <3>5. QED
        BY <3>1, <3>2, <3>3, <3>4
    <2>4. QED
      BY <2>1, <2>2, <2>3 DEF Begin
  <1>4. TypeOK'
    BY <1>1, <1>2, <1>3 DEF TypeOK, Goto, Places
  <1>5. Checked(r)'
    <2>1. pc'[r] = place /\ cmd'[r] = c
      BY <1>1, <1>3 DEF TypeOK, Goto
    <2>2. c.current \in Ids
      BY DEF Command
    <2>3. QED
      BY <1>2, <1>3, <2>1, <2>2
      DEF Checked, HoldsRow, NotTheOwner, NoOwnerGiven, TargetChecked, CurrentRead, CurrentLocked, IsOwner, IsActive
  <1>6. \A q \in Requests \ {r} : pc'[q] = pc[q] /\ cmd'[q] = cmd[q]
    BY <1>1, <1>3 DEF TypeOK, Goto
  <1>7. QED
    BY <1>2, <1>4, <1>5, <1>6, ReadStepInv

(* Taking the row that was asked for, with what has been checked of it.    *)
LEMMA TakeRowInv ==
  ASSUME Inv, NEW r \in Requests, NEW place \in {"change", "remove", "update_roles"}, NEW c \in Command,
         RowFree(r), TakeRow(r, place, c), c.id = cmd[r].id,
         place \in {"change", "remove"} => rows[c.id].status # "absent" /\ rows[c.id].role # "owner",
         place = "change" => c.role # "owner",
         place = "update_roles" => Eligible(rows[c.id]) /\ c = cmd[r] /\ pc[r] = "lock_target",
         UNCHANGED <<rows, owner, version>>
  PROVE  Inv'
  <1>1. TypeOK /\ \A q \in Requests : Checked(q)
    BY DEF Inv
  <1>2. /\ rowLock' = [rowLock EXCEPT ![c.id] = r] /\ rowLock[c.id] = NoRequest
        /\ pc' = [pc EXCEPT ![r] = place] /\ cmd' = [cmd EXCEPT ![r] = c] /\ c.id \in Ids
    BY DEF TakeRow, Goto, RowFree, Command
  <1>3. TypeOK'
    BY <1>1, <1>2 DEF TypeOK, Places
  <1>4. pc'[r] = place /\ cmd'[r] = c /\ rowLock'[c.id] = r
    BY <1>1, <1>2 DEF TypeOK
  <1>5. Checked(r)'
    <2>1. HoldsRow(r)' /\ NotTheOwner(r)' /\ NoOwnerGiven(r)' /\ CurrentLocked(r)'
      BY <1>4 DEF HoldsRow, NotTheOwner, NoOwnerGiven, CurrentLocked
    <2>2. TargetChecked(r)'
      BY <1>4 DEF TargetChecked, Eligible
    <2>3. CurrentRead(r)'
      BY <1>1, <1>4 DEF Checked, CurrentRead, IsOwner, IsActive
    <2>4. QED
      BY <2>1, <2>2, <2>3 DEF Checked
  <1>6. /\ \A q \in Requests \ {r} : pc'[q] = pc[q] /\ cmd'[q] = cmd[q]
        /\ \A i \in Ids : rowLock'[i] = rowLock[i] \/ rowLock[i] = NoRequest
    BY <1>1, <1>2 DEF TypeOK
  <1>7. QED
    BY <1>3, <1>5, <1>6, ReadStepInv

LEMMA LockInv ==
  ASSUME Inv, NEW r \in Requests, LockChange(r) \/ LockRemove(r) \/ LockTarget(r)
  PROVE  Inv'
  <1>1. cmd[r] \in Command
    BY DEF Inv, TypeOK
  <1>2. CASE EndTransaction(r)
    <2>1. Rollback(r)
      BY <1>2 DEF Rollback, LockChange, LockRemove, LockTarget
    <2>2. QED
      BY <2>1, RollbackInv
  <1> DEFINE v == rows[cmd[r].id].version
  <1>v. v \in Nat
    BY <1>1 DEF Inv, TypeOK, Row, Command
  <1>3. CASE LockChange(r) /\ ~EndTransaction(r)
    <2>1. PICK role \in GivenRoles \cup {"owner"} :
            /\ Changeable(rows[cmd[r].id], role)
            /\ TakeRow(r, "change", [cmd[r] EXCEPT !.role = role, !.read_version = v])
      BY <1>3 DEF LockChange
    <2> DEFINE c == [cmd[r] EXCEPT !.role = role, !.read_version = v]
    <2>2. c \in Command /\ c.id = cmd[r].id /\ c.role = role
      BY <1>1, <1>v, RoleAssumption DEF Command, Roles
    <2>3. /\ rows[c.id].status # "absent" /\ rows[c.id].role # "owner" /\ c.role # "owner"
          /\ RowFree(r) /\ TakeRow(r, "change", c) /\ UNCHANGED <<rows, owner, version>>
      BY <1>3, <2>1, <2>2 DEF LockChange, Changeable
    <2> HIDE DEF c
    <2>4. QED
      BY <2>2, <2>3, TakeRowInv
  <1>4. CASE LockRemove(r) /\ ~EndTransaction(r)
    <2> DEFINE c == [cmd[r] EXCEPT !.read_version = v]
    <2>1. c \in Command /\ c.id = cmd[r].id
      BY <1>1, <1>v DEF Command
    <2>2. /\ rows[c.id].status # "absent" /\ rows[c.id].role # "owner"
          /\ RowFree(r) /\ TakeRow(r, "remove", c) /\ UNCHANGED <<rows, owner, version>>
      BY <1>4, <2>1 DEF LockRemove, Removable
    <2> HIDE DEF c
    <2>3. QED
      BY <2>1, <2>2, TakeRowInv
  <1>5. CASE LockTarget(r) /\ ~EndTransaction(r)
    BY <1>1, <1>5, TakeRowInv DEF LockTarget
  <1>6. QED
    BY <1>2, <1>3, <1>4, <1>5

LEMMA UpdateRolesInv ==
  ASSUME Inv, NEW r \in Requests, UpdateRoles(r)
  PROVE  Inv'
  <1>1. TypeOK /\ (\A q \in Requests : Checked(q)) /\ cmd[r].current \in Ids /\ cmd[r] \in Command
    BY DEF Inv, TypeOK, Command
  <1>2. pc[r] = "update_roles" /\ UNCHANGED <<rows, owner, version>>
    BY DEF UpdateRoles
  <1>3. CASE EndTransaction(r)
    BY <1>2, <1>3, RollbackInv DEF Rollback
  <1>4. CASE /\ MatchesCurrent(r) /\ rowLock[cmd[r].current] = NoRequest
             /\ rowLock' = [rowLock EXCEPT ![cmd[r].current] = r]
             /\ Goto(r, "save_project", cmd[r])
    <2>1. /\ pc'[r] = "save_project" /\ cmd'[r] = cmd[r] /\ rowLock'[cmd[r].current] = r
          /\ cmd[r].id # cmd[r].current /\ rowLock'[cmd[r].id] = rowLock[cmd[r].id]
      BY <1>1, <1>4 DEF Goto, TypeOK, Command, MatchesCurrent
    <2>2. TypeOK'
      BY <1>1, <1>2, <1>4 DEF TypeOK, Goto, Places
    <2>3. Checked(r)'
      <3>1. HoldsRow(r)' /\ NotTheOwner(r)' /\ NoOwnerGiven(r)'
        BY <1>1, <1>2, <2>1 DEF Checked, HoldsRow, NotTheOwner, NoOwnerGiven
      <3>2. TargetChecked(r)'
        BY <1>1, <1>2, <2>1 DEF Checked, TargetChecked, Eligible
      <3>3. CurrentRead(r)'
        BY <1>1, <1>2, <2>1 DEF Checked, CurrentRead, IsOwner, IsActive
      <3>4. CurrentLocked(r)'
        BY <1>2, <1>4, <2>1 DEF CurrentLocked, MatchesCurrent
      <3>5. QED
        BY <3>1, <3>2, <3>3, <3>4 DEF Checked
    <2>4. /\ \A q \in Requests \ {r} : pc'[q] = pc[q] /\ cmd'[q] = cmd[q]
          /\ \A i \in Ids : rowLock'[i] = rowLock[i] \/ rowLock[i] = NoRequest
      BY <1>1, <1>4 DEF TypeOK, Goto
    <2>5. QED
      BY <1>2, <2>2, <2>3, <2>4, ReadStepInv
  <1>5. CASE UNCHANGED rowLock /\ Goto(r, "owner_index", cmd[r])
    <2>1. TypeOK' /\ pc'[r] = "owner_index"
      BY <1>1, <1>2, <1>5 DEF TypeOK, Goto, Places
    <2>2. Checked(r)'
      BY <2>1 DEF Checked, HoldsRow, NotTheOwner, NoOwnerGiven, TargetChecked, CurrentRead, CurrentLocked
    <2>3. \A q \in Requests \ {r} : pc'[q] = pc[q] /\ cmd'[q] = cmd[q]
      BY <1>1, <1>5 DEF TypeOK, Goto
    <2>4. QED
      BY <1>2, <1>5, <2>1, <2>2, <2>3, ReadStepInv
  <1>6. QED
    BY <1>3, <1>4, <1>5 DEF UpdateRoles

-----------------------------------------------------------------------------
(* A commit changes rows that its request holds, or a row that nobody knew. *)
LEMMA CommitKeepsChecked ==
  ASSUME Inv, NEW r \in Requests, EndTransaction(r), TypeOK',
         \A i \in Ids : Evolves(i),
         \A i \in Ids : rows'[i] = rows[i] \/ rowLock[i] = r \/ rows[i].status = "absent"
  PROVE  \A q \in Requests : Checked(q)'
  <1> SUFFICES ASSUME NEW q \in Requests PROVE Checked(q)'
    OBVIOUS
  <1>1. TypeOK /\ Checked(q)
    BY DEF Inv
  <1>2. CASE q = r
    <2>1. pc'[q] = "idle"
      BY <1>1, <1>2, EndTransactionType
    <2>2. QED
      BY <2>1 DEF Checked, HoldsRow, NotTheOwner, NoOwnerGiven, TargetChecked, CurrentRead, CurrentLocked
  <1>3. CASE q # r
    <2>1. /\ pc'[q] = pc[q] /\ cmd'[q] = cmd[q]
          /\ \A i \in Ids : rowLock[i] = q => rowLock'[i] = q
      BY <1>1, <1>3, EndTransactionType
    <2>2. \A i \in Ids : rowLock[i] = q /\ rows[i].status # "absent" => rows'[i] = rows[i]
      BY <1>3
    <2>3. QED
      BY <1>1, <2>1, <2>2, CheckedKept
  <1>4. QED
    BY <1>2, <1>3

LEMMA OwnersKept ==
  ASSUME ExactlyOneOwner, OwnerSnapshotAgrees, owner' = owner,
         \A i \in Ids : IsOwner(i)' <=> IsOwner(i),
         \A i \in Ids : IsOwner(i) => rows'[i].user = rows[i].user
  PROVE  ExactlyOneOwner' /\ OwnerSnapshotAgrees'
  BY DEF ExactlyOneOwner, OwnerSnapshotAgrees

LEMMA InsertInv ==
  ASSUME Inv, NEW r \in Requests, Insert(r)
  PROVE  Inv' /\ \A i \in Ids : IsOwner(i)' <=> IsOwner(i)
  <1>1. CASE Rollback(r)
    BY <1>1, RollbackInv DEF Rollback, IsOwner, IsActive
  <1>2. CASE ~Rollback(r)
    <2>1. /\ TypeOK /\ Checked(r) /\ pc[r] = "insert" /\ EndTransaction(r)
          /\ UserFree(cmd[r].user) /\ FreshIds # {} /\ owner' = owner /\ version' = version
          /\ rows' = [rows EXCEPT ![CHOOSE i \in FreshIds : TRUE] = Inserted(cmd[r])]
      BY <1>2 DEF Insert, Inv
    <2>2. PICK f \in Ids : rows[f].status = "absent" /\ rows' = [rows EXCEPT ![f] = Inserted(cmd[r])]
      BY <2>1 DEF FreshIds
    <2>3. cmd[r] \in Command /\ cmd[r].role # "owner"
      BY <2>1 DEF TypeOK, Checked, NoOwnerGiven
    <2>4. Inserted(cmd[r]) \in Row /\ Inserted(cmd[r]).status = "active"
          /\ Inserted(cmd[r]).role # "owner" /\ Inserted(cmd[r]).removed_by = Nobody
          /\ Inserted(cmd[r]).user = cmd[r].user
      BY <2>3 DEF Inserted, Row, Command
    <2>5. TypeOK'
      <3>1. rows' \in [Ids -> Row]
        BY <2>1, <2>2, <2>4 DEF TypeOK
      <3>2. \A i \in Ids : rows'[i].status = "removed" <=> rows'[i].removed_by # Nobody
        BY <2>1, <2>2, <2>4 DEF TypeOK
      <3>3. QED
        BY <2>1, <3>1, <3>2, EndTransactionType DEF TypeOK
    <2>6. \A i \in Ids : i # f => rows'[i] = rows[i]
      BY <2>1, <2>2 DEF TypeOK
    <2>7. rows'[f] = Inserted(cmd[r])
      BY <2>1, <2>2 DEF TypeOK
    <2>8. \A q \in Requests : Checked(q)'
      BY <2>1, <2>2, <2>5, <2>6, CommitKeepsChecked DEF Evolves
    <2>9. ExactlyOneOwner' /\ OwnerSnapshotAgrees' /\ \A i \in Ids : IsOwner(i)' <=> IsOwner(i)
      <3>1. ~IsOwner(f) /\ ~IsOwner(f)'
        BY <2>2, <2>4, <2>7 DEF IsOwner, IsActive
      <3>2. \A i \in Ids : IsOwner(i)' <=> IsOwner(i)
        BY <2>6, <3>1 DEF IsOwner, IsActive
      <3>3. QED
        BY <2>1, <2>6, <3>1, <3>2, OwnersKept DEF Inv
    <2>10. OneActiveMembership'
      BY <2>1, <2>4, <2>6, <2>7 DEF Inv, OneActiveMembership, UserFree, IsActive
    <2>11. QED
      BY <2>5, <2>8, <2>9, <2>10 DEF Inv
  <1>3. QED
    BY <1>1, <1>2

LEMMA ChangedRowType ==
  ASSUME NEW row \in Row, NEW role \in Roles
  PROVE  LET new == ChangedRow(row, role)
         IN  /\ new \in Row /\ new.role = role
             /\ new.user = row.user /\ new.status = row.status /\ new.removed_by = row.removed_by
             /\ new.version = row.version + 1 /\ row.version \in Nat
  <1> DEFINE given == [row EXCEPT !.role = role]
             new   == ChangedRow(row, role)
  <1>1. given \in Row /\ row.version \in Nat /\ row.version + 1 \in Nat
    BY DEF Row
  <1>2. ASSUME NEW v \in Nat PROVE [given EXCEPT !.version = v] \in Row
    BY <1>1 DEF Row
  <1>3. new = [given EXCEPT !.version = row.version + 1]
    BY DEF ChangedRow
  <1>4. new.role = role /\ new.user = row.user /\ new.status = row.status
        /\ new.removed_by = row.removed_by /\ new.version = row.version + 1
    BY DEF Row, ChangedRow
  <1>5. QED
    BY <1>1, <1>2, <1>3, <1>4

LEMMA RemovedRowType ==
  ASSUME NEW row \in Row, NEW actor \in Users
  PROVE  LET new == RemovedRow(row, actor)
         IN  /\ new \in Row /\ new.status = "removed" /\ new.removed_by = actor
             /\ new.user = row.user /\ new.role = row.role
             /\ new.version = row.version + 1 /\ row.version \in Nat
  <1> DEFINE ended == [row EXCEPT !.status = "removed"]
             kept  == [ended EXCEPT !.removed_by = actor]
             new   == RemovedRow(row, actor)
  <1>1. ended \in Row /\ row.version \in Nat /\ row.version + 1 \in Nat
    BY DEF Row
  <1>2. kept \in Row
    BY <1>1 DEF Row
  <1>3. ASSUME NEW v \in Nat PROVE [kept EXCEPT !.version = v] \in Row
    BY <1>2 DEF Row
  <1>4. new = [kept EXCEPT !.version = row.version + 1]
    BY DEF RemovedRow, Row
  <1>5. new.status = "removed" /\ new.removed_by = actor /\ new.user = row.user
        /\ new.role = row.role /\ new.version = row.version + 1
    BY DEF RemovedRow, Row
  <1>6. QED
    BY <1>1, <1>3, <1>4, <1>5

LEMMA ChangeInv ==
  ASSUME Inv, NEW r \in Requests, ChangeRole(r) \/ Remove(r), ~Rollback(r)
  PROVE  Inv' /\ \A i \in Ids : IsOwner(i)' <=> IsOwner(i)
  <1>0. PICK k \in Ids : k = cmd[r].id
    BY DEF Inv, TypeOK, Command
  <1>1. /\ TypeOK /\ Checked(r) /\ cmd[r] \in Command
        /\ pc[r] \in {"change", "remove"} /\ EndTransaction(r) /\ UNCHANGED <<owner, version>>
    BY DEF Inv, TypeOK, Command, ChangeRole, Remove, Save
  <1>2. rowLock[k] = r /\ rows[k] \in Row /\ rows[k].status # "absent" /\ rows[k].role # "owner"
    BY <1>0, <1>1 DEF TypeOK, Checked, HoldsRow, NotTheOwner
  <1>3. PICK row \in Row :
          /\ rows' = [rows EXCEPT ![k] = row]
          /\ row.user = rows[k].user /\ row.role # "owner" /\ row.version > rows[k].version
          /\ row.status \in {rows[k].status, "removed"}
          /\ row.status = "removed" <=> row.removed_by # Nobody
    <2>1. CASE ChangeRole(r)
      <3> DEFINE row == ChangedRow(rows[k], cmd[r].role)
      <3>1. row \in Row /\ row.user = rows[k].user /\ row.role = cmd[r].role
            /\ row.version = rows[k].version + 1 /\ row.status = rows[k].status
            /\ row.removed_by = rows[k].removed_by
        BY <1>1, <1>2, ChangedRowType DEF Command
      <3>2. cmd[r].role # "owner"
        BY <1>1, <2>1 DEF ChangeRole, Checked, NoOwnerGiven
      <3>3. rows' = [rows EXCEPT ![k] = row]
        BY <1>0, <1>1, <1>2, <2>1 DEF ChangeRole, Save, TypeOK
      <3>4. rows[k].version \in Nat /\ (rows[k].status = "removed" <=> rows[k].removed_by # Nobody)
        BY <1>1, <1>2 DEF TypeOK, Row
      <3> HIDE DEF row
      <3>5. row \in Row
            /\ rows' = [rows EXCEPT ![k] = row]
            /\ row.user = rows[k].user /\ row.role # "owner" /\ row.version > rows[k].version
            /\ row.status \in {rows[k].status, "removed"}
            /\ (row.status = "removed" <=> row.removed_by # Nobody)
        BY <3>1, <3>2, <3>3, <3>4
      <3>6. QED
        BY <3>5
    <2>2. CASE Remove(r)
      <3> DEFINE row == RemovedRow(rows[k], cmd[r].actor)
      <3>1. row \in Row /\ row.user = rows[k].user /\ row.role = rows[k].role
            /\ row.version = rows[k].version + 1 /\ row.status = "removed"
            /\ row.removed_by = cmd[r].actor /\ rows[k].version \in Nat
        BY <1>1, <1>2, RemovedRowType DEF Command
      <3>2. row.removed_by # Nobody
        BY <1>1, <3>1, UserAssumption DEF Command
      <3>3. rows' = [rows EXCEPT ![k] = row]
        BY <1>0, <1>1, <2>2 DEF Remove, Save, TypeOK
      <3> HIDE DEF row
      <3>4. row \in Row
            /\ rows' = [rows EXCEPT ![k] = row]
            /\ row.user = rows[k].user /\ row.role # "owner" /\ row.version > rows[k].version
            /\ row.status \in {rows[k].status, "removed"}
            /\ (row.status = "removed" <=> row.removed_by # Nobody)
        BY <1>2, <3>1, <3>2, <3>3
      <3>5. QED
        BY <3>4
    <2>3. QED
      BY <2>1, <2>2
  <1>4. rows'[k] = row /\ \A i \in Ids : i # k => rows'[i] = rows[i]
    BY <1>1, <1>3 DEF TypeOK
  <1>5. TypeOK'
    BY <1>1, <1>3, EndTransactionType DEF TypeOK
  <1>6. \A q \in Requests : Checked(q)'
    <2>1. \A i \in Ids : Evolves(i)
      BY <1>2, <1>3, <1>4 DEF Evolves
    <2>2. QED
      BY <1>1, <1>2, <1>4, <1>5, <2>1, CommitKeepsChecked
  <1>7. ExactlyOneOwner' /\ OwnerSnapshotAgrees' /\ \A i \in Ids : IsOwner(i)' <=> IsOwner(i)
    <2>1. ~IsOwner(k) /\ ~IsOwner(k)'
      BY <1>2, <1>3, <1>4 DEF IsOwner
    <2>2. \A i \in Ids : IsOwner(i)' <=> IsOwner(i)
      BY <1>4, <2>1 DEF IsOwner, IsActive
    <2>3. QED
      BY <1>1, <1>4, <2>1, <2>2, OwnersKept DEF Inv
  <1>8. OneActiveMembership'
    <2>1. \A i \in Ids : rows'[i].user = rows[i].user /\ (IsActive(i)' => IsActive(i))
      BY <1>3, <1>4 DEF IsActive
    <2>2. QED
      BY <2>1 DEF Inv, OneActiveMembership
  <1>9. QED
    BY <1>5, <1>6, <1>7, <1>8 DEF Inv

(* The commit of a transfer, and that it is a handing over.                *)
LEMMA SaveProjectInv ==
  ASSUME Inv, NEW r \in Requests, SaveProject(r), ~Rollback(r)
  PROVE  /\ Inv'
         /\ \A i, j \in Ids : IsOwner(i) /\ IsOwner(j)' /\ i # j =>
              /\ IsActive(j) /\ rows[j].role # "viewer"
              /\ IsActive(i)' /\ rows'[i].role = "admin"
              /\ version' = version + 1
  <1>0. PICK k \in Ids, c \in Ids : k = cmd[r].id /\ c = cmd[r].current
    BY DEF Inv, TypeOK, Command
  <1>1. /\ TypeOK /\ Checked(r) /\ cmd[r] \in Command
        /\ pc[r] = "save_project" /\ EndTransaction(r)
        /\ owner' = rows[k].user /\ version' = version + 1
        /\ rows' = [rows EXCEPT ![c] = ChangedRow(@, "admin"), ![k] = ChangedRow(@, "owner")]
    BY <1>0 DEF Inv, TypeOK, SaveProject, NewOwner
  <1>2. /\ k # c /\ rowLock[k] = r /\ rowLock[c] = r /\ rows[k] \in Row /\ rows[c] \in Row
        /\ rows[c].version = cmd[r].read_version
    BY <1>0, <1>1 DEF TypeOK, Checked, HoldsRow, CurrentLocked
  <1>3. IsOwner(c) /\ Eligible(rows[k])
    <2>1. ~(rows[c].version > cmd[r].read_version)
      BY <1>1, <1>2 DEF Row, Command
    <2>2. QED
      BY <1>0, <1>1, <2>1 DEF Checked, TargetChecked, CurrentRead
  <1>4. /\ rows'[c] = ChangedRow(rows[c], "admin") /\ rows'[k] = ChangedRow(rows[k], "owner")
        /\ \A i \in Ids : i # c /\ i # k => rows'[i] = rows[i]
        /\ DOMAIN rows' = Ids
    BY <1>1, <1>2 DEF TypeOK
  <1>5. /\ \A i \in {c, k} : /\ rows'[i] \in Row /\ rows'[i].user = rows[i].user
                             /\ rows'[i].status = "active" /\ rows[i].status = "active"
                             /\ rows'[i].removed_by = rows[i].removed_by
                             /\ rows'[i].version = rows[i].version + 1 /\ rows[i].version \in Nat
        /\ rows'[c].role = "admin" /\ rows'[k].role = "owner"
    <2>1. "admin" \in Roles /\ "owner" \in Roles
      BY DEF Roles
    <2>2. /\ rows'[c] \in Row /\ rows'[c].role = "admin" /\ rows'[c].user = rows[c].user
          /\ rows'[c].status = rows[c].status /\ rows'[c].removed_by = rows[c].removed_by
          /\ rows'[c].version = rows[c].version + 1 /\ rows[c].version \in Nat
      BY <1>2, <1>4, <2>1, ChangedRowType
    <2>3. /\ rows'[k] \in Row /\ rows'[k].role = "owner" /\ rows'[k].user = rows[k].user
          /\ rows'[k].status = rows[k].status /\ rows'[k].removed_by = rows[k].removed_by
          /\ rows'[k].version = rows[k].version + 1 /\ rows[k].version \in Nat
      BY <1>2, <1>4, <2>1, ChangedRowType
    <2>4. rows[c].status = "active" /\ rows[k].status = "active"
      BY <1>3 DEF IsOwner, IsActive, Eligible
    <2>5. QED
      BY <2>2, <2>3, <2>4
  <1>6. TypeOK'
    <2>1. rows' \in [Ids -> Row]
      BY <1>1, <1>4, <1>5 DEF TypeOK
    <2>2. \A i \in Ids : rows'[i].status = "removed" <=> rows'[i].removed_by # Nobody
      BY <1>1, <1>4, <1>5 DEF TypeOK
    <2>3. owner' \in Users /\ version' \in Nat
      BY <1>1, <1>2 DEF TypeOK, Row
    <2>4. QED
      BY <1>1, <2>1, <2>2, <2>3, EndTransactionType DEF TypeOK
  <1>7. \A q \in Requests : Checked(q)'
    <2>1. \A i \in Ids : Evolves(i)
      <3>1. /\ rows'[c].version > rows[c].version /\ rows'[k].version > rows[k].version
            /\ rows'[c].status # "absent" /\ rows'[k].status # "absent"
        BY <1>5
      <3>2. QED
        BY <1>4, <3>1 DEF Evolves
    <2>2. QED
      BY <1>1, <1>2, <1>4, <1>6, <2>1, CommitKeepsChecked
  <1>8. /\ \A i \in Ids : IsOwner(i) <=> i = c
        /\ \A i \in Ids : IsOwner(i)' <=> i = k
    <2>1. \A i \in Ids : IsOwner(i) <=> i = c
      BY <1>1, <1>3 DEF Inv, ExactlyOneOwner
    <2>2. \A i \in Ids : i # c /\ i # k => ~IsOwner(i)'
      BY <1>4, <2>1 DEF IsOwner, IsActive
    <2>3. ~IsOwner(c)' /\ IsOwner(k)'
      BY <1>5 DEF IsOwner, IsActive
    <2>4. QED
      BY <2>1, <2>2, <2>3
  <1>9. ExactlyOneOwner' /\ OwnerSnapshotAgrees'
    BY <1>1, <1>5, <1>8 DEF ExactlyOneOwner, OwnerSnapshotAgrees
  <1>10. OneActiveMembership'
    <2>1. \A i \in Ids : rows'[i].user = rows[i].user /\ (IsActive(i)' <=> IsActive(i))
      BY <1>4, <1>5 DEF IsActive
    <2>2. QED
      BY <2>1 DEF Inv, OneActiveMembership
  <1>11. QED
    BY <1>1, <1>3, <1>5, <1>6, <1>7, <1>8, <1>9, <1>10 DEF Inv, IsActive, Eligible

-----------------------------------------------------------------------------
LEMMA InitInv == Init => Inv
  <1> SUFFICES ASSUME Init PROVE Inv
    OBVIOUS
  <1>1. TypeOK
    BY UserAssumption, NoCommandType DEF Init, TypeOK, Row, Places, Roles
  <1>2. \A q \in Requests : Checked(q)
    BY DEF Init, Checked, HoldsRow, NotTheOwner, NoOwnerGiven, TargetChecked, CurrentRead, CurrentLocked
  <1>3. \A i \in Ids : IsActive(i) <=> i = FirstId
    BY DEF Init, IsActive
  <1>4. ExactlyOneOwner /\ OwnerSnapshotAgrees
    BY <1>3, IdAssumption DEF Init, ExactlyOneOwner, OwnerSnapshotAgrees, IsOwner
  <1>5. OneActiveMembership
    BY <1>3 DEF OneActiveMembership
  <1>6. QED
    BY <1>1, <1>2, <1>4, <1>5 DEF Inv

LEMMA StepInv == Inv /\ [Next]_vars => Inv'
  <1> SUFFICES ASSUME Inv, [Next]_vars PROVE Inv'
    OBVIOUS
  <1>1. ASSUME NEW r \in Requests, Begin(r)
        PROVE  Inv'
    BY <1>1, BeginInv
  <1>2. ASSUME NEW r \in Requests, Acquire(r)
        PROVE  Inv'
    BY <1>2, LockInv, UpdateRolesInv DEF Acquire
  <1>3. ASSUME NEW r \in Requests, Proceed(r)
        PROVE  Inv'
    BY <1>3, InsertInv, ChangeInv, SaveProjectInv, RollbackInv DEF Proceed, OwnerIndexViolated
  <1>4. ASSUME NEW r \in Requests, Crash(r)
        PROVE  Inv'
    BY <1>4, RollbackInv DEF Crash
  <1>5. CASE UNCHANGED vars
    <2>1. \A q \in Requests : Checked(q)'
      BY <1>5 DEF vars, Inv, Checked, HoldsRow, NotTheOwner, NoOwnerGiven, TargetChecked, CurrentRead,
         CurrentLocked, IsOwner, IsActive, Eligible
    <2>2. (TypeOK /\ ExactlyOneOwner /\ OwnerSnapshotAgrees /\ OneActiveMembership)'
      BY <1>5 DEF vars, Inv, TypeOK, ExactlyOneOwner, OwnerSnapshotAgrees, OneActiveMembership, IsOwner, IsActive
    <2>3. QED
      BY <2>1, <2>2 DEF Inv
  <1>6. QED
    BY <1>1, <1>2, <1>3, <1>4, <1>5 DEF Next

(* Who the owner is changes only in the commit of a transfer.              *)
LEMMA HandOverStep ==
  ASSUME Inv, [Next]_vars, NEW i \in Ids, NEW j \in Ids, IsOwner(i), IsOwner(j)', i # j
  PROVE  /\ IsActive(j) /\ rows[j].role # "viewer"
         /\ IsActive(i)' /\ rows'[i].role = "admin"
         /\ version' = version + 1
  <1>1. ~IsOwner(j)
    BY DEF Inv, ExactlyOneOwner
  <1>2. rows' # rows
    BY <1>1 DEF IsOwner, IsActive
  <1>3. PICK r \in Requests : (Insert(r) \/ ChangeRole(r) \/ Remove(r) \/ SaveProject(r)) /\ ~Rollback(r)
    BY <1>2 DEF Next, vars, Begin, BeginAdd, BeginChange, BeginTransfer, Acquire, LockChange, LockRemove,
       LockTarget, UpdateRoles, Proceed, OwnerIndexViolated, Crash, Rollback
  <1>4. ~Insert(r) /\ ~ChangeRole(r) /\ ~Remove(r)
    BY <1>1, <1>3, InsertInv, ChangeInv
  <1>5. QED
    BY <1>3, <1>4, SaveProjectInv

(* The inductive invariant: what a request checked of a row holds while it *)
(* holds the row (collaboration/service.py).                               *)
THEOREM Invariance == Spec => []Inv
  BY InitInv, StepInv, PTL DEF Spec

(* Every row of project_memberships keeps its shape; who removed a member  *)
(* is recorded exactly when the membership has ended.                      *)
THEOREM TypeCorrect == Spec => []TypeOK
  <1>1. Inv => TypeOK
    BY DEF Inv
  <1>2. QED
    BY <1>1, Invariance, PTL

(* The project never has two owners and never loses its owner, although    *)
(* transfer_owner reads the owner's row without a lock.                    *)
THEOREM OneOwner == Spec => []ExactlyOneOwner
  <1>1. Inv => ExactlyOneOwner
    BY DEF Inv
  <1>2. QED
    BY <1>1, Invariance, PTL

(* projects.owner_id and the membership rows are changed together.         *)
THEOREM OwnerSnapshot == Spec => []OwnerSnapshotAgrees
  <1>1. Inv => OwnerSnapshotAgrees
    BY DEF Inv
  <1>2. QED
    BY <1>1, Invariance, PTL

(* No user has two active memberships of the project.                      *)
THEOREM OneMembershipEach == Spec => []OneActiveMembership
  <1>1. Inv => OneActiveMembership
    BY DEF Inv
  <1>2. QED
    BY <1>1, Invariance, PTL

(* The ownership moves only by a committed transfer of its holder, to an   *)
(* active member who is not a viewer; the old owner stays as an admin.     *)
THEOREM HandOver == Spec => OwnershipHandedOver
  <1>1. Inv /\ [Next]_vars =>
          [\A i, j \in Ids : IsOwner(i) /\ IsOwner(j)' /\ i # j =>
              /\ IsActive(j) /\ rows[j].role # "viewer"
              /\ IsActive(i)' /\ rows'[i].role = "admin"
              /\ version' = version + 1]_vars
    BY HandOverStep
  <1>2. QED
    BY <1>1, Invariance, PTL DEF Spec, OwnershipHandedOver


-----------------------------------------------------------------------------
(* The test platform: what holds of the tables and of every copy.          *)

Copies == {"save", "flush", "commit"}

PlatformTypeOK ==
    /\ db \in Tables
    /\ req \in [Writers -> [pc: {"idle", "act", "done"} \cup Copies, key: Keys \cup {None},
                            image: Tables, base: Tables]]

(* The head and the scope of a plan belong together.                       *)
Frozen(p) ==
    \/ p.status \in {"draft", "canceled"} /\ p.ref = None /\ p.rows = {}
    \/ p.status # "draft" /\ p.ref \in Scopes /\ p.rows = Scope(p.ref)

(* The attempts of an execution, if any, are those of the scope of plan p, *)
(* all of them made by one request.                                        *)
Attempted(p, s) ==
    \/ s = {}
    \/ /\ RowsOf(db[p]) # {}
       /\ \E a \in Authors : s = {Attempt(a, v) : v \in Named(RowsOf(db[p]))}

(* The aggregates whose ids are made by the service.                       *)
Aggregates == Folders \cup Cases \cup Sessions \cup Plans \cup Executions

Dense(s) == IsFiniteSet(s) /\ {w.no : w \in s} = 1..Cardinality(s)

NumberedTables == Stages \cup {"versions"}

(* All but the last row is in the tables.                                  *)
AtMostLastNew(x, s) == \A w \in s : w.no < Cardinality(s) => w \in RowsOf(db[x])

(* Copies of one aggregate that a request may write back: its rows may be  *)
(* older than its head.                                                    *)
PlanCopy(x, c) ==
    \/ Frozen(c) /\ (c.rows \in {{}, RowsOf(db[x])} \/ c.status = "ready")
    \/ c.rows = {} /\ RowsOf(db[x]) # {}

ExecutionCopy(x, c) ==
    /\ c.ref \in Plans /\ db[c.ref] # None
    /\ db[x] # None => db[x].ref = c.ref
    /\ Attempted(c.ref, c.rows)
    /\ c.status = "running" => c.rows # {} \/ RowsOf(db[x]) # {}

NumberedCopy(x, c) ==
    /\ IsFiniteSet(c.rows)
    /\ \A table \in NumberedTables :
         /\ Dense(Of(c, table)) /\ AtMostLastNew(x, Of(c, table))
         /\ table \in Stages /\ c.status = Flow[table].to =>
              \E w \in c.rows \cup RowsOf(db[x]) : w.table = table

CopyOK(x, c) ==
    /\ x \in Plans => PlanCopy(x, c)
    /\ x \in Executions => ExecutionCopy(x, c)
    /\ x \in Cases \cup Sessions => NumberedCopy(x, c)

(* What the tables held at some moment.                                    *)
Earlier(x, c) ==
    /\ CopyOK(x, c) /\ db[x] # None /\ c.rows \subseteq db[x].rows
    /\ x \in Plans => Frozen(c) /\ c.rows \in {{}, db[x].rows}

(* Nobody else has an aggregate that only this request has made.           *)
MadeAlone(r) ==
    \A x \in Aggregates : req[r].image[x] # None /\ db[x] = None =>
        \A q \in Writers \ {r} : req[q].image[x] = None

CopiesOK(r) ==
    \A x \in Aggregates : req[r].image[x] # None =>
        /\ req[r].pc = "act" => Earlier(x, req[r].image[x])
        /\ req[r].pc \in Copies => CopyOK(x, req[r].image[x])

BaseOK(r) ==
    req[r].pc \in {"flush", "commit"} =>
        /\ \A x \in Things : req[r].base[x] # None => db[x] # None
        /\ \A x \in Aggregates : req[r].base[x] # None => Earlier(x, req[r].base[x])
        /\ \A x \in Aggregates : req[r].image[x] # None /\ req[r].base[x] = None => db[x] = None

(* What is flushed fits the tables, whoever commits first.                 *)
FlushHolds(r) ==
    req[r].pc = "commit" =>
        /\ \A x \in Aggregates : Unique(RowsOf(db[x]), RowsOf(req[r].image[x]))
        /\ \A x \in Plans : x \in Updates(r) /\ req[r].image[x].rows = {} => RowsOf(db[x]) = {}
        /\ \A x \in Plans : RowsOf(req[r].image[x]) # {} =>
              RowsOf(db[x]) \in {{}, RowsOf(req[r].image[x])}

FlushedApart(r, q) ==
    req[r].pc = "commit" /\ req[q].pc = "commit" =>
        /\ Updates(r) \cap Updates(q) = {}
        /\ \A x \in Aggregates : Unique(RowsOf(req[r].image[x]), RowsOf(req[q].image[x]))
        /\ \A x \in Plans : \/ {} \in {RowsOf(req[r].image[x]), RowsOf(req[q].image[x])}
                            \/ RowsOf(req[r].image[x]) = RowsOf(req[q].image[x])

PlatformInv ==
    /\ PlatformTypeOK
    /\ \A x \in Aggregates : db[x] # None => CopyOK(x, db[x])
    /\ \A r \in Writers : MadeAlone(r) /\ CopiesOK(r) /\ BaseOK(r) /\ FlushHolds(r)
    /\ \A r \in Writers, q \in Writers : r # q => FlushedApart(r, q)

-----------------------------------------------------------------------------
(* Rows that are numbered densely *)

LEMMA DenseType ==
  ASSUME NEW s, Dense(s)
  PROVE  Cardinality(s) \in Nat /\ \A w \in s : w.no \in 1..Cardinality(s)
  BY FS_CardinalityType DEF Dense

LEMMA DenseNone == Dense({})
  <1>1. {w.no : w \in {}} = {} /\ 1..0 = {}
    OBVIOUS
  <1>2. QED
    BY <1>1, FS_EmptySet DEF Dense

LEMMA DenseInjective ==
  ASSUME NEW s, Dense(s), NEW v \in s, NEW w \in s, v.no = w.no
  PROVE  v = w
  <1> DEFINE f == [u \in s |-> u.no]
             n == Cardinality(s)
  <1>1. n \in Nat /\ \A u \in s : u.no \in 1..n
    BY DenseType
  <1>2. f \in Surjection(s, 1..n)
    BY <1>1 DEF Dense, Surjection
  <1>3. Cardinality(1..n) = n
    BY <1>1, FS_Interval
  <1>4. f \in Injection(s, 1..n)
    BY <1>2, <1>3, FS_Surjection DEF Dense
  <1>5. QED
    BY <1>4 DEF Injection, IsInjective

LEMMA DenseNext ==
  ASSUME NEW s, Dense(s), NEW w, w.no = Cardinality(s) + 1
  PROVE  Dense(s \cup {w}) /\ \A v \in s \cup {w} : v.no < Cardinality(s \cup {w}) => v \in s
  <1> DEFINE n == Cardinality(s)
  <1>1. n \in Nat /\ (\A u \in s : u.no \in 1..n) /\ {u.no : u \in s} = 1..n /\ IsFiniteSet(s)
    BY DenseType DEF Dense
  <1>2. w \notin s
    BY <1>1
  <1>3. IsFiniteSet(s \cup {w}) /\ Cardinality(s \cup {w}) = n + 1
    BY <1>1, <1>2, FS_AddElement
  <1>4. {u.no : u \in s \cup {w}} = {u.no : u \in s} \cup {n + 1}
    OBVIOUS
  <1>5. 1..(n + 1) = (1..n) \cup {n + 1}
    BY <1>1
  <1>6. Dense(s \cup {w})
    BY <1>1, <1>3, <1>4, <1>5 DEF Dense
  <1>7. ASSUME NEW v \in s \cup {w}, v.no < n + 1 PROVE v \in s
    BY <1>1, <1>7
  <1>8. QED
    BY <1>3, <1>6, <1>7

(* A copy that has at most one row more than the tables: it is the next    *)
(* row, or there is another one under its number.                          *)
LEMMA DenseUnion ==
  ASSUME NEW d, Dense(d), NEW s, Dense(s), \A w \in s : w.no < Cardinality(s) => w \in d,
         \A v \in d, w \in s : v.no = w.no => v = w
  PROVE  Dense(d \cup s)
  <1> DEFINE m == Cardinality(s)
             n == Cardinality(d)
  <1>1. /\ m \in Nat /\ (\A u \in s : u.no \in 1..m) /\ {u.no : u \in s} = 1..m
        /\ n \in Nat /\ (\A u \in d : u.no \in 1..n) /\ {u.no : u \in d} = 1..n
    BY DenseType DEF Dense
  <1>2. CASE s \subseteq d
    <2>1. d \cup s = d
      BY <1>2
    <2>2. QED
      BY <2>1
  <1>3. ASSUME NEW w \in s, w \notin d PROVE Dense(d \cup s)
    <2>1. w.no = m
      BY <1>1, <1>3
    <2>2. n < m
      <3>1. ASSUME m <= n PROVE FALSE
        <4>1. m \in {u.no : u \in d}
          BY <1>1, <1>3, <2>1, <3>1
        <4>2. PICK v \in d : v.no = m
          BY <4>1
        <4>3. QED
          BY <1>3, <2>1, <4>2
      <3>2. QED
        BY <1>1, <3>1
    <2>3. m - 1 <= n
      <3>1. CASE m = 1
        BY <1>1, <3>1
      <3>2. ASSUME m # 1 PROVE m - 1 <= n
        <4>1. m - 1 \in {u.no : u \in s}
          BY <1>1, <1>3, <2>1, <3>2
        <4>2. PICK v \in s : v.no = m - 1
          BY <4>1
        <4>3. v \in d
          BY <1>1, <4>2
        <4>4. QED
          BY <1>1, <4>2, <4>3
      <3>3. QED
        BY <3>1, <3>2
    <2>4. s \subseteq d \cup {w}
      <3>1. ASSUME NEW u \in s, u \notin d PROVE u = w
        <4>1. u.no = m
          BY <1>1, <3>1
        <4>2. QED
          BY <1>3, <2>1, <4>1, DenseInjective
      <3>2. QED
        BY <3>1
    <2>5. d \cup s = d \cup {w}
      BY <1>3, <2>4
    <2>6. w.no = Cardinality(d) + 1
      BY <1>1, <2>1, <2>2, <2>3
    <2>7. Dense(d \cup {w})
      BY <2>6, DenseNext
    <2>8. QED
      BY <2>5, <2>7
  <1>4. QED
    BY <1>2, <1>3

-----------------------------------------------------------------------------
(* Aggregates and their copies *)

LEMMA KindFacts ==
  /\ Aggregates \subseteq Things
  /\ \A x \in Aggregates : x \notin Ingestions
  /\ \A x \in Plans : x \in Aggregates /\ x \notin Folders \cup Cases \cup Sessions \cup Executions
  /\ \A x \in Executions : x \in Aggregates /\ x \notin Folders \cup Cases \cup Sessions \cup Plans
  /\ \A x \in Cases \cup Sessions : x \in Aggregates /\ x \notin Folders \cup Plans \cup Executions
  BY KindsApart DEF Aggregates, Things

LEMMA FlowFacts ==
  /\ Stages = {"analysis", "design", "cases"}
  /\ Flow["analysis"].to = "analysis_review" /\ Flow["design"].to = "design_review" /\ Flow["cases"].to = "cases_review"
  /\ \A s \in Stages, t \in Stages : Flow[s].to = Flow[t].to => s = t
  /\ \A s \in Stages : Flow[s].to \in Statuses
  <1>1. Stages = {"analysis", "design", "cases"}
    BY DEF Stages, Flow
  <1>2. Flow["analysis"].to = "analysis_review" /\ Flow["design"].to = "design_review" /\ Flow["cases"].to = "cases_review"
    BY DEF Flow
  <1>3. \A s \in Stages, t \in Stages : Flow[s].to = Flow[t].to => s = t
    BY <1>1, <1>2
  <1>4. QED
    BY <1>1, <1>2, <1>3 DEF Statuses

LEMMA NameFacts ==
  /\ None \notin Thing /\ None \notin Things /\ None \notin Authors /\ None \notin Scopes
  /\ \A r \in Writers : r \in Authors
  /\ \A table \in NumberedTables : table \notin {"gates", "scope", "attempts", "results"}
  /\ \A table \in Stages : Flow[table].to \notin {"draft", "active"}
  BY PlatformNames DEF Authors, NumberedTables, Stages, Flow

LEMMA UniqueSymmetric ==
  ASSUME NEW s, NEW t, Unique(s, t)
  PROVE  Unique(t, s)
  BY DEF Unique, SameKey

(* A scope has items, the first of them under number 1.                    *)
LEMMA ScopeFacts ==
  ASSUME NEW items \in Scopes
  PROVE  /\ items # None /\ Scope(items) \in SUBSET Child /\ IsFiniteSet(Scope(items))
         /\ \E w \in Scope(items) : w.table = "scope" /\ w.no = 1
         /\ \A w \in Scope(items) : w.of \in Items
  <1>1. items \in Seq(Items) /\ items # <<>> /\ items # None
    BY ItemsInScope, NameFacts
  <1>2. Len(items) \in Nat /\ DOMAIN items = 1..Len(items) /\ 1 \in DOMAIN items
    BY <1>1
  <1>3. \A n \in DOMAIN items : n \in Nat /\ items[n] \in Items
    BY <1>1, <1>2
  <1> DEFINE row(n) == [table |-> "scope", no |-> n, by |-> None, of |-> items[n]]
  <1>4. \A n \in DOMAIN items : row(n) \in Child
    BY <1>3 DEF Child
  <1>5. Scope(items) = {row(n) : n \in DOMAIN items}
    BY DEF Scope
  <1>6. IsFiniteSet({row(n) : n \in DOMAIN items})
    <2> DEFINE f == [n \in DOMAIN items |-> row(n)]
               S == {row(n) : n \in DOMAIN items}
    <2>1. IsFiniteSet(DOMAIN items)
      BY <1>2, FS_Interval
    <2>2. f \in Surjection(DOMAIN items, S)
      BY DEF Surjection
    <2> HIDE DEF f, S
    <2>3. IsFiniteSet(S)
      BY <2>1, <2>2, FS_Surjection
    <2>4. QED
      BY <2>3 DEF S
  <1>7. row(1) \in Scope(items) /\ row(1).table = "scope" /\ row(1).no = 1
    BY <1>2, <1>5
  <1>8. \A w \in Scope(items) : w \in Child /\ w.of \in Items
    BY <1>3, <1>4, <1>5
  <1> HIDE DEF row
  <1>9. QED
    BY <1>1, <1>5, <1>6, <1>7, <1>8

(* What the tables hold may be written back.                               *)
LEMMA StoredFacts ==
  ASSUME PlatformInv, NEW x \in Aggregates, db[x] # None
  PROVE  /\ db[x] \in Thing /\ RowsOf(db[x]) = db[x].rows
         /\ x \in Plans => Frozen(db[x])
         /\ x \in Executions => ExecutionCopy(x, db[x])
         /\ x \in Cases \cup Sessions => NumberedCopy(x, db[x])
         /\ Earlier(x, db[x])
  <1>1. db[x] \in Thing /\ RowsOf(db[x]) = db[x].rows /\ CopyOK(x, db[x])
    BY KindFacts DEF PlatformInv, PlatformTypeOK, Tables, RowsOf
  <1>2. x \in Plans => Frozen(db[x])
    BY <1>1 DEF CopyOK, PlanCopy
  <1>3. QED
    BY <1>1, <1>2 DEF CopyOK, Earlier

(* Whose scope is not there has none.                                      *)
LEMMA FrozenFacts ==
  ASSUME NEW p, Frozen(p)
  PROVE  /\ p.rows = {} <=> p.ref = None
         /\ p.rows # {} => p.ref \in Scopes /\ p.rows = Scope(p.ref) /\ p.status # "draft"
         /\ p.rows = {} => p.status \in {"draft", "canceled"}
  <1>1. \A items \in Scopes : items # None /\ Scope(items) # {}
    BY ScopeFacts
  <1>2. QED
    BY <1>1 DEF Frozen

(* A copy of an earlier moment with the head of now.                       *)
LEMMA LoadedCopy ==
  ASSUME PlatformInv, NEW x \in Aggregates, db[x] # None, NEW old \in SUBSET Child,
         old = {} \/ \E c : Earlier(x, c) /\ old = c.rows
  PROVE  CopyOK(x, [db[x] EXCEPT !.rows = old])
  <1> DEFINE y == [db[x] EXCEPT !.rows = old]
  <1>1. /\ db[x] \in Thing /\ RowsOf(db[x]) = db[x].rows /\ old \subseteq db[x].rows
        /\ y.status = db[x].status /\ y.ref = db[x].ref /\ y.rows = old
    BY StoredFacts DEF Earlier, Thing
  <1> HIDE DEF y
  <1>2. x \in Plans => PlanCopy(x, y)
    <2>1. SUFFICES ASSUME x \in Plans PROVE PlanCopy(x, y)
      OBVIOUS
    <2>2. CASE db[x].rows = {}
      <3>1. old = {} /\ Frozen(db[x]) /\ db[x].rows = old
        BY <1>1, <2>1, <2>2, StoredFacts
      <3>2. Frozen(y)
        BY <1>1, <3>1 DEF Frozen
      <3>3. QED
        BY <1>1, <3>1, <3>2 DEF PlanCopy
    <2>3. CASE old = {} /\ db[x].rows # {}
      BY <1>1, <2>3 DEF PlanCopy
    <2>4. CASE old # {}
      <3>1. Frozen(db[x])
        BY <2>1, StoredFacts
      <3>2. old \in {{}, db[x].rows}
        BY <2>1, <2>4 DEF Earlier
      <3>3. old = db[x].rows
        BY <2>4, <3>2
      <3>4. Frozen(y)
        BY <1>1, <3>1, <3>3 DEF Frozen
      <3>5. QED
        BY <1>1, <3>3, <3>4 DEF PlanCopy
    <2>5. QED
      BY <2>2, <2>3, <2>4
  <1>3. ASSUME x \in Executions PROVE ExecutionCopy(x, y)
    <2>1. ExecutionCopy(x, db[x])
      BY <1>3, StoredFacts
    <2>2. Attempted(db[x].ref, old)
      <3>1. CASE old = {}
        BY <3>1 DEF Attempted
      <3>2. ASSUME NEW c, Earlier(x, c), old = c.rows PROVE Attempted(db[x].ref, old)
        BY <1>3, <3>2 DEF Earlier, CopyOK, ExecutionCopy
      <3>3. QED
        BY <3>1, <3>2
    <2>3. QED
      BY <1>1, <2>1, <2>2 DEF ExecutionCopy
  <1>4. ASSUME x \in Cases \cup Sessions PROVE NumberedCopy(x, y)
    <2>1. NumberedCopy(x, db[x])
      BY <1>4, StoredFacts
    <2>2. ASSUME NEW table \in NumberedTables PROVE Dense(Of(y, table)) /\ AtMostLastNew(x, Of(y, table))
      <3>1. AtMostLastNew(x, Of(y, table))
        BY <1>1 DEF AtMostLastNew, Of
      <3>2. CASE old = {}
        <4>1. Of(y, table) = {}
          BY <1>1, <3>2 DEF Of
        <4>2. QED
          BY <3>1, <4>1, DenseNone
      <3>3. ASSUME NEW c, Earlier(x, c), old = c.rows PROVE Dense(Of(y, table))
        <4>1. Of(y, table) = Of(c, table)
          BY <1>1, <3>3 DEF Of
        <4>2. QED
          BY <1>4, <3>3, <4>1 DEF Earlier, CopyOK, NumberedCopy
      <3>4. QED
        BY <3>1, <3>2, <3>3
    <2>3. ASSUME NEW table \in Stages, y.status = Flow[table].to
          PROVE  \E w \in y.rows \cup RowsOf(db[x]) : w.table = table
      BY <1>1, <2>1, <2>3 DEF NumberedCopy, NumberedTables
    <2>4. IsFiniteSet(y.rows)
      <3>1. \A c : Earlier(x, c) => IsFiniteSet(c.rows)
        BY <1>4 DEF Earlier, CopyOK, NumberedCopy
      <3>2. QED
        BY <1>1, <3>1, FS_EmptySet
    <2>5. QED
      BY <2>2, <2>3, <2>4 DEF NumberedCopy
  <1>5. QED
    BY <1>2, <1>3, <1>4 DEF CopyOK, y

-----------------------------------------------------------------------------
(* A step of one request that leaves the tables *)

LEMMA TablesKept ==
  ASSUME db' = db
  PROVE  /\ \A x, c : CopyOK(x, c)' = CopyOK(x, c)
         /\ \A x, c : Earlier(x, c)' = Earlier(x, c)
  <1>1. \A x, c : CopyOK(x, c)' = CopyOK(x, c)
    BY DEF CopyOK, PlanCopy, ExecutionCopy, NumberedCopy, Attempted, AtMostLastNew
  <1>2. QED
    BY <1>1 DEF Earlier

Request == [pc: {"idle", "act", "done"} \cup Copies, key: Keys \cup {None}, image: Tables, base: Tables]

LEMMA OwnStep ==
  ASSUME PlatformInv, NEW r \in Writers, NEW w \in Request, req' = [req EXCEPT ![r] = w], db' = db,
         CopiesOK(r)', BaseOK(r)', FlushHolds(r)', MadeAlone(r)',
         \A q \in Writers \ {r} : FlushedApart(r, q)',
         \A q \in Writers \ {r}, x \in Aggregates :
            w.image[x] # None /\ db[x] = None => req[q].image[x] = None
  PROVE  PlatformInv'
  <1>1. PlatformTypeOK'
    BY DEF PlatformInv, PlatformTypeOK, Request
  <1>2. (\A x \in Aggregates : db[x] # None => CopyOK(x, db[x]))'
    BY TablesKept DEF PlatformInv
  <1>3. req'[r] = w /\ \A q \in Writers \ {r} : req'[q] = req[q]
    BY DEF PlatformInv, PlatformTypeOK
  <1>4. ASSUME NEW q \in Writers \ {r}
        PROVE  (MadeAlone(q) /\ CopiesOK(q) /\ BaseOK(q) /\ FlushHolds(q))'
    <2>1. MadeAlone(q) /\ CopiesOK(q) /\ BaseOK(q) /\ FlushHolds(q) /\ req'[q] = req[q]
      BY <1>3 DEF PlatformInv
    <2>2. CopiesOK(q)' /\ BaseOK(q)'
      BY <2>1, TablesKept DEF CopiesOK, BaseOK
    <2>3. FlushHolds(q)'
      BY <2>1 DEF FlushHolds, Updates
    <2>4. MadeAlone(q)'
      BY <1>3, <2>1 DEF MadeAlone
    <2>5. QED
      BY <2>2, <2>3, <2>4
  <1>5. ASSUME NEW p \in Writers, NEW q \in Writers, p # q PROVE FlushedApart(p, q)'
    <2>1. CASE p = r
      BY <1>5, <2>1
    <2>2. CASE q = r
      <3>1. FlushedApart(r, p)'
        BY <1>5, <2>2
      <3>2. QED
        BY <2>2, <3>1, UniqueSymmetric DEF FlushedApart
    <2>3. CASE p # r /\ q # r
      <3>1. FlushedApart(p, q) /\ req'[p] = req[p] /\ req'[q] = req[q]
        BY <1>3, <1>5, <2>3 DEF PlatformInv
      <3>2. QED
        BY <3>1 DEF FlushedApart, Updates
    <2>4. QED
      BY <2>1, <2>2, <2>3
  <1>6. QED
    BY <1>1, <1>2, <1>4, <1>5 DEF PlatformInv

LEMMA IdleType == Idle \in Request /\ \A x \in Things : Idle.image[x] = None /\ Idle.base[x] = None
  BY DEF Idle, NoImage, Tables, Request, Copies

LEMMA EnterInv ==
  ASSUME PlatformInv, NEW r \in Writers, Enter(r)
  PROVE  PlatformInv'
  <1>1. PICK key \in Keys : req' = [req EXCEPT ![r] = [Idle EXCEPT !.pc = "act", !.key = key, !.image = db]]
    BY DEF Enter
  <1> DEFINE w == [Idle EXCEPT !.pc = "act", !.key = key, !.image = db]
  <1>2. w \in Request /\ w.pc = "act" /\ w.image = db
    BY IdleType DEF Request, PlatformInv, PlatformTypeOK
  <1>3. req' = [req EXCEPT ![r] = w]
    BY <1>1
  <1> HIDE DEF w
  <1>4. db' = db /\ req'[r] = w
    BY <1>3 DEF Enter, PlatformInv, PlatformTypeOK
  <1>5. CopiesOK(r)'
    BY <1>2, <1>4, StoredFacts, TablesKept DEF CopiesOK, Copies
  <1>6. BaseOK(r)' /\ FlushHolds(r)' /\ \A q \in Writers : FlushedApart(r, q)'
    BY <1>2, <1>4 DEF BaseOK, FlushHolds, FlushedApart
  <1>7. MadeAlone(r)'
    BY <1>2, <1>4 DEF MadeAlone
  <1>8. QED
    BY <1>2, <1>3, <1>4, <1>5, <1>6, <1>7, OwnStep

LEMMA RefuseInv ==
  ASSUME PlatformInv, NEW r \in Writers, Refuse(r)
  PROVE  PlatformInv'
  <1> DEFINE w == [Idle EXCEPT !.pc = "done"]
  <1>1. w \in Request /\ w.pc = "done" /\ \A x \in Things : w.image[x] = None
    BY IdleType DEF Request
  <1>2. req' = [req EXCEPT ![r] = w] /\ db' = db
    BY DEF Refuse, Done
  <1> HIDE DEF w
  <1>3. req'[r] = w
    BY <1>2 DEF PlatformInv, PlatformTypeOK
  <1>4. CopiesOK(r)' /\ MadeAlone(r)'
    BY <1>1, <1>3, KindFacts DEF CopiesOK, MadeAlone
  <1>5. BaseOK(r)' /\ FlushHolds(r)' /\ \A q \in Writers : FlushedApart(r, q)'
    BY <1>1, <1>3 DEF BaseOK, FlushHolds, FlushedApart
  <1>6. QED
    BY <1>1, <1>2, <1>4, <1>5, KindFacts, OwnStep

LEMMA SelectInv ==
  ASSUME PlatformInv, NEW r \in Writers, Select(r)
  PROVE  PlatformInv'
  <1> DEFINE w == [req[r] EXCEPT !.pc = "flush", !.base = db]
  <1>1. /\ w \in Request /\ w.pc = "flush" /\ w.base = db /\ w.image = req[r].image
        /\ req[r].pc = "save"
    BY DEF Select, Request, PlatformInv, PlatformTypeOK, Copies
  <1>2. req' = [req EXCEPT ![r] = w] /\ db' = db
    BY DEF Select
  <1> HIDE DEF w
  <1>3. req'[r] = w
    BY <1>2 DEF PlatformInv, PlatformTypeOK
  <1>4. CopiesOK(r)'
    BY <1>1, <1>2, <1>3, TablesKept DEF CopiesOK, PlatformInv, Copies
  <1>5. BaseOK(r)'
    BY <1>1, <1>2, <1>3, StoredFacts, TablesKept DEF BaseOK
  <1>6. FlushHolds(r)' /\ \A q \in Writers : FlushedApart(r, q)'
    BY <1>1, <1>3 DEF FlushHolds, FlushedApart
  <1>7. MadeAlone(r)'
    <2>1. MadeAlone(r) /\ \A q \in Writers \ {r} : req'[q] = req[q]
      BY <1>2 DEF PlatformInv, PlatformTypeOK
    <2>2. QED
      BY <1>1, <1>2, <1>3, <2>1 DEF MadeAlone
  <1>8. \A q \in Writers \ {r}, x \in Aggregates : w.image[x] # None /\ db[x] = None => req[q].image[x] = None
    BY <1>1 DEF PlatformInv, MadeAlone
  <1>9. QED
    BY <1>1, <1>2, <1>4, <1>5, <1>6, <1>7, <1>8, OwnStep

LEMMA FlushInv ==
  ASSUME PlatformInv, NEW r \in Writers, Flush(r)
  PROVE  PlatformInv'
  <1> DEFINE own == [req[r] EXCEPT !.pc = "commit"]
  <1>1. /\ own \in Request /\ own.pc = "commit" /\ own.base = req[r].base /\ own.image = req[r].image
        /\ req[r].pc = "flush" /\ Free(r) /\ Insertable(r)
    BY DEF Flush, Request, PlatformInv, PlatformTypeOK, Copies
  <1>2. req' = [req EXCEPT ![r] = own] /\ db' = db
    BY DEF Flush
  <1> HIDE DEF own
  <1>3. req'[r] = own /\ \A q \in Writers \ {r} : req'[q] = req[q]
    BY <1>2 DEF PlatformInv, PlatformTypeOK
  <1>4. CopiesOK(r)'
    BY <1>1, <1>2, <1>3, TablesKept DEF CopiesOK, PlatformInv, Copies
  <1>5. BaseOK(r)'
    BY <1>1, <1>2, <1>3, TablesKept DEF BaseOK, PlatformInv
  <1>6. Updates(r)' = Updates(r)
    BY <1>1, <1>3 DEF Updates
  <1>7. FlushHolds(r)'
    <2>1. \A x \in Aggregates : Unique(RowsOf(db[x]), RowsOf(req[r].image[x]))
      BY <1>1, KindFacts DEF Insertable
    <2>2. ASSUME NEW x \in Plans, x \in Updates(r), req[r].image[x].rows = {} PROVE RowsOf(db[x]) = {}
      BY <1>1, <2>2 DEF Insertable, ScopeAgrees, Updates, RowsOf
    <2>3. ASSUME NEW x \in Plans, RowsOf(req[r].image[x]) # {}
          PROVE  RowsOf(db[x]) \in {{}, RowsOf(req[r].image[x])}
      BY <1>1, <2>3 DEF Insertable, ScopeAgrees, RowsOf
    <2>4. QED
      BY <1>1, <1>2, <1>3, <1>6, <2>1, <2>2, <2>3 DEF FlushHolds
  <1>8. ASSUME NEW q \in Writers \ {r} PROVE FlushedApart(r, q)'
    <2>1. Updates(q)' = Updates(q)
      BY <1>3 DEF Updates
    <2>2. SUFFICES ASSUME req[q].pc = "commit"
                   PROVE  /\ Updates(r) \cap Updates(q) = {}
                          /\ \A x \in Aggregates : Unique(RowsOf(req[r].image[x]), RowsOf(req[q].image[x]))
                          /\ \A x \in Plans : \/ {} \in {RowsOf(req[r].image[x]), RowsOf(req[q].image[x])}
                                              \/ RowsOf(req[r].image[x]) = RowsOf(req[q].image[x])
      BY <1>1, <1>3, <1>6, <2>1 DEF FlushedApart
    <2>3. /\ Updates(q) \cap Updates(r) = {} /\ FlushHolds(q) /\ CopiesOK(q) /\ CopiesOK(r)
          /\ \A x \in Things : \A v \in Added(q, x), w \in Added(r, x) : ~SameKey(v, w)
      BY <1>1, <2>2 DEF Free, PlatformInv
    <2>4. ASSUME NEW x \in Aggregates PROVE Unique(RowsOf(req[r].image[x]), RowsOf(req[q].image[x]))
      <3>1. x \in Things /\ Unique(RowsOf(db[x]), RowsOf(req[r].image[x])) /\ Unique(RowsOf(db[x]), RowsOf(req[q].image[x]))
        BY <1>1, <2>2, <2>3, KindFacts DEF Insertable, FlushHolds
      <3>2. ASSUME NEW v \in RowsOf(req[r].image[x]), NEW w \in RowsOf(req[q].image[x]), SameKey(v, w)
            PROVE  v = w
        <4>1. CASE v \in RowsOf(db[x])
          BY <3>1, <3>2, <4>1 DEF Unique
        <4>2. CASE w \in RowsOf(db[x])
          BY <3>1, <3>2, <4>2, UniqueSymmetric DEF Unique
        <4>3. CASE v \notin RowsOf(db[x]) /\ w \notin RowsOf(db[x])
          <5>1. v \in Added(r, x) /\ w \in Added(q, x) /\ SameKey(w, v)
            BY <3>2, <4>3 DEF Added, SameKey
          <5>2. QED
            BY <2>3, <3>1, <5>1
        <4>4. QED
          BY <4>1, <4>2, <4>3
      <3>3. QED
        BY <3>2 DEF Unique
    <2>5. ASSUME NEW x \in Plans, RowsOf(req[r].image[x]) # {}, RowsOf(req[q].image[x]) # {}
          PROVE  RowsOf(req[r].image[x]) = RowsOf(req[q].image[x])
      <3>1. x \in Aggregates /\ x \in Things
        BY KindFacts
      <3>2. /\ RowsOf(db[x]) \in {{}, RowsOf(req[r].image[x])}
            /\ RowsOf(db[x]) \in {{}, RowsOf(req[q].image[x])}
        BY <1>1, <2>2, <2>3, <2>5 DEF Insertable, ScopeAgrees, FlushHolds, RowsOf
      <3>3. ASSUME RowsOf(db[x]) = {} PROVE FALSE
        <4>1. /\ PlanCopy(x, req[r].image[x]) /\ RowsOf(req[r].image[x]) = req[r].image[x].rows
              /\ PlanCopy(x, req[q].image[x]) /\ RowsOf(req[q].image[x]) = req[q].image[x].rows
          BY <1>1, <2>2, <2>3, <2>5, <3>1 DEF CopiesOK, CopyOK, Copies, RowsOf
        <4>2. /\ req[r].image[x].ref \in Scopes /\ req[r].image[x].rows = Scope(req[r].image[x].ref)
              /\ req[q].image[x].ref \in Scopes /\ req[q].image[x].rows = Scope(req[q].image[x].ref)
          BY <2>5, <4>1, FrozenFacts DEF PlanCopy
        <4>3. PICK v \in req[r].image[x].rows, w \in req[q].image[x].rows :
                v.table = "scope" /\ v.no = 1 /\ w.table = "scope" /\ w.no = 1
          BY <4>2, ScopeFacts
        <4>4. v \in Added(r, x) /\ w \in Added(q, x) /\ SameKey(w, v)
          BY <3>3, <4>1, <4>3 DEF Added, SameKey
        <4>5. QED
          BY <2>3, <3>1, <4>4
      <3>4. QED
        BY <3>2, <3>3
    <2>6. QED
      BY <2>3, <2>4, <2>5
  <1>9. MadeAlone(r)' /\ \A q \in Writers \ {r}, x \in Aggregates : own.image[x] # None /\ db[x] = None => req[q].image[x] = None
    <2>1. MadeAlone(r)
      BY DEF PlatformInv
    <2>2. QED
      BY <1>1, <1>2, <1>3, <2>1 DEF MadeAlone
  <1>10. QED
    BY <1>1, <1>2, <1>4, <1>5, <1>7, <1>8, <1>9, OwnStep

(* What the services work on.                                              *)
LEMMA LoadedFacts ==
  ASSUME PlatformInv, NEW r \in Writers, req[r].pc = "act"
  PROVE  /\ Loaded(r) \in Tables
         /\ \A x \in Things : Loaded(r)[x] # None <=> db[x] # None
         /\ \A x \in Things : db[x] # None =>
              Loaded(r)[x].status = db[x].status /\ Loaded(r)[x].version = db[x].version /\ Loaded(r)[x].ref = db[x].ref
         /\ \A x \in Aggregates : db[x] # None =>
              CopyOK(x, Loaded(r)[x]) /\ Loaded(r)[x].rows \subseteq db[x].rows
         /\ \A x \in Plans : db[x] # None => Loaded(r)[x].rows \in {{}, db[x].rows}
  <1> DEFINE old(x) == IF req[r].image[x] = None THEN {} ELSE req[r].image[x].rows
  <1>1. ASSUME NEW x \in Things
        PROVE  /\ Loaded(r)[x] = IF db[x] = None THEN None ELSE [db[x] EXCEPT !.rows = old(x)]
               /\ old(x) \in SUBSET Child /\ db[x] \in Thing \cup {None}
    BY DEF Loaded, PlatformInv, PlatformTypeOK, Tables, Thing
  <1>2. ASSUME NEW x \in Things, db[x] # None
        PROVE  /\ Loaded(r)[x] \in Thing /\ Loaded(r)[x] # None /\ Loaded(r)[x].rows = old(x)
               /\ Loaded(r)[x].status = db[x].status /\ Loaded(r)[x].version = db[x].version
               /\ Loaded(r)[x].ref = db[x].ref
    <2> HIDE DEF old
    <2>1. db[x] \in Thing /\ Loaded(r)[x] = [db[x] EXCEPT !.rows = old(x)] /\ old(x) \in SUBSET Child
      BY <1>1, <1>2
    <2>2. QED
      BY <2>1, NameFacts DEF Thing
  <1>3. Loaded(r) \in Tables
    <2>1. \A x \in Things : Loaded(r)[x] \in Thing \cup {None}
      BY <1>1, <1>2
    <2>2. QED
      BY <2>1 DEF Loaded, Tables
  <1>4. ASSUME NEW x \in Aggregates, db[x] # None
        PROVE  CopyOK(x, Loaded(r)[x]) /\ Loaded(r)[x].rows \subseteq db[x].rows
    <2>1. x \in Things
      BY KindFacts
    <2>2. old(x) = {} \/ \E c : Earlier(x, c) /\ old(x) = c.rows
      BY DEF PlatformInv, CopiesOK
    <2>3. CopyOK(x, [db[x] EXCEPT !.rows = old(x)])
      BY <1>1, <1>4, <2>1, <2>2, LoadedCopy
    <2>4. QED
      BY <1>1, <1>2, <1>4, <2>1, <2>2, <2>3 DEF Earlier
  <1>5. ASSUME NEW x \in Plans, db[x] # None PROVE Loaded(r)[x].rows \in {{}, db[x].rows}
    <2>1. x \in Things /\ x \in Aggregates
      BY KindFacts
    <2>2. req[r].image[x] # None => req[r].image[x].rows \in {{}, db[x].rows}
      BY <1>5, <2>1 DEF PlatformInv, CopiesOK, Earlier
    <2>3. QED
      BY <1>2, <1>5, <2>1, <2>2
  <1>6. QED
    BY <1>1, <1>2, <1>3, <1>4, <1>5

(* Whatever a service does to one aggregate.                               *)
LEMMA ImageChanged ==
  ASSUME PlatformInv, NEW r \in Writers, NEW x \in Things, NEW y \in Thing, Change(r, x, y),
         x \in Aggregates => CopyOK(x, y) /\ (db[x] # None \/ Fresh(x))
  PROVE  PlatformInv'
  <1> DEFINE w == [req[r] EXCEPT !.pc = "save", !.image = [Loaded(r) EXCEPT ![x] = y]]
  <1>1. req[r].pc = "act" /\ req' = [req EXCEPT ![r] = w] /\ db' = db
    BY DEF Change
  <1>2. w \in Request /\ w.pc = "save" /\ w.image = [Loaded(r) EXCEPT ![x] = y]
    BY <1>1, LoadedFacts DEF Request, PlatformInv, PlatformTypeOK, Copies, Tables
  <1>3. w.image[x] = y /\ \A z \in Things \ {x} : w.image[z] = Loaded(r)[z]
    BY <1>1, <1>2, LoadedFacts DEF Tables
  <1> HIDE DEF w
  <1>4. req'[r] = w /\ \A q \in Writers \ {r} : req'[q] = req[q]
    BY <1>1 DEF PlatformInv, PlatformTypeOK
  <1>5. \A z \in Aggregates : w.image[z] # None => CopyOK(z, w.image[z])
    BY <1>1, <1>3, LoadedFacts, KindFacts
  <1>6. CopiesOK(r)'
    <2>1. ASSUME NEW z \in Aggregates, req'[r].image[z] # None PROVE CopyOK(z, req[r].image[z])'
      <3>1. CopyOK(z, req'[r].image[z])
        BY <1>4, <1>5, <2>1
      <3>2. QED
        BY <1>1, <3>1, TablesKept
    <2>2. req'[r].pc # "act"
      BY <1>2, <1>4
    <2>3. QED
      BY <2>1, <2>2 DEF CopiesOK
  <1>7. BaseOK(r)' /\ FlushHolds(r)' /\ \A q \in Writers : FlushedApart(r, q)'
    BY <1>2, <1>4 DEF BaseOK, FlushHolds, FlushedApart
  <1>8. \A q \in Writers \ {r}, z \in Aggregates : w.image[z] # None /\ db[z] = None => req[q].image[z] = None
    BY <1>1, <1>3, LoadedFacts, KindFacts DEF Fresh
  <1>9. MadeAlone(r)'
    BY <1>1, <1>4, <1>8 DEF MadeAlone
  <1>10. QED
    BY <1>1, <1>2, <1>6, <1>7, <1>8, <1>9, OwnStep

-----------------------------------------------------------------------------
(* The services *)

LEMMA MovedFacts ==
  ASSUME NEW c, NEW status, NEW ref, NEW s
  PROVE  /\ Moved(c, status, ref, s).status = status /\ Moved(c, status, ref, s).ref = ref
         /\ Moved(c, status, ref, s).rows = s /\ Moved(c, status, ref, s).version = c.version + 1
         /\ New(status, ref).status = status /\ New(status, ref).ref = ref
         /\ New(status, ref).rows = {} /\ New(status, ref).version = 1
  BY DEF Moved, New

LEMMA MovedType ==
  ASSUME NEW c \in Thing, NEW status \in Statuses, NEW ref \in Things \cup Authors \cup Scopes \cup {None},
         NEW s \in SUBSET Child
  PROVE  Moved(c, status, ref, s) \in Thing /\ New(status, ref) \in Thing
  BY DEF Moved, New, Thing

(* What At finds is in the tables.                                         *)
LEMMA FoundFacts ==
  ASSUME PlatformInv, NEW r \in Writers, req[r].pc = "act", NEW ids \in SUBSET Things, NEW x \in At(r, ids)
  PROVE  /\ x \in ids /\ x \in Things /\ db[x] # None /\ Loaded(r)[x] \in Thing
         /\ Loaded(r)[x].status = db[x].status /\ Loaded(r)[x].ref = db[x].ref
         /\ x \in Aggregates => CopyOK(x, Loaded(r)[x]) /\ Loaded(r)[x].rows \subseteq db[x].rows
  BY LoadedFacts DEF At, Tables

LEMMA CreatedInv ==
  ASSUME PlatformInv, NEW r \in Writers, NEW x \in Folders \cup Cases \cup Sessions \cup Plans, Fresh(x),
         NEW ref \in Things \cup {None}, NEW status, status = "active" \/ status = "draft",
         x \in Plans => ref = None /\ status = "draft", Change(r, x, New(status, ref))
  PROVE  PlatformInv'
  <1> DEFINE y == New(status, ref)
  <1>1. y \in Thing /\ y.status = status /\ y.ref = ref /\ y.rows = {}
    <2>1. status \in Statuses
      BY DEF Statuses
    <2>2. QED
      BY <2>1, MovedFacts, MovedType DEF New, Thing
  <1>2. x \in Things /\ Change(r, x, y)
    BY DEF Things
  <1> HIDE DEF y
  <1>3. x \in Plans => PlanCopy(x, y)
    BY <1>1 DEF PlanCopy, Frozen
  <1>4. NumberedCopy(x, y)
    <2>1. \A table : Of(y, table) = {}
      BY <1>1 DEF Of
    <2>2. \A table \in Stages : Flow[table].to # y.status
      BY <1>1, NameFacts
    <2>3. QED
      BY <1>1, <2>1, <2>2, DenseNone, FS_EmptySet DEF NumberedCopy, AtMostLastNew
  <1>5. x \notin Executions
    BY KindsApart
  <1>6. CopyOK(x, y)
    BY <1>3, <1>4, <1>5 DEF CopyOK
  <1>7. QED
    BY <1>1, <1>2, <1>6, ImageChanged

LEMMA FolderInv ==
  ASSUME PlatformInv, NEW r \in Writers, FolderRoutes(r)
  PROVE  PlatformInv'
  <1>1. CASE CreateFolder(r)
    <2>1. PICK x \in Folders, parent \in At(r, Folders) \cup {None} :
             Fresh(x) /\ Change(r, x, New("active", parent))
      BY <1>1 DEF CreateFolder
    <2>2. parent \in Things \cup {None} /\ x \notin Plans
      BY KindsApart DEF At, Things
    <2>3. QED
      BY <2>1, <2>2, CreatedInv
  <1>2. CASE MoveFolder(r)
    <2>1. PICK x \in At(r, Folders), target \in At(r, Folders) \cup {None} :
             Change(r, x, Moved(Loaded(r)[x], Loaded(r)[x].status, target, Loaded(r)[x].rows))
      BY <1>2 DEF MoveFolder
    <2>2. req[r].pc = "act" /\ Folders \subseteq Things /\ target \in Things \cup {None} /\ x \in Folders
      BY <2>1 DEF Change, Things, At
    <2>3. db[x] # None /\ Loaded(r)[x] \in Thing /\ x \in Things
      BY <2>2, FoundFacts
    <2>4. Moved(Loaded(r)[x], Loaded(r)[x].status, target, Loaded(r)[x].rows) \in Thing
      BY <2>2, <2>3, MovedType DEF Thing
    <2>5. \A c : CopyOK(x, c)
      BY <2>2, KindsApart DEF CopyOK
    <2>6. QED
      BY <2>1, <2>3, <2>4, <2>5, ImageChanged
  <1>3. QED
    BY <1>1, <1>2 DEF FolderRoutes

(* A row is added to a copy whose other rows are in the tables.            *)
LEMMA AddedRow ==
  ASSUME NEW x \in Cases \cup Sessions, NEW c, NumberedCopy(x, c), c.rows \subseteq RowsOf(db[x]),
         NEW y, NEW w, NEW table, y.rows = c.rows \cup {w}, w.table = table,
         table \in NumberedTables => w.no = Cardinality(Of(c, table)) + 1,
         \A stage \in Stages : y.status = Flow[stage].to => stage = table \/ y.status = c.status
  PROVE  NumberedCopy(x, y)
  <1>1. ASSUME NEW t \in NumberedTables, t # table
        PROVE  Dense(Of(y, t)) /\ AtMostLastNew(x, Of(y, t))
    <2>1. Of(y, t) = Of(c, t)
      BY <1>1 DEF Of
    <2>2. QED
      BY <2>1 DEF NumberedCopy
  <1>2. ASSUME table \in NumberedTables
        PROVE  Dense(Of(y, table)) /\ AtMostLastNew(x, Of(y, table))
    <2>1. Of(y, table) = Of(c, table) \cup {w}
      BY DEF Of
    <2>2. Dense(Of(c, table)) /\ Of(c, table) \subseteq RowsOf(db[x])
      BY <1>2 DEF NumberedCopy, Of
    <2>3. w.no = Cardinality(Of(c, table)) + 1
      BY <1>2
    <2> DEFINE s == Of(c, table)
    <2> HIDE DEF s
    <2>4. Dense(s \cup {w}) /\ \A v \in s \cup {w} : v.no < Cardinality(s \cup {w}) => v \in s
      BY <2>2, <2>3, DenseNext DEF s
    <2>5. QED
      BY <2>1, <2>2, <2>4 DEF AtMostLastNew, s
  <1>3. ASSUME NEW stage \in Stages, y.status = Flow[stage].to
        PROVE  \E v \in y.rows \cup RowsOf(db[x]) : v.table = stage
    <2>1. CASE stage = table
      BY <2>1
    <2>2. CASE y.status = c.status
      BY <1>3, <2>2 DEF NumberedCopy, NumberedTables
    <2>3. QED
      BY <1>3, <2>1, <2>2
  <1>4. IsFiniteSet(y.rows)
    BY FS_AddElement DEF NumberedCopy
  <1>5. QED
    BY <1>1, <1>2, <1>3, <1>4 DEF NumberedCopy

LEMMA NextRowType ==
  ASSUME NEW c \in Thing, NEW table, table \in NumberedTables \/ table = "gates", NEW r \in Writers,
         IsFiniteSet(Of(c, table))
  PROVE  /\ NextRow(c, table, r) \in Child
         /\ NextRow(c, table, r).table = table /\ NextRow(c, table, r).no = Cardinality(Of(c, table)) + 1
  <1>1. Cardinality(Of(c, table)) \in Nat
    BY FS_CardinalityType
  <1>2. QED
    BY <1>1, NameFacts DEF NextRow, Child, NumberedTables

LEMMA GreatestStage ==
  ASSUME NEW S \in SUBSET {"analysis", "design", "cases"}, S # {}, NEW f, \A t \in S : f[t] \in Nat
  PROVE  \E t \in S : \A u \in S : f[u] <= f[t]
  <1> DEFINE g(t) == IF t \in S THEN f[t] ELSE -1
  <1>1. g("analysis") \in Int /\ g("design") \in Int /\ g("cases") \in Int
    OBVIOUS
  <1>2. \A t \in S : g(t) = f[t] /\ g(t) >= 0
    OBVIOUS
  <1>3. \A t : t \notin S => g(t) = -1
    OBVIOUS
  <1> HIDE DEF g
  <1>4. PICK t \in {"analysis", "design", "cases"} :
           g("analysis") <= g(t) /\ g("design") <= g(t) /\ g("cases") <= g(t)
    BY <1>1
  <1>5. \A u \in S : g(u) <= g(t)
    BY <1>4
  <1>6. t \in S
    <2>1. PICK u \in S : TRUE
      OBVIOUS
    <2>2. QED
      BY <1>2, <1>3, <1>5, <2>1
  <1>7. QED
    BY <1>2, <1>5, <1>6

(* The run that is last in the order of loading exists.                    *)
LEMMA LastRun ==
  ASSUME NEW x, NEW c \in Thing, NumberedCopy(x, c), \E v \in c.rows : v.table \in Stages
  PROVE  LastLoaded(c) \in c.rows
  <1> DEFINE named == [analysis |-> 100, cases |-> 200, design |-> 300]
             place(w) == named[w.table] + w.no
             runs == {w \in c.rows : w.table \in Stages}
             Last(w) == Of(c, w.table) \subseteq {v \in runs : place(v) <= place(w)}
  <1>1. \A t \in Stages : named[t] \in Nat
    BY FlowFacts
  <1>2. \A w \in runs : w.no \in Nat /\ place(w) \in Nat
    BY <1>1 DEF Thing, Child
  <1>3. ASSUME NEW t \in Stages, Of(c, t) # {}
        PROVE  \E w \in Of(c, t) : w \in runs /\ \A v \in Of(c, t) : place(v) <= place(w)
    <2>1. Dense(Of(c, t))
      BY DEF NumberedCopy, NumberedTables
    <2> DEFINE n == Cardinality(Of(c, t))
    <2>2. n \in Nat /\ (\A v \in Of(c, t) : v.no \in 1..n) /\ {v.no : v \in Of(c, t)} = 1..n
      BY <2>1, DenseType DEF Dense
    <2>3. n \in 1..n
      BY <1>3, <2>2
    <2>4. PICK w \in Of(c, t) : w.no = n
      BY <2>2, <2>3
    <2>5. \A v \in Of(c, t) : v.table = t /\ v \in runs
      BY DEF Of
    <2>6. QED
      BY <1>1, <2>2, <2>4, <2>5
  <1>4. \A w \in runs : w \in Of(c, w.table) /\ w.table \in Stages
    BY DEF Of
  <1> DEFINE Top(t) == CHOOSE w \in Of(c, t) : w \in runs /\ \A v \in Of(c, t) : place(v) <= place(w)
  <1>5. \A t \in Stages : Of(c, t) # {} =>
          Top(t) \in runs /\ \A v \in Of(c, t) : place(v) <= place(Top(t))
    BY <1>3
  <1>6. \E w \in runs : \A v \in runs : place(v) <= place(w)
    <2> DEFINE there == {t \in Stages : Of(c, t) # {}}
               height == [t \in Stages |-> place(Top(t))]
    <2>1. \A t \in there : height[t] \in Nat
      BY <1>2, <1>5
    <2>2. there # {} /\ there \subseteq Stages
      BY <1>4
    <2>3. \A t \in there : height[t] = place(Top(t)) /\ Top(t) \in runs
      BY <1>5
    <2>4. \A v \in runs : v.table \in there /\ place(v) \in Nat /\ place(v) <= height[v.table]
      BY <1>2, <1>4, <1>5
    <2> HIDE DEF there, height, place, runs, Top
    <2>5. PICK t \in there : \A u \in there : height[u] <= height[t]
      BY <2>1, <2>2, FlowFacts, GreatestStage
    <2>6. QED
      BY <1>2, <2>1, <2>3, <2>4, <2>5
  <1>7. QED
    BY <1>6 DEF LastLoaded

(* A change of a copy of a case or session: to one more row, or to none.   *)
LEMMA NumberedInv ==
  ASSUME PlatformInv, NEW r \in Writers, NEW x \in Cases \cup Sessions, db[x] # None,
         NEW y \in Thing, NumberedCopy(x, y), Change(r, x, y)
  PROVE  PlatformInv'
  <1>1. x \in Things /\ CopyOK(x, y)
    BY KindFacts DEF CopyOK
  <1>2. QED
    BY <1>1, ImageChanged

LEMMA CaseInv ==
  ASSUME PlatformInv, NEW r \in Writers, CaseRoutes(r)
  PROVE  PlatformInv'
  <1>1. CASE CreateCase(r)
    <2>1. PICK x \in Cases : Fresh(x) /\ Change(r, x, New("draft", None))
      BY <1>1 DEF CreateCase
    <2>2. x \notin Plans
      BY KindFacts
    <2>3. QED
      BY <2>1, <2>2, CreatedInv
  <1>2. CASE PatchCase(r)
    <2>1. PICK x \in At(r, Cases), status \in {"draft", "active"} :
             Change(r, x, Moved(Loaded(r)[x], status, Loaded(r)[x].ref, Loaded(r)[x].rows))
      BY <1>2 DEF PatchCase
    <2> DEFINE c == Loaded(r)[x]
               y == Moved(c, status, c.ref, c.rows)
    <2>2. req[r].pc = "act" /\ x \in Cases /\ Cases \subseteq Things
      BY <2>1 DEF Change, Things, At
    <2>3. db[x] # None /\ c \in Thing /\ CopyOK(x, c)
      BY <2>2, FoundFacts, KindFacts
    <2>4. y \in Thing /\ y.status = status /\ y.rows = c.rows
      <3>1. status \in Statuses
        BY DEF Statuses
      <3>2. QED
        BY <2>3, <3>1, MovedFacts, MovedType DEF Thing
    <2>5. Change(r, x, y)
      BY <2>1
    <2> HIDE DEF c, y
    <2>6. NumberedCopy(x, y)
      <3>1. NumberedCopy(x, c)
        BY <2>2, <2>3 DEF CopyOK
      <3>2. \A table : Of(y, table) = Of(c, table)
        BY <2>4 DEF Of
      <3>3. \A stage \in Stages : y.status # Flow[stage].to
        BY <2>4, NameFacts
      <3>4. QED
        BY <2>4, <3>1, <3>2, <3>3 DEF NumberedCopy
    <2>7. QED
      BY <2>2, <2>3, <2>4, <2>5, <2>6, NumberedInv
  <1>3. CASE CreateVersion(r)
    <2>1. PICK x \in At(r, Cases) :
             Change(r, x, Moved(Loaded(r)[x], "active", r, Loaded(r)[x].rows \cup {NextRow(Loaded(r)[x], "versions", r)}))
      BY <1>3 DEF CreateVersion
    <2> DEFINE c == Loaded(r)[x]
               w == NextRow(c, "versions", r)
               y == Moved(c, "active", r, c.rows \cup {w})
    <2>2. req[r].pc = "act" /\ x \in Cases /\ Cases \subseteq Things
      BY <2>1 DEF Change, Things, At
    <2>3. db[x] # None /\ c \in Thing /\ CopyOK(x, c) /\ c.rows \subseteq RowsOf(db[x])
      BY <2>2, FoundFacts, KindFacts DEF RowsOf
    <2>4. NumberedCopy(x, c) /\ IsFiniteSet(Of(c, "versions"))
      BY <2>2, <2>3 DEF CopyOK, NumberedCopy, NumberedTables, Dense
    <2>5. w \in Child /\ w.table = "versions" /\ w.no = Cardinality(Of(c, "versions")) + 1
      BY <2>3, <2>4, NextRowType, NameFacts DEF NumberedTables
    <2>6. Change(r, x, y)
      BY <2>1
    <2> HIDE DEF c, w
    <2>7. y \in Thing /\ y.status = "active" /\ y.rows = c.rows \cup {w}
      BY <2>3, <2>5, NameFacts, MovedFacts, MovedType DEF Thing, Statuses
    <2> HIDE DEF y
    <2>8. \A stage \in Stages : y.status # Flow[stage].to
      BY <2>7, NameFacts
    <2>9. NumberedCopy(x, y)
      BY <2>2, <2>3, <2>4, <2>5, <2>7, <2>8, AddedRow
    <2>10. QED
      BY <2>2, <2>3, <2>6, <2>7, <2>9, NumberedInv
  <1>4. QED
    BY <1>1, <1>2, <1>3 DEF CaseRoutes

LEMMA SessionInv ==
  ASSUME PlatformInv, NEW r \in Writers, SessionRoutes(r)
  PROVE  PlatformInv'
  <1>1. CASE CreateSession(r)
    <2>1. PICK x \in Sessions : Fresh(x) /\ Change(r, x, New("draft", None))
      BY <1>1 DEF CreateSession
    <2>2. x \notin Plans
      BY KindFacts
    <2>3. QED
      BY <2>1, <2>2, CreatedInv
  <1>2. CASE RunStage(r)
    <2>1. PICK x \in At(r, Sessions), stage \in Stages :
             Change(r, x, Moved(Loaded(r)[x], Flow[stage].to, None, Loaded(r)[x].rows \cup {NextRow(Loaded(r)[x], stage, r)}))
      BY <1>2 DEF RunStage
    <2> DEFINE c == Loaded(r)[x]
               w == NextRow(c, stage, r)
               y == Moved(c, Flow[stage].to, None, c.rows \cup {w})
    <2>2. req[r].pc = "act" /\ x \in Sessions /\ Sessions \subseteq Things
      BY <2>1 DEF Change, Things, At
    <2>3. db[x] # None /\ c \in Thing /\ CopyOK(x, c) /\ c.rows \subseteq RowsOf(db[x])
      BY <2>2, FoundFacts, KindFacts DEF RowsOf
    <2>4. NumberedCopy(x, c) /\ IsFiniteSet(Of(c, stage))
      BY <2>2, <2>3 DEF CopyOK, NumberedCopy, NumberedTables, Dense
    <2>5. w \in Child /\ w.table = stage /\ w.no = Cardinality(Of(c, stage)) + 1
      BY <2>3, <2>4, NextRowType, NameFacts DEF NumberedTables
    <2>6. Change(r, x, y)
      BY <2>1
    <2> HIDE DEF c, w
    <2>7. y \in Thing /\ y.status = Flow[stage].to /\ y.rows = c.rows \cup {w}
      BY <2>3, <2>5, FlowFacts, MovedFacts, MovedType DEF Thing
    <2> HIDE DEF y
    <2>8. \A s \in Stages : y.status = Flow[s].to => s = stage
      BY <2>7, FlowFacts
    <2>9. NumberedCopy(x, y)
      BY <2>2, <2>3, <2>4, <2>5, <2>7, <2>8, AddedRow DEF NumberedTables
    <2>10. QED
      BY <2>2, <2>3, <2>6, <2>7, <2>9, NumberedInv
  <1>3. CASE ReviewGate(r)
    <2>1. PICK x \in At(r, Sessions) :
             /\ \E v \in Loaded(r)[x].rows : v.table \in Stages
             /\ Change(r, x, Moved(Loaded(r)[x], Loaded(r)[x].status, None,
                  Loaded(r)[x].rows \cup {[NextRow(Loaded(r)[x], "gates", r) EXCEPT !.of = LastLoaded(Loaded(r)[x]).by]}))
      BY <1>3 DEF ReviewGate
    <2> DEFINE c == Loaded(r)[x]
               run == LastLoaded(c)
               w == [NextRow(c, "gates", r) EXCEPT !.of = run.by]
               y == Moved(c, c.status, None, c.rows \cup {w})
    <2>2. req[r].pc = "act" /\ x \in Sessions /\ Sessions \subseteq Things
      BY <2>1 DEF Change, Things, At
    <2>3. db[x] # None /\ c \in Thing /\ CopyOK(x, c) /\ c.rows \subseteq RowsOf(db[x])
      BY <2>2, FoundFacts, KindFacts DEF RowsOf
    <2>4. NumberedCopy(x, c) /\ IsFiniteSet(c.rows)
      BY <2>2, <2>3 DEF CopyOK, NumberedCopy
    <2>5. run.by \in Authors \cup {None}
      <3>1. \E v \in c.rows : v.table \in Stages
        BY <2>1
      <3> HIDE DEF c
      <3>2. run \in c.rows
        BY <2>3, <2>4, <3>1, LastRun
      <3>3. QED
        BY <2>3, <3>2 DEF Thing, Child
    <2>6. Change(r, x, y)
      BY <2>1
    <2> HIDE DEF c, run
    <2>7. IsFiniteSet(Of(c, "gates"))
      BY <2>4, FS_Subset DEF Of
    <2>8. w \in Child /\ w.table = "gates"
      <3>1. NextRow(c, "gates", r) \in Child /\ NextRow(c, "gates", r).table = "gates"
        BY <2>3, <2>7, NextRowType
      <3>2. QED
        BY <2>5, <3>1 DEF Child
    <2> HIDE DEF w
    <2>9. y \in Thing /\ y.status = c.status /\ y.rows = c.rows \cup {w}
      BY <2>3, <2>8, MovedFacts, MovedType DEF Thing
    <2> HIDE DEF y
    <2>10. NumberedCopy(x, y)
      BY <2>2, <2>3, <2>4, <2>8, <2>9, AddedRow, NameFacts
    <2>11. QED
      BY <2>2, <2>3, <2>6, <2>9, <2>10, NumberedInv
  <1>4. QED
    BY <1>1, <1>2, <1>3 DEF SessionRoutes

LEMMA LifecycleFacts ==
  ASSUME NEW edge \in Lifecycle
  PROVE  /\ edge[1] # "canceled" /\ edge[2] # "draft" /\ (edge[1] = "draft" => edge[2] = "canceled")
         /\ edge[2] \in Statuses
  BY DEF Lifecycle, Statuses

LEMMA PlanInv ==
  ASSUME PlatformInv, NEW r \in Writers, PlanRoutes(r) \/ PlanTransitionRoute(r)
  PROVE  PlatformInv'
  <1>1. CASE CreatePlan(r)
    <2>1. PICK x \in Plans : Fresh(x) /\ Change(r, x, New("draft", None))
      BY <1>1 DEF CreatePlan
    <2>2. QED
      BY <2>1, CreatedInv
  <1>2. ASSUME NEW x \in At(r, Plans), req[r].pc = "act"
        PROVE  /\ x \in Plans /\ x \in Things /\ db[x] # None /\ Loaded(r)[x] \in Thing /\ Frozen(db[x])
               /\ Loaded(r)[x].status = db[x].status /\ Loaded(r)[x].ref = db[x].ref
               /\ Loaded(r)[x].rows \in {{}, db[x].rows} /\ RowsOf(db[x]) = db[x].rows
    <2>1. x \in Plans /\ Plans \subseteq Things
      BY DEF At, Things
    <2>2. QED
      BY <1>2, <2>1, FoundFacts, LoadedFacts, StoredFacts, KindFacts
  <1>3. ASSUME NEW x \in Plans, db[x] # None, NEW y \in Thing, PlanCopy(x, y), Change(r, x, y) PROVE PlatformInv'
    <2>1. x \in Things /\ CopyOK(x, y)
      BY <1>3, KindFacts DEF CopyOK
    <2>2. QED
      BY <1>3, <2>1, ImageChanged
  <1>4. CASE FreezePlan(r)
    <2>1. PICK x \in At(r, Plans), items \in Scopes : Change(r, x, Moved(Loaded(r)[x], "ready", items, Scope(items)))
      BY <1>4 DEF FreezePlan
    <2> DEFINE y == Moved(Loaded(r)[x], "ready", items, Scope(items))
    <2>2. x \in Plans /\ db[x] # None /\ Loaded(r)[x] \in Thing
      BY <1>2, <2>1 DEF Change
    <2>3. Scope(items) \in SUBSET Child /\ "ready" \in Statuses
      BY ScopeFacts DEF Statuses
    <2>4. y \in Thing /\ y.status = "ready" /\ y.ref = items /\ y.rows = Scope(items)
      BY <2>2, <2>3, MovedFacts, MovedType
    <2>5. Change(r, x, y)
      BY <2>1
    <2> HIDE DEF y
    <2>6. PlanCopy(x, y)
      BY <2>3, <2>4 DEF PlanCopy, Frozen
    <2>7. QED
      BY <1>3, <2>2, <2>4, <2>5, <2>6
  <1>5. CASE TransitionPlan(r)
    <2>1. PICK x \in At(r, Plans), edge \in Lifecycle :
             /\ Loaded(r)[x].status = edge[1]
             /\ Change(r, x, Moved(Loaded(r)[x], edge[2], Loaded(r)[x].ref, Loaded(r)[x].rows))
      BY <1>5 DEF TransitionPlan
    <2> DEFINE c == Loaded(r)[x]
               y == Moved(c, edge[2], c.ref, c.rows)
    <2>2. /\ x \in Plans /\ db[x] # None /\ c \in Thing /\ Frozen(db[x]) /\ c.status = db[x].status
          /\ c.ref = db[x].ref /\ c.rows \in {{}, db[x].rows} /\ RowsOf(db[x]) = db[x].rows
      BY <1>2, <2>1 DEF Change
    <2>3. Change(r, x, y) /\ c.status = edge[1]
      BY <2>1
    <2> HIDE DEF c
    <2>4. y \in Thing /\ y.status = edge[2] /\ y.ref = c.ref /\ y.rows = c.rows
      BY <2>2, LifecycleFacts, MovedFacts, MovedType DEF Thing
    <2> HIDE DEF y
    <2>5. PlanCopy(x, y)
      <3>1. CASE db[x].rows = {}
        <4>1. y.ref = None /\ y.rows = {} /\ c.status \in {"draft", "canceled"}
          BY <2>2, <2>4, <3>1, FrozenFacts
        <4>2. y.status = "canceled"
          BY <2>3, <2>4, <4>1, LifecycleFacts
        <4>3. QED
          BY <4>1, <4>2 DEF PlanCopy, Frozen
      <3>2. CASE db[x].rows # {} /\ y.rows = {}
        BY <2>2, <3>2 DEF PlanCopy
      <3>3. CASE db[x].rows # {} /\ y.rows # {}
        <4>1. db[x].ref \in Scopes /\ db[x].rows = Scope(db[x].ref)
          BY <2>2, <3>3, FrozenFacts
        <4>2. y.rows = RowsOf(db[x]) /\ y.rows = Scope(y.ref) /\ y.ref \in Scopes
          BY <2>2, <2>4, <3>3, <4>1
        <4>3. y.status # "draft"
          BY <2>4, LifecycleFacts
        <4>4. QED
          BY <4>2, <4>3 DEF PlanCopy, Frozen
      <3>4. QED
        BY <3>1, <3>2, <3>3
    <2>6. QED
      BY <1>3, <2>2, <2>3, <2>4, <2>5
  <1>6. QED
    BY <1>1, <1>4, <1>5 DEF PlanRoutes, PlanTransitionRoute

LEMMA ExecutionInv ==
  ASSUME PlatformInv, NEW r \in Writers, ExecutionRoutes(r)
  PROVE  PlatformInv'
  <1>1. ASSUME NEW x \in Executions, NEW y \in Thing, ExecutionCopy(x, y), Change(r, x, y), db[x] # None \/ Fresh(x)
        PROVE  PlatformInv'
    <2>1. x \in Things /\ CopyOK(x, y)
      BY <1>1, KindFacts DEF CopyOK
    <2>2. QED
      BY <1>1, <2>1, ImageChanged
  <1>2. CASE CreateExecution(r)
    <2>1. PICK x \in Executions, p \in At(r, Plans) : Fresh(x) /\ Change(r, x, New("draft", p))
      BY <1>2 DEF CreateExecution
    <2> DEFINE y == New("draft", p)
    <2>2. p \in Plans /\ p \in Things /\ Plans \subseteq Things /\ req[r].pc = "act"
      BY <2>1 DEF At, Things, Change
    <2>3. db[p] # None
      BY <2>1, <2>2, FoundFacts
    <2>4. y \in Thing /\ y.status = "draft" /\ y.ref = p /\ y.rows = {}
      BY <2>2 DEF New, Thing, Statuses
    <2>5. Change(r, x, y) /\ db[x] = None
      BY <2>1 DEF Fresh
    <2> HIDE DEF y
    <2>6. ExecutionCopy(x, y)
      BY <2>2, <2>3, <2>4, <2>5 DEF ExecutionCopy, Attempted
    <2>7. QED
      BY <1>1, <2>1, <2>4, <2>5, <2>6
  <1>3. CASE StartExecution(r)
    <2>1. PICK x \in At(r, Executions) :
             /\ Startable(Loaded(r)[x], Loaded(r)[Loaded(r)[x].ref])
             /\ Change(r, x, Moved(Loaded(r)[x], "running", Loaded(r)[x].ref,
                                   {Attempt(r, v) : v \in Named(Loaded(r)[Loaded(r)[x].ref].rows)}))
      BY <1>3 DEF StartExecution
    <2> DEFINE e == Loaded(r)[x]
               p == Loaded(r)[e.ref]
               new == {Attempt(r, v) : v \in Named(p.rows)}
               y == Moved(e, "running", e.ref, new)
    <2>2. x \in Executions /\ Executions \subseteq Things /\ req[r].pc = "act" /\ Plans \subseteq Things
      BY <2>1 DEF At, Things, Change
    <2>3. db[x] # None /\ e \in Thing /\ CopyOK(x, e)
      BY <2>1, <2>2, FoundFacts, KindFacts
    <2>4. ExecutionCopy(x, e)
      BY <2>2, <2>3 DEF CopyOK
    <2>5. e.ref \in Plans /\ e.ref \in Aggregates /\ e.ref \in Things /\ db[e.ref] # None
      BY <2>2, <2>4, KindFacts DEF ExecutionCopy
    <2>6. Startable(e, p) /\ Change(r, x, y)
      BY <2>1
    <2>7. p.rows # {} /\ p.rows = db[e.ref].rows /\ RowsOf(db[e.ref]) = db[e.ref].rows
      BY <2>2, <2>5, <2>6, LoadedFacts, StoredFacts DEF Startable
    <2> HIDE DEF e, p
    <2>8. \A w \in p.rows : w.of \in Items
      <3>1. Frozen(db[e.ref]) /\ db[e.ref].rows # {}
        BY <2>5, <2>7, StoredFacts
      <3>2. db[e.ref].ref \in Scopes /\ p.rows = Scope(db[e.ref].ref)
        BY <2>7, <3>1, FrozenFacts
      <3>3. QED
        BY <3>2, ScopeFacts
    <2>9. r \in Authors /\ "running" \in Statuses /\ e.ref \in Things \cup Authors \cup Scopes \cup {None}
      BY <2>5, NameFacts DEF Statuses
    <2>10. new \in SUBSET Child
      <3>1. ASSUME NEW v \in Named(p.rows) PROVE Attempt(r, v) \in Child
        BY <2>8, <2>9, <3>1 DEF Named, Attempt, Child
      <3>2. QED
        BY <3>1
    <2>11. new = {Attempt(r, v) : v \in Named(RowsOf(db[e.ref]))}
      BY <2>7
    <2> HIDE DEF new
    <2>12. y \in Thing /\ y.status = "running" /\ y.ref = e.ref /\ y.rows = new
      BY <2>3, <2>9, <2>10, MovedType, MovedFacts
    <2> HIDE DEF y
    <2>13. Attempted(e.ref, new)
      BY <2>7, <2>9, <2>11 DEF Attempted
    <2>14. new # {}
      <3>1. Named(RowsOf(db[e.ref])) # {}
        BY <2>7 DEF Named
      <3>2. QED
        BY <2>11, <3>1
    <2>15. ExecutionCopy(x, y)
      BY <2>4, <2>12, <2>13, <2>14 DEF ExecutionCopy
    <2>16. QED
      BY <1>1, <2>2, <2>3, <2>6, <2>12, <2>15 DEF y, new
  <1>4. CASE Ingest(r)
    <2>1. PICK x \in Ingestions :
             Change(r, x, IF Loaded(r)[x] # None THEN Loaded(r)[x]
                          ELSE [New("ingested", None) EXCEPT !.rows = {Result(r)}])
      BY <1>4 DEF Ingest
    <2> DEFINE y == IF Loaded(r)[x] # None THEN Loaded(r)[x]
                    ELSE [New("ingested", None) EXCEPT !.rows = {Result(r)}]
    <2>2. x \in Things /\ x \notin Aggregates /\ req[r].pc = "act"
      BY <2>1, KindFacts DEF Things, Change
    <2>3. Loaded(r)[x] \in Thing \cup {None}
      BY <2>2, LoadedFacts DEF Tables
    <2>4. [New("ingested", None) EXCEPT !.rows = {Result(r)}] \in Thing
      BY NameFacts DEF New, Thing, Result, Child, Statuses
    <2>5. y \in Thing /\ Change(r, x, y)
      BY <2>1, <2>3, <2>4
    <2>6. QED
      BY <2>2, <2>5, ImageChanged
  <1>5. QED
    BY <1>2, <1>3, <1>4 DEF ExecutionRoutes

-----------------------------------------------------------------------------
(* The commit *)

LEMMA WrittenFacts ==
  ASSUME NEW now \in Thing, NEW base \in Thing, NEW copy \in Thing
  PROVE  /\ Written(now, base, copy) \in Thing
         /\ Written(now, base, copy).rows = now.rows \cup copy.rows
         /\ Written(now, base, copy).status = IF copy.status # base.status THEN copy.status ELSE now.status
         /\ Written(now, base, copy).ref = IF copy.ref # base.ref THEN copy.ref ELSE now.ref
  <1> DEFINE w == Written(now, base, copy)
             written(f) == IF f = "rows" THEN now.rows \cup copy.rows
                           ELSE IF copy[f] # base[f] THEN copy[f] ELSE now[f]
  <1>1. now # None /\ base # None /\ copy # None
    BY NameFacts
  <1>2. w = [f \in DOMAIN copy |-> written(f)]
    BY <1>1 DEF Written
  <1>3. DOMAIN copy = {"status", "version", "ref", "rows"}
    BY DEF Thing
  <1>4. w = [status |-> written("status"), version |-> written("version"), ref |-> written("ref"), rows |-> written("rows")]
    BY <1>2, <1>3
  <1> HIDE DEF w
  <1>5. /\ written("status") \in Statuses /\ written("version") \in Nat
        /\ written("ref") \in Things \cup Authors \cup Scopes \cup {None} /\ written("rows") \in SUBSET Child
    BY DEF Thing
  <1>6. w \in Thing
    BY <1>4, <1>5 DEF Thing
  <1>7. w.rows = written("rows") /\ w.status = written("status") /\ w.ref = written("ref")
    BY <1>4
  <1>8. QED
    BY <1>6, <1>7 DEF w

LEMMA CommitFacts ==
  ASSUME PlatformInv, NEW r \in Writers, Commit(r)
  PROVE  /\ db' \in Tables
         /\ \A x \in Things : db'[x] = None => db[x] = None /\ req[r].image[x] = None
         /\ \A x \in Things : req[r].image[x] = None => db'[x] = db[x]
         /\ \A x \in Aggregates : req[r].image[x] # None /\ req[r].base[x] = None =>
              db[x] = None /\ db'[x] = req[r].image[x]
         /\ \A x \in Things : req[r].image[x] # None /\ req[r].base[x] # None =>
              /\ db[x] # None /\ db'[x] \in Thing /\ db'[x].rows = db[x].rows \cup req[r].image[x].rows
              /\ db'[x].status = IF req[r].image[x].status # req[r].base[x].status
                                 THEN req[r].image[x].status ELSE db[x].status
              /\ db'[x].ref = IF req[r].image[x].ref # req[r].base[x].ref THEN req[r].image[x].ref ELSE db[x].ref
  <1>1. BaseOK(r) /\ req[r].pc = "commit" /\ db' = [x \in Things |-> Written(db[x], req[r].base[x], req[r].image[x])]
    BY DEF Commit, PlatformInv
  <1>2. ASSUME NEW x \in Things
        PROVE  /\ db[x] \in Thing \cup {None} /\ req[r].base[x] \in Thing \cup {None} /\ req[r].image[x] \in Thing \cup {None}
               /\ db'[x] = Written(db[x], req[r].base[x], req[r].image[x])
               /\ req[r].base[x] # None => db[x] # None
    BY <1>1 DEF PlatformInv, PlatformTypeOK, Tables, BaseOK
  <1>3. ASSUME NEW x \in Things, req[r].image[x] # None, req[r].base[x] # None
        PROVE  /\ db[x] # None /\ db'[x] \in Thing /\ db'[x].rows = db[x].rows \cup req[r].image[x].rows
               /\ db'[x].status = IF req[r].image[x].status # req[r].base[x].status
                                  THEN req[r].image[x].status ELSE db[x].status
               /\ db'[x].ref = IF req[r].image[x].ref # req[r].base[x].ref THEN req[r].image[x].ref ELSE db[x].ref
    <2>1. db[x] \in Thing /\ req[r].base[x] \in Thing /\ req[r].image[x] \in Thing
      BY <1>2, <1>3
    <2>2. QED
      <3>1. /\ Written(db[x], req[r].base[x], req[r].image[x]) \in Thing
            /\ Written(db[x], req[r].base[x], req[r].image[x]).rows = db[x].rows \cup req[r].image[x].rows
            /\ Written(db[x], req[r].base[x], req[r].image[x]).status =
                 IF req[r].image[x].status # req[r].base[x].status THEN req[r].image[x].status ELSE db[x].status
            /\ Written(db[x], req[r].base[x], req[r].image[x]).ref =
                 IF req[r].image[x].ref # req[r].base[x].ref THEN req[r].image[x].ref ELSE db[x].ref
        <4>1. PICK now \in Thing, base \in Thing, copy \in Thing :
                now = db[x] /\ base = req[r].base[x] /\ copy = req[r].image[x]
          BY <2>1
        <4>2. /\ Written(now, base, copy) \in Thing
              /\ Written(now, base, copy).rows = now.rows \cup copy.rows
              /\ Written(now, base, copy).status = IF copy.status # base.status THEN copy.status ELSE now.status
              /\ Written(now, base, copy).ref = IF copy.ref # base.ref THEN copy.ref ELSE now.ref
          BY WrittenFacts
        <4>3. QED
          BY <4>1, <4>2
      <3>2. db[x] # None
        BY <1>2, <1>3
      <3>3. QED
        BY <1>2, <3>1, <3>2
  <1>4. \A x \in Things : req[r].image[x] = None => db'[x] = db[x]
    BY <1>2 DEF Written
  <1>5. \A x \in Things : req[r].image[x] # None /\ req[r].base[x] = None => db'[x] = req[r].image[x]
    BY <1>2 DEF Written
  <1>6. \A x \in Aggregates : req[r].image[x] # None /\ req[r].base[x] = None => db[x] = None
    BY <1>1 DEF BaseOK
  <1>7. \A x \in Things : db'[x] \in Thing \cup {None}
    BY <1>2, <1>3, <1>4, <1>5
  <1>8. db' \in Tables
    BY <1>1, <1>7 DEF Tables
  <1>9. QED
    BY <1>3, <1>4, <1>5, <1>6, <1>8, KindFacts, NameFacts

(* What becomes of one row: d from now, by the copy c and its base b.      *)
Outcome(d, now, c, b) ==
    /\ c = None => d = now
    /\ c # None /\ b = None => now = None /\ d = c
    /\ c # None /\ b # None =>
         /\ now # None /\ d \in Thing /\ d.rows = now.rows \cup c.rows
         /\ d.status = IF c.status # b.status THEN c.status ELSE now.status

LEMMA CommitOf ==
  ASSUME PlatformInv, NEW r \in Writers, Commit(r), NEW x \in Aggregates
  PROVE  Outcome(db'[x], db[x], req[r].image[x], req[r].base[x])
  <1>1. x \in Things
    BY KindFacts
  <1>2. QED
    BY <1>1, CommitFacts DEF Outcome

LEMMA CommitRows ==
  ASSUME PlatformInv, NEW r \in Writers, Commit(r), NEW x \in Aggregates
  PROVE  RowsOf(db'[x]) = RowsOf(db[x]) \cup RowsOf(req[r].image[x])
  <1>1. x \in Things
    BY KindFacts
  <1>2. QED
    BY <1>1, CommitFacts, NameFacts DEF RowsOf

(* Who brings a scope brings the head that has its hash.                   *)
LEMMA ScopeComes ==
  ASSUME PlatformInv, NEW r \in Writers, req[r].pc = "commit", NEW x \in Plans,
         req[r].image[x] # None, req[r].base[x] # None, RowsOf(db[x]) = {}, req[r].image[x].rows # {}
  PROVE  /\ x \in Updates(r) /\ Frozen(req[r].image[x]) /\ req[r].image[x].status = "ready"
         /\ req[r].base[x].status \in {"draft", "canceled"} /\ req[r].base[x].ref = None
  <1>1. x \in Aggregates /\ x \in Things /\ CopyOK(x, req[r].image[x]) /\ Earlier(x, req[r].base[x])
    BY KindFacts DEF PlatformInv, CopiesOK, BaseOK, Copies
  <1>2. Frozen(req[r].image[x]) /\ req[r].image[x].status = "ready"
    BY <1>1 DEF CopyOK, PlanCopy
  <1>3. Frozen(req[r].base[x]) /\ req[r].base[x].rows = {}
    BY <1>1 DEF Earlier, RowsOf
  <1>4. req[r].base[x].ref = None /\ req[r].base[x].status \in {"draft", "canceled"}
    BY <1>3, FrozenFacts
  <1>5. req[r].image[x].ref # None
    BY <1>2, FrozenFacts
  <1>6. Heads(req[r].base[x]) # Heads(req[r].image[x])
    <2>1. req[r].base[x] \in Thing /\ req[r].image[x] \in Thing
      BY <1>1 DEF PlatformInv, PlatformTypeOK, Tables
    <2>2. Heads(req[r].base[x]).ref = None /\ Heads(req[r].image[x]).ref # None
      BY <1>4, <1>5, <2>1 DEF Heads, Thing
    <2>3. QED
      BY <2>2
  <1>7. x \in Updates(r)
    BY <1>1, <1>6 DEF Updates
  <1>8. QED
    BY <1>2, <1>4, <1>7

LEMMA CommitPlan ==
  ASSUME PlatformInv, NEW r \in Writers, Commit(r), NEW x \in Plans, db'[x] # None
  PROVE  Frozen(db'[x]) /\ (RowsOf(db[x]) # {} => RowsOf(db'[x]) = RowsOf(db[x]))
  <1> DEFINE c == req[r].image[x]
             b == req[r].base[x]
  <1>1. /\ x \in Aggregates /\ x \in Things /\ req[r].pc = "commit"
        /\ c # None => CopyOK(x, c) /\ PlanCopy(x, c)
    BY KindFacts DEF PlatformInv, CopiesOK, Copies, CopyOK, Commit
  <1>2. CASE c = None
    BY <1>1, <1>2, CommitFacts, StoredFacts DEF RowsOf
  <1>3. CASE c # None /\ b = None
    <2>1. db[x] = None /\ db'[x] = c
      BY <1>1, <1>3, CommitFacts
    <2>2. QED
      BY <1>1, <1>3, <2>1 DEF PlanCopy, RowsOf
  <1>4. CASE c # None /\ b # None
    <2>1. /\ db[x] # None /\ db'[x] \in Thing /\ db'[x].rows = db[x].rows \cup c.rows
          /\ db'[x].status = IF c.status # b.status THEN c.status ELSE db[x].status
          /\ db'[x].ref = IF c.ref # b.ref THEN c.ref ELSE db[x].ref
      BY <1>1, <1>4, CommitFacts
    <2>2. /\ RowsOf(db[x]) = db[x].rows /\ Frozen(db[x]) /\ RowsOf(c) = c.rows
          /\ c.rows # {} => db[x].rows \in {{}, c.rows}
      <3>1. FlushHolds(r)
        BY DEF PlatformInv
      <3>2. QED
        BY <1>1, <1>4, <2>1, <3>1, StoredFacts DEF FlushHolds, RowsOf
    <2>3. RowsOf(db'[x]) = db'[x].rows
      BY <2>1, NameFacts DEF RowsOf
    <2>4. CASE db[x].rows # {}
      <3>1. db[x].ref \in Scopes /\ db[x].rows = Scope(db[x].ref) /\ db[x].status # "draft"
        BY <2>2, <2>4, FrozenFacts
      <3>2. CASE c.rows # {}
        <4>1. c.ref \in Scopes /\ c.rows = Scope(c.ref) /\ c.status # "draft"
          BY <1>1, <1>4, <3>2, FrozenFacts DEF PlanCopy
        <4>2. c.rows = db[x].rows
          BY <2>2, <2>4, <3>2
        <4>3. QED
          BY <2>1, <2>2, <2>3, <3>1, <4>1, <4>2 DEF Frozen
      <3>3. CASE c.rows = {}
        <4>1. x \notin Updates(r)
          BY <1>1, <2>2, <2>4, <3>3 DEF PlatformInv, FlushHolds
        <4>2. c.status = b.status /\ c.ref = b.ref
          <5>1. Heads(b) = Heads(c) /\ b \in Thing /\ c \in Thing
            BY <1>1, <1>4, <4>1 DEF Updates, PlatformInv, PlatformTypeOK, Tables
          <5>2. Heads(b).status = b.status /\ Heads(c).status = c.status /\ Heads(b).ref = b.ref /\ Heads(c).ref = c.ref
            BY <5>1 DEF Heads, Thing
          <5>3. QED
            BY <5>1, <5>2
        <4>3. QED
          BY <2>1, <2>2, <2>3, <3>1, <3>3, <4>2 DEF Frozen
      <3>4. QED
        BY <3>2, <3>3
    <2>5. CASE db[x].rows = {}
      <3>1. db[x].ref = None /\ db[x].status \in {"draft", "canceled"}
        BY <2>2, <2>5, FrozenFacts
      <3>2. CASE c.rows # {}
        <4>1. Frozen(c) /\ c.status = "ready" /\ b.status \in {"draft", "canceled"} /\ b.ref = None
          BY <1>1, <1>4, <2>2, <2>5, <3>2, ScopeComes
        <4>2. c.ref # None
          BY <3>2, <4>1, FrozenFacts
        <4>3. db'[x].status = c.status /\ db'[x].ref = c.ref /\ db'[x].rows = c.rows
          BY <2>1, <2>5, <4>1, <4>2
        <4>4. QED
          BY <2>2, <2>5, <4>1, <4>3 DEF Frozen
      <3>3. CASE c.rows = {}
        <4>1. Frozen(c)
          BY <1>1, <1>4, <2>2, <2>5 DEF PlanCopy
        <4>2. c.ref = None /\ c.status \in {"draft", "canceled"}
          BY <3>3, <4>1, FrozenFacts
        <4>3. QED
          BY <2>1, <2>2, <2>5, <3>1, <3>3, <4>2 DEF Frozen
      <3>4. QED
        BY <3>2, <3>3
    <2>6. QED
      BY <2>4, <2>5
  <1>5. QED
    BY <1>2, <1>3, <1>4

(* The tables only grow, and a scope that is there stays.                  *)
LEMMA TablesGrow ==
  ASSUME PlatformInv, NEW r \in Writers, Commit(r), NEW x \in Aggregates
  PROVE  /\ db[x] # None => db'[x] # None
         /\ RowsOf(db[x]) \subseteq RowsOf(db'[x])
         /\ x \in Plans /\ RowsOf(db[x]) # {} => RowsOf(db'[x]) = RowsOf(db[x])
         /\ x \in Executions /\ db[x] # None => db'[x].ref = db[x].ref
  <1>1. x \in Things /\ (db[x] # None => db'[x] # None) /\ RowsOf(db[x]) \subseteq RowsOf(db'[x])
    BY CommitFacts, CommitRows, KindFacts
  <1>2. x \in Plans /\ RowsOf(db[x]) # {} => RowsOf(db'[x]) = RowsOf(db[x])
    BY <1>1, CommitPlan DEF RowsOf
  <1>3. ASSUME x \in Executions, db[x] # None PROVE db'[x].ref = db[x].ref
    <2>1. req[r].image[x] # None => db[x].ref = req[r].image[x].ref
      BY <1>3 DEF PlatformInv, CopiesOK, CopyOK, ExecutionCopy, Commit, Copies
    <2>2. QED
      BY <1>1, <1>3, <2>1, CommitFacts
  <1>4. QED
    BY <1>1, <1>2, <1>3

LEMMA AttemptedKept ==
  ASSUME PlatformInv, NEW r \in Writers, Commit(r), NEW p \in Plans, NEW s, Attempted(p, s)
  PROVE  Attempted(p, s)'
  <1>1. p \in Aggregates
    BY KindFacts
  <1>2. RowsOf(db[p]) # {} => RowsOf(db'[p]) = RowsOf(db[p])
    BY <1>1, TablesGrow
  <1>3. QED
    BY <1>2 DEF Attempted

(* A copy that may be written back may be written back later.              *)
LEMMA CopyKept ==
  ASSUME PlatformInv, NEW r \in Writers, Commit(r), NEW x \in Aggregates, NEW c, CopyOK(x, c),
         x \in Executions => db[x] # None \/ db'[x] = None \/ db'[x].ref = c.ref
  PROVE  CopyOK(x, c)'
  <1>1. RowsOf(db[x]) \subseteq RowsOf(db'[x]) /\ (db[x] # None => db'[x] # None)
    BY TablesGrow
  <1>2. ASSUME x \in Plans PROVE PlanCopy(x, c)'
    <2>1. PlanCopy(x, c) /\ (RowsOf(db[x]) # {} => RowsOf(db'[x]) = RowsOf(db[x]))
      BY <1>2, TablesGrow DEF CopyOK
    <2>2. QED
      BY <2>1 DEF PlanCopy
  <1>3. ASSUME x \in Executions PROVE ExecutionCopy(x, c)'
    <2>1. ExecutionCopy(x, c)
      BY <1>3 DEF CopyOK
    <2>2. c.ref \in Plans /\ c.ref \in Aggregates /\ db'[c.ref] # None
      BY <2>1, TablesGrow, KindFacts DEF ExecutionCopy
    <2>3. Attempted(c.ref, c.rows)'
      BY <2>1, <2>2, AttemptedKept DEF ExecutionCopy
    <2>4. db'[x] # None => db'[x].ref = c.ref
      BY <1>1, <1>3, <2>1, TablesGrow DEF ExecutionCopy
    <2>5. c.status = "running" => c.rows # {} \/ RowsOf(db'[x]) # {}
      BY <1>1, <2>1 DEF ExecutionCopy
    <2>6. QED
      BY <2>2, <2>3, <2>4, <2>5 DEF ExecutionCopy
  <1>4. ASSUME x \in Cases \cup Sessions PROVE NumberedCopy(x, c)'
    <2>1. NumberedCopy(x, c)
      BY <1>4 DEF CopyOK
    <2>2. QED
      BY <1>1, <2>1 DEF NumberedCopy, AtMostLastNew
  <1>5. QED
    BY <1>2, <1>3, <1>4 DEF CopyOK

LEMMA EarlierKept ==
  ASSUME PlatformInv, NEW r \in Writers, Commit(r), NEW x \in Aggregates, NEW c, Earlier(x, c)
  PROVE  Earlier(x, c)'
  <1>1. CopyOK(x, c)'
    BY CopyKept DEF Earlier
  <1>2. db'[x] # None /\ RowsOf(db[x]) \subseteq RowsOf(db'[x])
    BY TablesGrow DEF Earlier
  <1>3. ASSUME x \in Plans PROVE Frozen(c) /\ c.rows \in {{}, db'[x].rows}
    <2>1. Frozen(c) /\ c.rows \in {{}, RowsOf(db[x])} /\ RowsOf(db'[x]) = db'[x].rows
      BY <1>2, <1>3 DEF Earlier, RowsOf
    <2>2. RowsOf(db[x]) # {} => RowsOf(db'[x]) = RowsOf(db[x])
      BY <1>3, TablesGrow
    <2>3. QED
      BY <2>1, <2>2
  <1>4. QED
    BY <1>1, <1>2, <1>3 DEF Earlier, RowsOf

(* Two requests that start one execution do not both insert attempts.      *)
LEMMA AttemptsAgree ==
  ASSUME NEW p, NEW s, NEW t, Attempted(p, s), Attempted(p, t), Unique(s, t)
  PROVE  Attempted(p, s \cup t)
  <1>1. CASE s = {} \/ t = {}
    <2>1. s \cup t = s \/ s \cup t = t
      BY <1>1
    <2>2. QED
      BY <2>1
  <1>2. CASE s # {} /\ t # {}
    <2>1. PICK a \in Authors : s = {Attempt(a, v) : v \in Named(RowsOf(db[p]))}
      BY <1>2 DEF Attempted
    <2>2. PICK d \in Authors : t = {Attempt(d, v) : v \in Named(RowsOf(db[p]))}
      BY <1>2 DEF Attempted
    <2>3. PICK v \in Named(RowsOf(db[p])) : TRUE
      BY <1>2, <2>1
    <2>4. SameKey(Attempt(a, v), Attempt(d, v)) /\ Attempt(a, v).by = a /\ Attempt(d, v).by = d
      BY DEF SameKey, Attempt
    <2>5. a = d
      <3>1. Attempt(a, v) \in s /\ Attempt(d, v) \in t
        BY <2>1, <2>2, <2>3
      <3>2. QED
        BY <2>4, <3>1 DEF Unique
    <2>6. s \cup t = s
      BY <2>1, <2>2, <2>5
    <2>7. QED
      BY <2>6
  <1>3. QED
    BY <1>1, <1>2

LEMMA CommitExecution ==
  ASSUME PlatformInv, NEW r \in Writers, Commit(r), NEW x \in Executions, NEW d, d = db'[x], d # None
  PROVE  CopyOK(x, d)'
  <1>1. PICK c, b, now : c = req[r].image[x] /\ b = req[r].base[x] /\ now = db[x]
    OBVIOUS
  <1>2. /\ x \in Aggregates /\ x \in Things /\ req[r].pc = "commit"
        /\ c # None => CopyOK(x, c) /\ ExecutionCopy(x, c)
    BY <1>1, KindFacts DEF PlatformInv, CopiesOK, Copies, CopyOK, Commit
  <1>3. Outcome(d, now, c, b)
    <2>1. Outcome(db'[x], db[x], req[r].image[x], req[r].base[x])
      BY <1>2, CommitOf
    <2>2. QED
      BY <1>1, <2>1
  <1>4. CASE c = None
    <2>1. d = now
      BY <1>3, <1>4 DEF Outcome
    <2>2. CopyOK(x, now)
      BY <1>1, <1>2, <2>1 DEF PlatformInv
    <2>3. QED
      BY <1>1, <1>2, <2>1, <2>2, CopyKept
  <1>5. CASE c # None /\ b = None
    <2>1. now = None /\ d = c
      BY <1>3, <1>5 DEF Outcome
    <2>2. QED
      BY <1>1, <1>2, <1>5, <2>1, CopyKept
  <1>6. CASE c # None /\ b # None
    <2>1. /\ now # None /\ d \in Thing /\ d.rows = now.rows \cup c.rows
          /\ d.status = IF c.status # b.status THEN c.status ELSE now.status
      BY <1>3, <1>6 DEF Outcome
    <2>2. RowsOf(now) = now.rows /\ RowsOf(c) = c.rows /\ Unique(now.rows, c.rows) /\ ExecutionCopy(x, now)
      <3>1. FlushHolds(r)
        BY DEF PlatformInv
      <3>2. QED
        BY <1>1, <1>2, <1>6, <2>1, <3>1, StoredFacts DEF FlushHolds, RowsOf
    <2>3. RowsOf(db'[x]) = d.rows
      BY <2>1, NameFacts DEF RowsOf
    <2>4. /\ d.ref = now.ref /\ c.ref = now.ref /\ now.ref \in Plans /\ now.ref \in Aggregates
          /\ db'[now.ref] # None
      BY <1>1, <1>2, <1>6, <2>1, <2>2, TablesGrow, KindFacts DEF ExecutionCopy
    <2>5. Attempted(now.ref, now.rows \cup c.rows)
      BY <1>1, <1>2, <1>6, <2>2, <2>4, AttemptsAgree DEF ExecutionCopy
    <2>6. Attempted(now.ref, now.rows \cup c.rows)'
      BY <2>4, <2>5, AttemptedKept
    <2>7. d.status = "running" => d.rows # {}
      BY <1>1, <1>2, <1>6, <2>1, <2>2 DEF ExecutionCopy
    <2>8. ExecutionCopy(x, d)'
      BY <2>1, <2>4, <2>6, <2>7 DEF ExecutionCopy
    <2>9. QED
      BY <2>8, KindFacts DEF CopyOK
  <1>7. QED
    BY <1>4, <1>5, <1>6

LEMMA CommitNumbered ==
  ASSUME PlatformInv, NEW r \in Writers, Commit(r), NEW x \in Cases \cup Sessions, NEW d, d = db'[x], d # None
  PROVE  CopyOK(x, d)'
  <1>1. PICK c, b, now : c = req[r].image[x] /\ b = req[r].base[x] /\ now = db[x]
    OBVIOUS
  <1>2. /\ x \in Aggregates /\ x \in Things /\ x \notin Executions /\ req[r].pc = "commit"
        /\ c # None => CopyOK(x, c) /\ NumberedCopy(x, c)
    BY <1>1, KindFacts DEF PlatformInv, CopiesOK, Copies, CopyOK, Commit
  <1>3. Outcome(d, now, c, b)
    <2>1. Outcome(db'[x], db[x], req[r].image[x], req[r].base[x])
      BY <1>2, CommitOf
    <2>2. QED
      BY <1>1, <2>1
  <1>4. CASE c = None
    <2>1. d = now
      BY <1>3, <1>4 DEF Outcome
    <2>2. CopyOK(x, now)
      BY <1>1, <1>2, <2>1 DEF PlatformInv
    <2>3. QED
      BY <1>1, <1>2, <2>1, <2>2, CopyKept
  <1>5. CASE c # None /\ b = None
    <2>1. now = None /\ d = c
      BY <1>3, <1>5 DEF Outcome
    <2>2. QED
      BY <1>1, <1>2, <1>5, <2>1, CopyKept
  <1>6. CASE c # None /\ b # None
    <2>1. /\ now # None /\ d \in Thing /\ d.rows = now.rows \cup c.rows
          /\ d.status = IF c.status # b.status THEN c.status ELSE now.status
      BY <1>3, <1>6 DEF Outcome
    <2>2. RowsOf(now) = now.rows /\ RowsOf(c) = c.rows /\ Unique(now.rows, c.rows) /\ NumberedCopy(x, now) /\ NumberedCopy(x, c)
      <3>1. FlushHolds(r)
        BY DEF PlatformInv
      <3>2. QED
        BY <1>1, <1>2, <1>6, <2>1, <3>1, StoredFacts DEF FlushHolds, RowsOf
    <2>3. RowsOf(db'[x]) = d.rows
      BY <2>1, NameFacts DEF RowsOf
    <2>4. ASSUME NEW table \in NumberedTables PROVE Dense(Of(d, table))
      <3>1. Of(d, table) = Of(now, table) \cup Of(c, table)
        BY <2>1 DEF Of
      <3>2. Dense(Of(now, table)) /\ Dense(Of(c, table))
        BY <2>2 DEF NumberedCopy
      <3>3. \A w \in Of(c, table) : w.no < Cardinality(Of(c, table)) => w \in Of(now, table)
        <4>1. AtMostLastNew(x, Of(c, table)) /\ RowsOf(db[x]) = now.rows
          BY <1>1, <2>2 DEF NumberedCopy
        <4>2. \A w \in Of(c, table) : w.table = table
          BY DEF Of
        <4>3. QED
          BY <4>1, <4>2 DEF AtMostLastNew, Of
      <3>4. \A v \in Of(now, table), w \in Of(c, table) : v.no = w.no => v = w
        BY <2>2, NameFacts DEF Unique, SameKey, Of
      <3>5. QED
        BY <3>1, <3>2, <3>3, <3>4, DenseUnion
    <2>5. \A table \in NumberedTables : AtMostLastNew(x, Of(d, table))'
      BY <2>3 DEF AtMostLastNew, Of
    <2>6. ASSUME NEW table \in Stages, d.status = Flow[table].to
          PROVE  \E w \in d.rows : w.table = table
      <3>1. table \in NumberedTables
        BY DEF NumberedTables
      <3>2. c.status = Flow[table].to \/ now.status = Flow[table].to
        BY <2>1, <2>6
      <3>3. \E w \in c.rows \cup now.rows : w.table = table
        BY <1>1, <2>2, <3>1, <3>2 DEF NumberedCopy
      <3>4. QED
        BY <2>1, <3>3
    <2>7. IsFiniteSet(d.rows)
      <3>1. IsFiniteSet(now.rows) /\ IsFiniteSet(c.rows)
        BY <2>2 DEF NumberedCopy
      <3>2. QED
        <4>1. IsFiniteSet(now.rows \cup c.rows)
          BY <3>1, FS_Union
        <4>2. QED
          BY <2>1, <4>1
    <2>8. NumberedCopy(x, d)'
      BY <2>3, <2>4, <2>5, <2>6, <2>7 DEF NumberedCopy
    <2>9. QED
      BY <2>8, KindFacts DEF CopyOK
  <1>7. QED
    BY <1>4, <1>5, <1>6

LEMMA CommitInv ==
  ASSUME PlatformInv, NEW r \in Writers, Commit(r)
  PROVE  PlatformInv'
  <1> DEFINE w == [Idle EXCEPT !.pc = "done"]
  <1>1. w \in Request /\ w.pc = "done" /\ \A x \in Things : w.image[x] = None
    BY IdleType DEF Request
  <1>2. req' = [req EXCEPT ![r] = w] /\ req[r].pc = "commit"
    BY DEF Commit, Done
  <1> HIDE DEF w
  <1>3. req'[r] = w /\ \A q \in Writers \ {r} : req'[q] = req[q]
    BY <1>2 DEF PlatformInv, PlatformTypeOK
  <1>4. PlatformTypeOK'
    <2>1. req' \in [Writers -> Request]
      BY <1>1, <1>2 DEF PlatformInv, PlatformTypeOK, Request
    <2>2. QED
      BY <2>1, CommitFacts DEF PlatformTypeOK, Request
  <1>5. ASSUME NEW x \in Aggregates, db'[x] # None PROVE CopyOK(x, db[x])'
    <2>1. PICK d : d = db'[x]
      OBVIOUS
    <2>2. x \in Plans => CopyOK(x, d)'
      <3>1. ASSUME x \in Plans PROVE PlanCopy(x, d)'
        <4>1. Frozen(d) /\ RowsOf(db'[x]) = d.rows
          BY <1>5, <2>1, <3>1, CommitPlan DEF RowsOf
        <4>2. QED
          BY <4>1 DEF PlanCopy
      <3>2. QED
        BY <3>1, KindFacts DEF CopyOK
    <2>3. x \in Executions \/ x \in Cases \cup Sessions => CopyOK(x, d)'
      BY <1>5, <2>1, CommitExecution, CommitNumbered
    <2>4. x \in Folders => CopyOK(x, d)'
      BY KindsApart DEF CopyOK
    <2>5. CopyOK(x, d)'
      BY <2>2, <2>3, <2>4 DEF Aggregates
    <2>6. QED
      BY <2>1, <2>5
  <1>6. ASSUME NEW q \in Writers \ {r} PROVE CopiesOK(q)'
    <2>1. CopiesOK(q) /\ MadeAlone(q) /\ req'[q] = req[q]
      BY <1>3 DEF PlatformInv
    <2>2. ASSUME NEW x \in Aggregates, req[q].image[x] # None, req[q].pc = "act"
          PROVE  Earlier(x, req[q].image[x])'
      <3>1. PICK c : c = req[q].image[x]
        OBVIOUS
      <3>2. Earlier(x, c)'
        BY <2>1, <2>2, <3>1, EarlierKept DEF CopiesOK
      <3>3. QED
        BY <2>1, <3>1, <3>2
    <2>3. ASSUME NEW x \in Aggregates, req[q].image[x] # None, req[q].pc \in Copies
          PROVE  CopyOK(x, req[q].image[x])'
      <3>1. PICK c : c = req[q].image[x]
        OBVIOUS
      <3>2. CopyOK(x, c)
        BY <2>1, <2>3, <3>1 DEF CopiesOK
      <3>3. db[x] # None \/ db'[x] = None
        <4>1. x \in Things /\ (db[x] = None => req[r].image[x] = None)
          BY <2>1, <2>3, KindFacts DEF MadeAlone
        <4>2. QED
          BY <4>1, CommitFacts
      <3>4. CopyOK(x, c)'
        BY <3>2, <3>3, CopyKept
      <3>5. QED
        BY <2>1, <3>1, <3>4
    <2>4. QED
      BY <2>1, <2>2, <2>3 DEF CopiesOK
  <1>7. ASSUME NEW q \in Writers \ {r} PROVE BaseOK(q)'
    <2>1. BaseOK(q) /\ MadeAlone(q) /\ req'[q] = req[q]
      BY <1>3 DEF PlatformInv
    <2>2. ASSUME NEW x \in Aggregates, req[q].base[x] # None, req[q].pc \in {"flush", "commit"}
          PROVE  Earlier(x, req[q].base[x])'
      <3>1. PICK c : c = req[q].base[x]
        OBVIOUS
      <3>2. Earlier(x, c)'
        BY <2>1, <2>2, <3>1, EarlierKept DEF BaseOK
      <3>3. QED
        BY <2>1, <3>1, <3>2
    <2>3. ASSUME NEW x \in Aggregates, req[q].image[x] # None, req[q].base[x] = None, req[q].pc \in {"flush", "commit"}
          PROVE  db'[x] = None
      <3>1. x \in Things /\ db[x] = None /\ req[r].image[x] = None
        BY <2>1, <2>3, KindFacts DEF BaseOK, MadeAlone
      <3>2. QED
        BY <3>1, CommitFacts
    <2>4. \A x \in Things : db[x] # None => db'[x] # None
      BY CommitFacts
    <2>5. QED
      BY <2>1, <2>2, <2>3, <2>4 DEF BaseOK
  <1>8. ASSUME NEW q \in Writers \ {r} PROVE FlushHolds(q)'
    <2>1. FlushHolds(q) /\ BaseOK(q) /\ FlushedApart(r, q) /\ req'[q] = req[q] /\ Updates(q)' = Updates(q)
      BY <1>3 DEF PlatformInv, Updates
    <2>2. ASSUME NEW x \in Aggregates, req[q].pc = "commit"
          PROVE  Unique(RowsOf(db'[x]), RowsOf(req[q].image[x]))
      <3>1. Unique(RowsOf(db[x]), RowsOf(req[q].image[x])) /\ Unique(RowsOf(req[r].image[x]), RowsOf(req[q].image[x]))
        BY <1>2, <2>1, <2>2 DEF FlushHolds, FlushedApart
      <3>2. RowsOf(db'[x]) = RowsOf(db[x]) \cup RowsOf(req[r].image[x])
        BY CommitRows
      <3>3. QED
        BY <3>1, <3>2 DEF Unique
    <2>3. ASSUME NEW x \in Plans, req[q].pc = "commit", x \in Updates(q), req[q].image[x].rows = {}
          PROVE  RowsOf(db'[x]) = {}
      <3>1. x \in Aggregates /\ RowsOf(db[x]) = {} /\ x \notin Updates(r) /\ db[x] # None
        <4>1. x \in Aggregates /\ x \in Things
          BY KindFacts
        <4>2. req[q].base[x] # None
          BY <2>3 DEF Updates
        <4>3. QED
          BY <1>2, <2>1, <2>3, <4>1, <4>2 DEF FlushHolds, FlushedApart, BaseOK
      <3>2. RowsOf(db'[x]) = RowsOf(req[r].image[x])
        BY <3>1, CommitRows
      <3>3. req[r].image[x] # None => req[r].base[x] # None
        BY <1>2, <3>1 DEF PlatformInv, BaseOK
      <3>4. req[r].image[x] # None => req[r].image[x].rows = {}
        BY <1>2, <3>1, <3>3, ScopeComes
      <3>5. QED
        BY <3>2, <3>4 DEF RowsOf
    <2>4. ASSUME NEW x \in Plans, req[q].pc = "commit", RowsOf(req[q].image[x]) # {}
          PROVE  RowsOf(db'[x]) \in {{}, RowsOf(req[q].image[x])}
      <3>1. RowsOf(db[x]) \in {{}, RowsOf(req[q].image[x])}
        BY <2>1, <2>4 DEF FlushHolds
      <3>2. RowsOf(req[r].image[x]) \in {{}, RowsOf(req[q].image[x])}
        BY <1>2, <2>1, <2>4 DEF FlushedApart
      <3>3. RowsOf(db'[x]) = RowsOf(db[x]) \cup RowsOf(req[r].image[x])
        BY CommitRows, KindFacts
      <3>4. QED
        BY <3>1, <3>2, <3>3
    <2>5. QED
      BY <2>1, <2>2, <2>3, <2>4 DEF FlushHolds
  <1>9. ASSUME NEW q \in Writers \ {r} PROVE MadeAlone(q)'
    <2>1. MadeAlone(q) /\ \A x \in Aggregates : db'[x] = None => db[x] = None
      BY CommitFacts, KindFacts DEF PlatformInv
    <2>2. QED
      BY <1>1, <1>3, <2>1, KindFacts DEF MadeAlone
  <1>10. CopiesOK(r)' /\ MadeAlone(r)' /\ BaseOK(r)' /\ FlushHolds(r)'
    BY <1>1, <1>3, KindFacts DEF CopiesOK, MadeAlone, BaseOK, FlushHolds
  <1>11. ASSUME NEW p \in Writers, NEW q \in Writers, p # q PROVE FlushedApart(p, q)'
    <2>1. CASE p = r \/ q = r
      BY <1>1, <1>3, <2>1 DEF FlushedApart
    <2>2. CASE p # r /\ q # r
      <3>1. FlushedApart(p, q) /\ req'[p] = req[p] /\ req'[q] = req[q]
        BY <1>3, <1>11, <2>2 DEF PlatformInv
      <3>2. QED
        BY <3>1 DEF FlushedApart, Updates
    <2>3. QED
      BY <2>1, <2>2
  <1>12. QED
    BY <1>4, <1>5, <1>6, <1>7, <1>8, <1>9, <1>10, <1>11 DEF PlatformInv

LEMMA PlatformInitInv == PlatformInit => PlatformInv
  <1> SUFFICES ASSUME PlatformInit PROVE PlatformInv
    OBVIOUS
  <1>1. /\ req = [r \in Writers |-> Idle]
        /\ \A x \in Things : db[x] \in Initially[x]
        /\ \A x \in Executions : db[x] # None =>
             /\ db[db[x].ref] # None /\ db[db[x].ref].rows # {}
             /\ db[x].rows \in {{}, {Attempt(Seed, v) : v \in Named(db[db[x].ref].rows)}}
        /\ DOMAIN db = Things /\ db = [x \in Things |-> db[x]]
    <2>1. Executions \subseteq Things
      BY DEF Things
    <2>2. QED
      BY <2>1 DEF PlatformInit
  <1>2. ASSUME NEW x \in Things, db[x] # None
        PROVE  /\ db[x] \in Thing
               /\ x \in Cases \cup Sessions => IsFiniteSet(db[x].rows) /\ Numbered(db[x])
               /\ x \in Plans =>
                    \/ db[x].status \in {"draft", "canceled"} /\ db[x].ref = None /\ db[x].rows = {}
                    \/ db[x].status # "draft" /\ db[x].ref \in Scopes /\ db[x].rows = Scope(db[x].ref)
               /\ x \in Executions => db[x].ref \in Plans /\ (db[x].status = "running" => db[x].rows # {})
    BY <1>1, <1>2, InitiallyWhole
  <1>3. PlatformTypeOK
    <2>1. db \in Tables
      BY <1>1, <1>2 DEF Tables
    <2>2. QED
      BY <1>1, <2>1, IdleType DEF PlatformTypeOK, Request
  <1>4. \A r \in Writers : req[r].pc = "idle" /\ \A x \in Things : req[r].image[x] = None
    BY <1>1, IdleType DEF Idle
  <1>5. Seed \in Authors
    BY DEF Authors
  <1>6. ASSUME NEW x \in Aggregates, db[x] # None PROVE CopyOK(x, db[x])
    <2>1. x \in Things /\ RowsOf(db[x]) = db[x].rows
      BY <1>6, KindFacts DEF RowsOf
    <2>2. ASSUME x \in Plans PROVE PlanCopy(x, db[x])
      BY <1>2, <1>6, <2>1, <2>2 DEF PlanCopy, Frozen
    <2>3. ASSUME x \in Executions PROVE ExecutionCopy(x, db[x])
      <3>1. db[x].ref \in Plans /\ (db[x].status = "running" => db[x].rows # {})
        BY <1>2, <1>6, <2>1, <2>3
      <3>2. /\ db[db[x].ref] # None /\ db[db[x].ref].rows # {}
            /\ db[x].rows \in {{}, {Attempt(Seed, v) : v \in Named(db[db[x].ref].rows)}}
        BY <1>1, <1>6, <2>3
      <3>3. RowsOf(db[db[x].ref]) = db[db[x].ref].rows
        BY <3>2 DEF RowsOf
      <3>4. Attempted(db[x].ref, db[x].rows)
        BY <1>5, <3>2, <3>3 DEF Attempted
      <3>5. QED
        BY <3>1, <3>2, <3>4 DEF ExecutionCopy
    <2>4. ASSUME x \in Cases \cup Sessions PROVE NumberedCopy(x, db[x])
      <3>1. IsFiniteSet(db[x].rows) /\ Numbered(db[x])
        BY <1>2, <1>6, <2>1, <2>4
      <3>2. \A table : IsFiniteSet(Of(db[x], table)) /\ Of(db[x], table) \subseteq RowsOf(db[x])
        BY <2>1, <3>1, FS_Subset DEF Of
      <3>3. \A table \in NumberedTables : Dense(Of(db[x], table)) /\ AtMostLastNew(x, Of(db[x], table))
        BY <3>1, <3>2 DEF Numbered, Dense, NumberedTables, AtMostLastNew
      <3>4. \A table \in Stages : db[x].status = Flow[table].to => \E w \in db[x].rows : w.table = table
        BY <3>1 DEF Numbered, Of
      <3>5. QED
        BY <3>1, <3>3, <3>4 DEF NumberedCopy
    <2>5. QED
      BY <2>2, <2>3, <2>4 DEF CopyOK
  <1>7. QED
    BY <1>3, <1>4, <1>6, KindFacts DEF PlatformInv, MadeAlone, CopiesOK, BaseOK, FlushHolds, FlushedApart, Copies

LEMMA PlatformStepInv ==
  ASSUME PlatformInv, [PlatformNext]_platformVars
  PROVE  PlatformInv'
  <1>1. CASE UNCHANGED platformVars
    <2>1. db' = db /\ req' = req
      BY <1>1 DEF platformVars
    <2>2. \A r \in Writers : Updates(r)' = Updates(r)
      BY <2>1 DEF Updates
    <2>3. \A r \in Writers : (MadeAlone(r) /\ CopiesOK(r) /\ BaseOK(r) /\ FlushHolds(r))'
      <3>1. TAKE r \in Writers
      <3>2. MadeAlone(r) /\ CopiesOK(r) /\ BaseOK(r) /\ FlushHolds(r)
        BY DEF PlatformInv
      <3>3. MadeAlone(r)'
        BY <2>1, <3>2 DEF MadeAlone
      <3>4. CopiesOK(r)' /\ BaseOK(r)'
        BY <2>1, <3>2, TablesKept DEF CopiesOK, BaseOK
      <3>5. FlushHolds(r)'
        BY <2>1, <2>2, <3>2 DEF FlushHolds
      <3>6. QED
        BY <3>3, <3>4, <3>5
    <2>4. \A r \in Writers, q \in Writers : r # q => FlushedApart(r, q)'
      BY <2>1, <2>2 DEF PlatformInv, FlushedApart
    <2>5. PlatformTypeOK' /\ (\A x \in Aggregates : db[x] # None => CopyOK(x, db[x]))'
      BY <2>1, TablesKept DEF PlatformInv, PlatformTypeOK
    <2>6. QED
      BY <2>3, <2>4, <2>5 DEF PlatformInv
  <1>2. ASSUME NEW r \in Writers,
               \/ Enter(r)
               \/ FolderRoutes(r) \/ SessionRoutes(r) \/ CaseRoutes(r)
               \/ PlanRoutes(r) \/ PlanTransitionRoute(r) \/ ExecutionRoutes(r)
               \/ Select(r) \/ Flush(r) \/ Commit(r) \/ Refuse(r)
        PROVE  PlatformInv'
    BY <1>2, EnterInv, FolderInv, SessionInv, CaseInv, PlanInv, ExecutionInv, SelectInv, FlushInv, CommitInv, RefuseInv
  <1>3. QED
    BY <1>1, <1>2 DEF PlatformNext

LEMMA PlatformInvariance == PlatformSpec => []PlatformInv
  BY PlatformInitInv, PlatformStepInv, PTL DEF PlatformSpec

(* One attempt for each case version that the scope names.                 *)
LEMMA AttemptsCounted ==
  ASSUME NEW scope, IsFiniteSet(scope), NEW a, NEW s,
         \A w : w \in s <=> \E v \in Named(scope) : w = Attempt(a, v)
  PROVE  {w.of : w \in s} = Named(scope) /\ Cardinality(s) = Cardinality(Named(scope))
  <1> DEFINE V == Named(scope)
             named == [w \in scope |-> Version[w.of]]
             made == [v \in V |-> Attempt(a, v)]
  <1>1. \A v : Attempt(a, v).of = v
    BY DEF Attempt
  <1>2. {w.of : w \in s} = V
    BY <1>1
  <1>3. named \in Surjection(scope, V)
    BY DEF Named, Surjection
  <1> HIDE DEF V, named
  <1>4. IsFiniteSet(V)
    BY <1>3, FS_Surjection
  <1>5. \A w : w \in s <=> \E v \in V : w = Attempt(a, v)
    BY DEF V
  <1>6. made \in Surjection(V, s) /\ made \in Injection(V, s)
    BY <1>1, <1>5 DEF Injection, Surjection, IsInjective
  <1>7. Cardinality(s) = Cardinality(V)
    <2> HIDE DEF made
    <2> QED
      BY <1>4, <1>6, FS_Surjection
  <1>8. QED
    BY <1>2, <1>7 DEF V

(* However old the head that is written back: a plan past draft has all    *)
(* the items its hash was made of and no other, and a running execution    *)
(* one first attempt for each case version that they name (FreezePlan,     *)
(* StartExecution and what _save_execution_domain refuses).                *)
THEOREM ScopeFrozen == PlatformSpec => []ScopeIsFrozen
  <1>1. PlatformInv => ScopeIsFrozen
    <2> SUFFICES ASSUME PlatformInv PROVE ScopeIsFrozen
      OBVIOUS
    <2>1. ASSUME NEW x \in Plans, db[x] # None
          PROVE  /\ db[x].status = "draft" => db[x].rows = {} /\ db[x].ref = None
                 /\ db[x].status \notin {"draft", "canceled"} =>
                      db[x].ref \in Scopes /\ db[x].rows = Scope(db[x].ref)
      <3>1. Frozen(db[x])
        BY <2>1, StoredFacts, KindFacts
      <3>2. QED
        BY <3>1 DEF Frozen
    <2>2. ASSUME NEW x \in Executions, db[x] # None, db[x].status = "running"
          PROVE  /\ {w.of : w \in db[x].rows} = Named(db[db[x].ref].rows)
                 /\ Cardinality(db[x].rows) = Cardinality(Named(db[db[x].ref].rows))
      <3>1. ExecutionCopy(x, db[x]) /\ RowsOf(db[x]) = db[x].rows
        BY <2>2, StoredFacts, KindFacts
      <3>2. RowsOf(db[db[x].ref]) = db[db[x].ref].rows /\ db[x].rows # {}
        BY <2>2, <3>1 DEF ExecutionCopy, RowsOf
      <3>3. /\ db[db[x].ref].rows # {}
            /\ \E a \in Authors : db[x].rows = {Attempt(a, v) : v \in Named(db[db[x].ref].rows)}
        BY <3>1, <3>2 DEF ExecutionCopy, Attempted
      <3>4. PICK a \in Authors : db[x].rows = {Attempt(a, v) : v \in Named(db[db[x].ref].rows)}
        BY <3>3
      <3>5. IsFiniteSet(db[db[x].ref].rows)
        <4>1. Frozen(db[db[x].ref])
          BY <3>1, StoredFacts, KindFacts DEF ExecutionCopy
        <4>2. QED
          BY <3>3, <4>1, FrozenFacts, ScopeFacts
      <3>6. PICK scope, s : scope = db[db[x].ref].rows /\ s = db[x].rows
        OBVIOUS
      <3>7. IsFiniteSet(scope) /\ \A w : w \in s <=> \E v \in Named(scope) : w = Attempt(a, v)
        BY <3>4, <3>5, <3>6
      <3>8. {w.of : w \in s} = Named(scope) /\ Cardinality(s) = Cardinality(Named(scope))
        BY <3>7, AttemptsCounted
      <3>9. QED
        BY <3>6, <3>8
    <2>3. QED
      BY <2>1, <2>2 DEF ScopeIsFrozen
  <1>2. QED
    BY <1>1, PlatformInvariance, PTL

(* Versions of a case and runs of a stage, numbered by how many an old     *)
(* copy has, are numbered without a gap or a double; a stage in review has *)
(* a run (create_case_version, start_stage and the unique constraints).    *)
THEOREM NumbersDenseCorrect == PlatformSpec => []NumbersDense
  <1>1. PlatformInv => NumbersDense
    <2> SUFFICES ASSUME PlatformInv, NEW x \in Cases \cup Sessions, db[x] # None PROVE Numbered(db[x])
      BY DEF NumbersDense
    <2>1. NumberedCopy(x, db[x]) /\ RowsOf(db[x]) = db[x].rows
      BY StoredFacts, KindFacts
    <2>2. ASSUME NEW table \in NumberedTables
          PROVE  /\ {w.no : w \in Of(db[x], table)} = 1..Cardinality(Of(db[x], table))
                 /\ table \in Stages /\ db[x].status = Flow[table].to => Of(db[x], table) # {}
      <3>1. Dense(Of(db[x], table))
        BY <2>1 DEF NumberedCopy
      <3>2. table \in Stages /\ db[x].status = Flow[table].to => \E w \in db[x].rows : w.table = table
        BY <2>1 DEF NumberedCopy
      <3>3. (\E w \in db[x].rows : w.table = table) => Of(db[x], table) # {}
        BY DEF Of
      <3>4. QED
        BY <3>1, <3>2, <3>3 DEF Dense
    <2>3. QED
      BY <2>2 DEF Numbered, NumberedTables
  <1>2. QED
    BY <1>1, PlatformInvariance, PTL
=============================================================================
