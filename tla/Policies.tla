------------------------------ MODULE Policies ------------------------------
(***************************************************************************)
(* The fixed role matrix of project-service (collaboration/policies.py):   *)
(* which project role may take which kind of action.                       *)
(***************************************************************************)

Roles == {"owner", "admin", "member", "viewer"}

Managers == {"owner", "admin"}

Contributors == {"owner", "admin", "member"}

(* AuthorizationPolicy._allowed *)
Allowed(action) ==
    CASE action = "view"            -> Roles
      [] action = "manage_members"  -> Managers
      [] action = "transfer_owner"  -> {"owner"}
      [] action = "manage_plan"     -> Managers
      [] action = "create_task"     -> Contributors
      [] action = "edit_task"       -> Contributors
      [] action = "transition_task" -> Contributors
      [] action = "record_worklog"  -> Contributors
      [] action = "view_worklog"    -> Contributors

(* AuthorizationPolicy.authorize; `related` says that the actor is the     *)
(* creator, the assignee or a participant of the task acted upon.          *)
Authorized(role, action, related) ==
    /\ role \in Allowed(action)
    /\ role = "member" /\ action \in {"edit_task", "transition_task"} => related

=============================================================================
