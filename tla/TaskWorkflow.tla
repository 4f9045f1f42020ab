---------------------------- MODULE TaskWorkflow ----------------------------
(***************************************************************************)
(* The fixed task workflow of project-service (tasks/workflow.py,          *)
(* WorkflowV1): the states of a task and the moves between them.           *)
(***************************************************************************)

TaskStatuses == {"todo", "in_progress", "done", "closed", "canceled"}

(* WorkflowV1.transitions; closed and canceled have no successor. *)
Transitions ==
    [s \in TaskStatuses |->
        CASE s = "todo"        -> {"in_progress", "canceled"}
          [] s = "in_progress" -> {"done", "canceled"}
          [] s = "done"        -> {"closed", "in_progress"}
          [] OTHER             -> {}]

(* WorkflowV1.allowed_targets: a plain member may not close a task. *)
AllowedTargets(status, role) ==
    IF role = "member" THEN Transitions[status] \ {"closed"} ELSE Transitions[status]

=============================================================================
