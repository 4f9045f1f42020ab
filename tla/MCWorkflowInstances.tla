------------------------ MODULE MCWorkflowInstances ------------------------
(* A small instance of WorkflowInstances for TLC: the built-in template. *)
EXTENDS WorkflowInstances, TLC

CONSTANTS i1, i2, r1, r2, r3, k1, k2

Move(action, from, to) == [action |-> action, from |-> from, to |-> to]

MCMoves ==
    {Move("start", "todo", "in_progress"), Move("complete", "in_progress", "done"),
     Move("close", "done", "closed"), Move("cancel", "todo", "canceled"),
     Move("cancel", "in_progress", "canceled"), Move("reopen", "done", "in_progress"),
     Move("reopen", "closed", "in_progress")}

MCPast == {{}, {Move("start", "todo", "in_progress"), Move("complete", "in_progress", "done")}}

Symmetry == Permutations({r1, r2, r3}) \cup Permutations({k1, k2})

=============================================================================
