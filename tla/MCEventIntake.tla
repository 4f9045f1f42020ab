--------------------------- MODULE MCEventIntake ---------------------------
(* A small instance of EventIntake for TLC. *)
EXTENDS EventIntake, TLC

CONSTANTS n1, n2, task, security, e1, r1, r2, r3, r4

MCSettingOf == (n1 :> task) @@ (n2 :> security)

Symmetry == Permutations(Requests)

=============================================================================
