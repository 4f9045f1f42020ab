----------------------------- MODULE MCDefects -----------------------------
(* A small instance of Defects for TLC. *)
EXTENDS Defects, TLC

CONSTANTS d1, d2, r1, r2, r3, a1, a2

Started == <<"assign", "start">>

Submitted == Started \o <<"mark_fixed", "submit_verification">>

MCHistories == {<<>>, Started, Submitted}

MCActions == {"create", "mark_fixed", "verify_close", "mark_duplicate", "patch"}

MCStarted == {Started}

MCFixing == {"mark_fixed", "submit_verification"}

Symmetry == Permutations({r1, r2, r3})

=============================================================================
