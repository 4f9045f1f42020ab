--------------------------- MODULE MCReleaseGate ---------------------------
(* Small instances of ReleaseGate for TLC. *)
EXTENDS ReleaseGate, TLC

CONSTANTS r1, r2, v1, v2, i1, i2, t1

RequestSymmetry == Permutations({r1, r2})

=============================================================================
