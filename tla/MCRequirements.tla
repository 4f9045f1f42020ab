--------------------------- MODULE MCRequirements ---------------------------
(* A small instance of Requirements for TLC. *)
EXTENDS Requirements, TLC

CONSTANTS q1, w1, b1, c1, u1, title, description, r1, r2, r3

Symmetry == Permutations({r1, r2, r3}) \cup Permutations({title, description})

=============================================================================
