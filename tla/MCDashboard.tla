---------------------------- MODULE MCDashboard ----------------------------
(* A small instance of Dashboard for TLC. *)
EXTENDS Dashboard, TLC

CONSTANTS a1, a2, d1, d2, v1, v2

Symmetry == Permutations(Views) \cup Permutations(Actors) \cup Permutations(Domains)

=============================================================================
