-------------------------- MODULE MCSessionRefresh --------------------------
(* A small instance of SessionRefresh for TLC. *)
EXTENDS SessionRefresh, TLC

CONSTANTS s1, c1, c2, c3, w1, w2

=============================================================================
