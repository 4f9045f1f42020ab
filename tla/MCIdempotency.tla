---------------------------- MODULE MCIdempotency ----------------------------
(* Small instances of Idempotency for TLC. *)
EXTENDS Idempotency

CONSTANTS a1, a2, a3, k1, k2, b1, b2, x1, x2

=============================================================================
