--------------------------- MODULE MCWorklogLedger ---------------------------
(* Small instances of WorklogLedger for TLC. *)
EXTENDS WorklogLedger

CONSTANTS r1, r2, lead, t1, t2

MCRoleOf == [u \in {lead} |-> "admin"]

=============================================================================
