---------------------------- MODULE MCMembership ----------------------------
(* Small instances of Membership for TLC: ids are numbers so that the first *)
(* one is the creator's.                                                    *)
EXTENDS Membership

CONSTANTS r1, r2, ann, bob

=============================================================================
