---------------------------- MODULE OnceRegister ----------------------------
(***************************************************************************)
(* What Idempotency-Key promises the clients of project-service: a key is  *)
(* a register that the first request to succeed sets once; every answer    *)
(* that is not an error is read from it, and a request with another body   *)
(* is refused (architecture 9.1; PRD: replays return the first result and  *)
(* do not write twice).                                                    *)
(***************************************************************************)
CONSTANTS Keys, Bodies, Resources, Unset

VARIABLES
    register,   \* what each key was used for
    effects,    \* the writes that were committed
    answers     \* what clients have been told

vars == <<register, effects, answers>>

Success(k, b, x) == [key |-> k, body |-> b, outcome |-> "success", resource |-> x]

Error(k, b, outcome) == [key |-> k, body |-> b, outcome |-> outcome]

(* An answer may be lost on its way.                                       *)
Answer(x) == answers' \in {answers, answers \cup {x}}

Init ==
    /\ register = [k \in Keys |-> Unset]
    /\ effects = {}
    /\ answers = {}

Execute(k, b, x) ==
    /\ register[k] = Unset
    /\ register' = [register EXCEPT ![k] = [body |-> b, resource |-> x]]
    /\ effects' = effects \cup {[key |-> k, body |-> b, resource |-> x]}
    /\ Answer(Success(k, b, x))

Replay(k) ==
    /\ register[k] # Unset
    /\ Answer(Success(k, register[k].body, register[k].resource))
    /\ UNCHANGED <<register, effects>>

Refuse(k, b) ==
    /\ register[k] # Unset /\ register[k].body # b
    /\ Answer(Error(k, b, "conflict"))
    /\ UNCHANGED <<register, effects>>

(* Only a request that could have set the register may fail.               *)
Fail(k, b) ==
    /\ register[k] = Unset
    /\ Answer(Error(k, b, "failed"))
    /\ UNCHANGED <<register, effects>>

Next ==
    \E k \in Keys, b \in Bodies :
        \/ \E x \in Resources : Execute(k, b, x)
        \/ Replay(k) \/ Refuse(k, b) \/ Fail(k, b)

Spec == Init /\ [][Next]_vars

=============================================================================
