----------------------------- MODULE Idempotency -----------------------------
(***************************************************************************)
(* Every write of project-service runs through IdempotencyExecutor.execute *)
(* in one transaction: advisory lock, lookup, processing record, handler,  *)
(* completed record, commit.  Attempts are the HTTP requests in flight; a  *)
(* client that hears nothing sends the same key again, while the earlier   *)
(* attempt may still run.                                                  *)
(***************************************************************************)
CONSTANTS
    Attempts,
    NoAttempt,    \* an advisory lock nobody holds
    Keys,         \* (scope, Idempotency-Key) pairs
    Bodies,       \* canonical_request_hash values
    Resources,    \* what handlers create; bound on how many
    NoResource,
    NoRecord      \* no row in idempotency_records

ASSUME AttemptAssumption == NoAttempt \notin Attempts
ASSUME ResourceAssumption == NoResource \notin Resources

Record == [body: Bodies, status: {"processing", "completed"}, resource: Resources \cup {NoResource}]

ASSUME RecordAssumption == NoRecord \notin Record \cup [body: Bodies, resource: Resources]

VARIABLES
    records,   \* committed rows of idempotency_records
    effects,   \* committed writes of handlers: domain rows, audit, outbox
    answers,   \* what clients have been told
    lock,      \* holder of the advisory lock of each key
    pc,        \* where each attempt is
    req,       \* its key and body, and what its handler made
    row        \* the record it has written and not committed

vars == <<records, effects, answers, lock, pc, req, row>>

Places == {"idle", "lock", "lookup", "insert", "handle", "complete", "commit"}

Request == [key: Keys, body: Bodies, resource: Resources \cup {NoResource}]

Outcomes == {"conflict", "in_progress", "failed"}

Success(k, b, x) == [key |-> k, body |-> b, outcome |-> "success", resource |-> x]

Error(k, b, outcome) == [key |-> k, body |-> b, outcome |-> outcome]

AnswerSet ==
    {Success(k, b, x) : k \in Keys, b \in Bodies, x \in Resources \cup {NoResource}}
        \cup {Error(k, b, o) : k \in Keys, b \in Bodies, o \in Outcomes}

(* No record is committed half done.                                       *)
CommittedRecord == [body: Bodies, status: {"completed"}, resource: Resources]

TypeOK ==
    /\ records \in [Keys -> CommittedRecord \cup {NoRecord}]
    /\ effects \subseteq [key: Keys, body: Bodies, resource: Resources]
    /\ answers \subseteq AnswerSet
    /\ lock \in [Keys -> Attempts \cup {NoAttempt}]
    /\ pc \in [Attempts -> Places]
    /\ req \in [Attempts -> Request]
    /\ row \in [Attempts -> Record \cup {NoRecord}]
    /\ \A a \in Attempts : row[a] # NoRecord => pc[a] \in {"handle", "complete", "commit"}

Init ==
    /\ records = [k \in Keys |-> NoRecord]
    /\ effects = {}
    /\ answers = {}
    /\ lock = [k \in Keys |-> NoAttempt]
    /\ pc = [a \in Attempts |-> "idle"]
    /\ req \in [Attempts -> {[key |-> k, body |-> b, resource |-> NoResource] : k \in Keys, b \in Bodies}]
    /\ row = [a \in Attempts |-> NoRecord]

-----------------------------------------------------------------------------
Goto(a, place) == pc' = [pc EXCEPT ![a] = place]

Key(a) == req[a].key

Body(a) == req[a].body

ReleasedNever(a) == lock   \* mutated: a lock of the session, not of the transaction

Released(a) == [k \in Keys |-> IF lock[k] = a THEN NoAttempt ELSE lock[k]]

(* Leaving the unit of work, however it ends, frees the lock and the row.   *)
EndTransaction(a) ==
    /\ lock' = Released(a)
    /\ row' = [row EXCEPT ![a] = NoRecord]
    /\ Goto(a, "idle")
    /\ UNCHANGED req

(* The answer may be lost on its way.                                      *)
Answer(x) == answers' \in {answers, answers \cup {x}}

Refuse(a, outcome) ==
    /\ EndTransaction(a)
    /\ Answer(Error(Key(a), Body(a), outcome))
    /\ UNCHANGED <<records, effects>>

-----------------------------------------------------------------------------
(* A client sends a request, for the first time or again.                  *)
Send(a) ==
    /\ pc[a] = "idle"
    /\ \E k \in Keys, b \in Bodies :
         req' = [req EXCEPT ![a] = [key |-> k, body |-> b, resource |-> NoResource]]
    /\ Goto(a, "lock")
    /\ UNCHANGED <<records, effects, answers, lock, row>>

LockFreeAlways(a) == TRUE   \* mutated: the advisory lock is not taken

LockFree(a) == lock[Key(a)] = NoAttempt

(* pg_advisory_xact_lock *)
Lock(a) ==
    /\ pc[a] = "lock"
    /\ LockFree(a)
    /\ lock' = [lock EXCEPT ![Key(a)] = a]
    /\ Goto(a, "lookup")
    /\ UNCHANGED <<records, effects, answers, req, row>>

SameRequestAnyBody(record, body) == TRUE   \* mutated: the hash is not compared

SameRequest(record, body) == record.body = body

(* get and replay_or_conflict: READ COMMITTED, so it sees what the last     *)
(* holder of the lock committed.                                            *)
Lookup(a) ==
    /\ pc[a] = "lookup"
    /\ LET record == records[Key(a)]
       IN  \/ /\ record = NoRecord
              /\ Goto(a, "insert")
              /\ UNCHANGED <<records, effects, answers, lock, req, row>>
           \/ /\ record # NoRecord
              /\ \/ /\ ~SameRequest(record, Body(a))
                    /\ Refuse(a, "conflict")
                 \/ /\ SameRequest(record, Body(a)) /\ record.status # "completed"
                    /\ Refuse(a, "in_progress")
                 \/ /\ SameRequest(record, Body(a)) /\ record.status = "completed"
                    /\ Answer(Success(Key(a), Body(a), record.resource))
                    /\ EndTransaction(a)
                    /\ UNCHANGED <<records, effects>>

(* The INSERT waits while another transaction has the key in flight.        *)
KeyInFlight(a) == \E q \in Attempts \ {a} : row[q] # NoRecord /\ Key(q) = Key(a)

(* add_processing: uq_idempotency_scope_key answers 500.                    *)
Insert(a) ==
    /\ pc[a] = "insert"
    /\ ~KeyInFlight(a)
    /\ \/ /\ records[Key(a)] = NoRecord
          /\ row' = [row EXCEPT ![a] = [body |-> Body(a), status |-> "processing", resource |-> NoResource]]
          /\ Goto(a, "handle")
          /\ UNCHANGED <<records, effects, answers, lock, req>>
       \/ /\ records[Key(a)] # NoRecord
          /\ Refuse(a, "failed")

(* uuid4: an id that no other handler has given.                            *)
Fresh == {x \in Resources : /\ \A e \in effects : e.resource # x
                            /\ \A q \in Attempts : pc[q] # "idle" => req[q].resource # x}

(* The handler does its work, or raises: validation, permission, a version  *)
(* conflict, a constraint of the database.                                  *)
Handle(a) ==
    /\ pc[a] = "handle"
    /\ \/ /\ \E x \in Fresh : req' = [req EXCEPT ![a].resource = x]
          /\ Goto(a, "complete")
          /\ UNCHANGED <<records, effects, answers, lock, row>>
       \/ Refuse(a, "failed")

CompletedNever(record, x) == [record EXCEPT !.resource = x]   \* mutated: the status stays

Completed(record, x) == [record EXCEPT !.status = "completed", !.resource = x]

Complete(a) ==
    /\ pc[a] = "complete"
    /\ row' = [row EXCEPT ![a] = Completed(row[a], req[a].resource)]
    /\ Goto(a, "commit")
    /\ UNCHANGED <<records, effects, answers, lock, req>>

RecordsAfterSeparately(a) == records   \* mutated: the record is left to a later transaction

RecordsAfter(a) == [records EXCEPT ![Key(a)] = row[a]]

Commit(a) ==
    /\ pc[a] = "commit"
    /\ records' = RecordsAfter(a)
    /\ effects' = effects \cup {req[a]}
    /\ Answer(Success(Key(a), Body(a), req[a].resource))
    /\ EndTransaction(a)

(* The worker dies or loses its database connection: nothing is committed.  *)
Crash(a) ==
    /\ pc[a] # "idle"
    /\ EndTransaction(a)
    /\ UNCHANGED <<records, effects, answers>>

Proceed(a) == Lookup(a) \/ Insert(a) \/ Handle(a) \/ Complete(a) \/ Commit(a)

Next == \E a \in Attempts : Send(a) \/ Lock(a) \/ Proceed(a) \/ Crash(a)

Spec == Init /\ [][Next]_vars

(* A worker that can run does; waiting for the lock is first come, first    *)
(* served, so nobody waits for ever while the lock keeps getting free.      *)
FairSpec == Spec /\ \A a \in Attempts : WF_vars(Proceed(a)) /\ SF_vars(Lock(a))

-----------------------------------------------------------------------------
(* However often a client sends a key, its write is committed once: audit,  *)
(* outbox and domain rows are not doubled by retries, by attempts in        *)
(* parallel or by a crash.                                                  *)
AtMostOnce == \A e, f \in effects : e.key = f.key => e = f

(* All clients that were told of a success for a key were told the same, of *)
(* the same request, and it is what was committed.                          *)
AnswersAgree ==
    \A x \in answers : x.outcome = "success" =>
        [key |-> x.key, body |-> x.body, resource |-> x.resource] \in effects

(* The promise to the clients of a key: see OnceRegister.                   *)
Once == INSTANCE OnceRegister WITH
    Unset <- NoRecord,
    register <- [k \in Keys |-> IF records[k] = NoRecord THEN NoRecord
                                ELSE [body |-> records[k].body, resource |-> records[k].resource]]

ImplementsOnce == Once!Spec

(* Every attempt ends, although the attempts of a key queue behind its lock. *)
EveryAttemptEnds == \A a \in Attempts : pc[a] # "idle" ~> pc[a] = "idle"

=============================================================================
