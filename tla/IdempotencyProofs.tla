-------------------------- MODULE IdempotencyProofs --------------------------
(***************************************************************************)
(* Idempotency implements OnceRegister for any number of attempts, keys    *)
(* and requests.  The argument: an attempt that found no record holds the  *)
(* lock of its key until it ends, so the key still has no record when the  *)
(* attempt commits its own.                                                *)
(*                                                                         *)
(* The second part is about EventIntake, where what is done once is found  *)
(* by what a row says and not by a key: a table and every copy of it have  *)
(* one row of a notice, and what two requests are about to commit differs. *)
(***************************************************************************)
EXTENDS Idempotency, EventIntake, TLAPS

HoldsLock(a) == pc[a] \in {"lookup", "insert", "handle", "complete", "commit"} => lock[Key(a)] = a

KeyUnused(a) == pc[a] \in {"insert", "handle", "complete", "commit"} => records[Key(a)] = NoRecord

RowWritten(a) ==
    /\ pc[a] \in {"handle", "complete"} =>
         row[a] = [body |-> Body(a), status |-> "processing", resource |-> NoResource]
    /\ pc[a] \in {"complete", "commit"} => req[a].resource \in Resources
    /\ pc[a] = "commit" =>
         row[a] = [body |-> Body(a), status |-> "completed", resource |-> req[a].resource]

Checked(a) == HoldsLock(a) /\ KeyUnused(a) /\ RowWritten(a)

Effect(k) == [key |-> k, body |-> records[k].body, resource |-> records[k].resource]

(* The records of the keys and the committed writes are the same thing.    *)
EffectsRecorded == effects = {Effect(k) : k \in {k \in Keys : records[k] # NoRecord}}

Inv ==
    /\ TypeOK
    /\ \A a \in Attempts : Checked(a)
    /\ EffectsRecorded
    /\ AnswersAgree

-----------------------------------------------------------------------------
LEMMA InitInv == Init => Inv
  <1> SUFFICES ASSUME Init PROVE Inv
    OBVIOUS
  <1>1. TypeOK
    BY DEF Init, TypeOK, Request, Places
  <1>2. \A a \in Attempts : Checked(a)
    BY DEF Init, Checked, HoldsLock, KeyUnused, RowWritten
  <1>3. EffectsRecorded /\ AnswersAgree
    BY DEF Init, EffectsRecorded, AnswersAgree
  <1>4. QED
    BY <1>1, <1>2, <1>3 DEF Inv

LEMMA EndTransactionType ==
  ASSUME TypeOK, NEW a \in Attempts, EndTransaction(a)
  PROVE  /\ lock' \in [Keys -> Attempts \cup {NoAttempt}]
         /\ pc' \in [Attempts -> Places] /\ pc'[a] = "idle"
         /\ req' = req
         /\ row' \in [Attempts -> Record \cup {NoRecord}]
         /\ \A q \in Attempts : row'[q] # NoRecord => pc'[q] \in {"handle", "complete", "commit"}
         /\ \A q \in Attempts \ {a} :
              /\ pc'[q] = pc[q] /\ row'[q] = row[q]
              /\ \A k \in Keys : lock[k] = q => lock'[k] = q
  BY AttemptAssumption DEF TypeOK, EndTransaction, Released, Goto, Places

LEMMA CheckedKept ==
  ASSUME TypeOK, NEW q \in Attempts, Checked(q),
         pc'[q] = pc[q], req'[q] = req[q], row'[q] = row[q],
         \A k \in Keys : lock[k] = q => lock'[k] = q /\ records'[k] = records[k]
  PROVE  Checked(q)'
  <1>1. Key(q) \in Keys /\ Key(q)' = Key(q) /\ Body(q)' = Body(q)
    BY DEF TypeOK, Request, Key, Body
  <1>2. QED
    BY <1>1 DEF Checked, HoldsLock, KeyUnused, RowWritten

LEMMA IdleChecked ==
  ASSUME NEW q \in Attempts, pc'[q] = "idle"
  PROVE  Checked(q)'
  BY DEF Checked, HoldsLock, KeyUnused, RowWritten

(* An answer that is no success, or that repeats a committed write, is true. *)
LEMMA AnswerKept ==
  ASSUME TypeOK, AnswersAgree, effects \subseteq effects', NEW x \in AnswerSet, Answer(x),
         x.outcome = "success" => [key |-> x.key, body |-> x.body, resource |-> x.resource] \in effects'
  PROVE  AnswersAgree' /\ answers' \subseteq AnswerSet
  BY DEF AnswersAgree, Answer, TypeOK

(* Attempts that end without a commit.                                     *)
LEMMA EndInv ==
  ASSUME Inv, NEW a \in Attempts, EndTransaction(a), UNCHANGED <<records, effects>>,
         answers' \subseteq AnswerSet, AnswersAgree'
  PROVE  Inv'
  <1>1. TypeOK'
    BY EndTransactionType DEF Inv, TypeOK
  <1>2. ASSUME NEW q \in Attempts PROVE Checked(q)'
    <2>1. CASE q = a
      BY <2>1, EndTransactionType, IdleChecked DEF Inv
    <2>2. CASE q # a
      BY <2>2, EndTransactionType, CheckedKept DEF Inv
    <2>3. QED
      BY <2>1, <2>2
  <1>3. EffectsRecorded'
    BY DEF Inv, EffectsRecorded, Effect
  <1>4. QED
    BY <1>1, <1>2, <1>3 DEF Inv

LEMMA RefuseInv ==
  ASSUME Inv, NEW a \in Attempts, NEW outcome \in Outcomes, Refuse(a, outcome)
  PROVE  Inv'
  <1>1. Key(a) \in Keys /\ Body(a) \in Bodies
    BY DEF Inv, TypeOK, Request, Key, Body
  <1>2. Error(Key(a), Body(a), outcome) \in AnswerSet
    BY <1>1 DEF AnswerSet
  <1>3. Error(Key(a), Body(a), outcome).outcome # "success"
    BY DEF Error, Outcomes
  <1>4. AnswersAgree' /\ answers' \subseteq AnswerSet
    BY <1>2, <1>3, AnswerKept DEF Inv, Refuse
  <1>5. QED
    BY <1>4, EndInv DEF Refuse

(* Attempts that go on: only their own place, request and row change.      *)
LEMMA GoOnInv ==
  ASSUME Inv, NEW a \in Attempts, TypeOK', Checked(a)', UNCHANGED <<records, effects, answers>>,
         \A q \in Attempts \ {a} : pc'[q] = pc[q] /\ req'[q] = req[q] /\ row'[q] = row[q],
         \A k \in Keys : lock'[k] = lock[k] \/ lock[k] = NoAttempt
  PROVE  Inv'
  <1>1. ASSUME NEW q \in Attempts PROVE Checked(q)'
    <2>1. CASE q = a
      BY <2>1
    <2>2. CASE q # a
      BY <2>2, AttemptAssumption, CheckedKept DEF Inv
    <2>3. QED
      BY <2>1, <2>2
  <1>2. EffectsRecorded' /\ AnswersAgree'
    BY DEF Inv, EffectsRecorded, Effect, AnswersAgree
  <1>3. QED
    BY <1>1, <1>2 DEF Inv

-----------------------------------------------------------------------------
LEMMA SendLockInv ==
  ASSUME Inv, NEW a \in Attempts, Send(a) \/ Lock(a)
  PROVE  Inv'
  <1>1. CASE Send(a)
    <2>1. TypeOK'
      BY <1>1 DEF Inv, TypeOK, Send, Goto, Request, Places
    <2>2. Checked(a)'
      BY <1>1 DEF Inv, TypeOK, Send, Goto, Checked, HoldsLock, KeyUnused, RowWritten
    <2>3. QED
      BY <1>1, <2>1, <2>2, GoOnInv DEF Inv, TypeOK, Send, Goto
  <1>2. CASE Lock(a)
    <2>1. TypeOK'
      BY <1>2 DEF Inv, TypeOK, Lock, Goto, Places
    <2>2. Key(a) \in Keys
      BY DEF Inv, TypeOK, Request, Key
    <2>3. Checked(a)'
      BY <1>2, <2>2 DEF Inv, TypeOK, Lock, Goto, Checked, HoldsLock, KeyUnused, RowWritten, Key
    <2>4. QED
      BY <1>2, <2>1, <2>3, GoOnInv DEF Inv, TypeOK, Lock, LockFree, Goto
  <1>3. QED
    BY <1>1, <1>2

LEMMA LookupInv ==
  ASSUME Inv, NEW a \in Attempts, Lookup(a)
  PROVE  Inv'
  <1> DEFINE record == records[Key(a)]
  <1>1. Key(a) \in Keys /\ Body(a) \in Bodies
    BY DEF Inv, TypeOK, Request, Key, Body
  <1>2. CASE record = NoRecord
    <2>1. Goto(a, "insert") /\ UNCHANGED <<records, effects, answers, lock, req, row>>
      BY <1>2 DEF Lookup
    <2>2. TypeOK'
      BY <2>1 DEF Inv, TypeOK, Goto, Places, Lookup
    <2>3. Checked(a)'
      BY <1>1, <1>2, <2>1 DEF Inv, TypeOK, Lookup, Goto, Checked, HoldsLock, KeyUnused, RowWritten, Key
    <2>4. QED
      BY <2>1, <2>2, <2>3, GoOnInv DEF Inv, TypeOK, Goto
  <1>3. CASE \E outcome \in {"conflict", "in_progress"} : Refuse(a, outcome)
    BY <1>3, RefuseInv DEF Outcomes
  <1>4. CASE /\ record # NoRecord /\ SameRequest(record, Body(a))
             /\ Answer(Success(Key(a), Body(a), record.resource))
             /\ EndTransaction(a)
             /\ UNCHANGED <<records, effects>>
    <2>1. record \in CommittedRecord /\ record.body = Body(a)
      BY <1>1, <1>4 DEF Inv, TypeOK, SameRequest
    <2> DEFINE x == Success(Key(a), Body(a), record.resource)
    <2>2. x \in AnswerSet
      BY <1>1, <2>1 DEF AnswerSet, CommittedRecord
    <2>3. [key |-> x.key, body |-> x.body, resource |-> x.resource] \in effects
      BY <1>1, <1>4, <2>1 DEF Inv, EffectsRecorded, Effect, Success
    <2> HIDE DEF x
    <2>4. AnswersAgree' /\ answers' \subseteq AnswerSet
      BY <1>4, <2>2, <2>3, AnswerKept DEF Inv, x
    <2>5. QED
      BY <1>4, <2>4, EndInv
  <1>5. QED
    BY <1>2, <1>3, <1>4 DEF Lookup

LEMMA InsertInv ==
  ASSUME Inv, NEW a \in Attempts, Insert(a)
  PROVE  Inv'
  <1>1. CASE Refuse(a, "failed")
    BY <1>1, RefuseInv DEF Outcomes
  <1>2. CASE ~Refuse(a, "failed")
    <2> DEFINE new == [body |-> Body(a), status |-> "processing", resource |-> NoResource]
    <2>1. /\ row' = [row EXCEPT ![a] = new] /\ Goto(a, "handle")
          /\ UNCHANGED <<records, effects, answers, lock, req>> /\ pc[a] = "insert"
      BY <1>2 DEF Insert
    <2>2. new \in Record
      BY DEF Inv, TypeOK, Request, Body, Record
    <2>3. TypeOK'
      BY <2>1, <2>2 DEF Inv, TypeOK, Goto, Places
    <2>4. pc'[a] = "handle" /\ row'[a] = new /\ Key(a)' = Key(a) /\ Body(a)' = Body(a)
      BY <2>1 DEF Inv, TypeOK, Goto, Key, Body
    <2>5. Checked(a)'
      BY <2>1, <2>4 DEF Inv, Checked, HoldsLock, KeyUnused, RowWritten
    <2>6. QED
      BY <2>1, <2>3, <2>5, GoOnInv DEF Inv, TypeOK, Goto
  <1>3. QED
    BY <1>1, <1>2

LEMMA HandleInv ==
  ASSUME Inv, NEW a \in Attempts, Handle(a)
  PROVE  Inv'
  <1>1. CASE Refuse(a, "failed")
    BY <1>1, RefuseInv DEF Outcomes
  <1>2. CASE ~Refuse(a, "failed")
    <2>1. PICK x \in Resources : req' = [req EXCEPT ![a].resource = x]
      BY <1>2 DEF Handle, Fresh
    <2>2. Goto(a, "complete") /\ UNCHANGED <<records, effects, answers, lock, row>> /\ pc[a] = "handle"
      BY <1>2 DEF Handle
    <2>3. /\ req'[a] = [req[a] EXCEPT !.resource = x] /\ req[a] \in Request /\ pc'[a] = "complete"
          /\ req' \in [Attempts -> Request]
      BY <2>1, <2>2 DEF Inv, TypeOK, Request, Goto
    <2>4. TypeOK'
      BY <2>2, <2>3 DEF Inv, TypeOK, Goto, Places
    <2>5. Key(a)' = Key(a) /\ Body(a)' = Body(a) /\ req'[a].resource = x
      BY <2>3 DEF Key, Body, Request
    <2>6. Checked(a)'
      BY <2>2, <2>3, <2>5 DEF Inv, Checked, HoldsLock, KeyUnused, RowWritten
    <2>7. QED
      BY <2>1, <2>2, <2>4, <2>6, GoOnInv DEF Inv, TypeOK, Goto
  <1>3. QED
    BY <1>1, <1>2

LEMMA CompleteInv ==
  ASSUME Inv, NEW a \in Attempts, Complete(a)
  PROVE  Inv'
  <1>1. /\ row' = [row EXCEPT ![a] = Completed(row[a], req[a].resource)]
        /\ Goto(a, "commit") /\ UNCHANGED <<records, effects, answers, lock, req>> /\ pc[a] = "complete"
    BY DEF Complete
  <1> DEFINE new == [body |-> Body(a), status |-> "completed", resource |-> req[a].resource]
  <1>2. Completed(row[a], req[a].resource) = new
    <2>1. row[a] = [body |-> Body(a), status |-> "processing", resource |-> NoResource]
      BY <1>1 DEF Inv, Checked, RowWritten
    <2>2. [row[a] EXCEPT !.status = "completed"] = [body |-> Body(a), status |-> "completed", resource |-> NoResource]
      BY <2>1
    <2>3. Completed(row[a], req[a].resource) = [[row[a] EXCEPT !.status = "completed"] EXCEPT !.resource = req[a].resource]
      BY <2>1 DEF Completed
    <2>4. QED
      BY <2>2, <2>3
  <1>3. new \in Record /\ req[a].resource \in Resources
    BY <1>1 DEF Inv, TypeOK, Request, Body, Record, Checked, RowWritten
  <1>4. TypeOK'
    BY <1>1, <1>2, <1>3 DEF Inv, TypeOK, Goto, Places
  <1>5. pc'[a] = "commit" /\ row'[a] = new /\ Key(a)' = Key(a) /\ Body(a)' = Body(a)
    BY <1>1, <1>2 DEF Inv, TypeOK, Goto, Key, Body
  <1>6. Checked(a)'
    BY <1>1, <1>3, <1>5 DEF Inv, Checked, HoldsLock, KeyUnused, RowWritten
  <1>7. QED
    BY <1>1, <1>4, <1>6, GoOnInv DEF Inv, TypeOK, Goto

(* What a commit makes of a key that was not used.                         *)
LEMMA CommitStep ==
  ASSUME Inv, NEW a \in Attempts, Commit(a)
  PROVE  /\ Key(a) \in Keys /\ Body(a) \in Bodies /\ req[a].resource \in Resources
         /\ records[Key(a)] = NoRecord /\ lock[Key(a)] = a
         /\ records' = [records EXCEPT ![Key(a)] =
                          [body |-> Body(a), status |-> "completed", resource |-> req[a].resource]]
         /\ effects' = effects \cup {[key |-> Key(a), body |-> Body(a), resource |-> req[a].resource]}
  <1>1. req[a] = [key |-> Key(a), body |-> Body(a), resource |-> req[a].resource]
    BY DEF Inv, TypeOK, Request, Key, Body
  <1>2. QED
    BY <1>1 DEF Inv, TypeOK, Request, Key, Body, Commit, RecordsAfter, Checked, HoldsLock, KeyUnused, RowWritten

LEMMA CommitInv ==
  ASSUME Inv, NEW a \in Attempts, Commit(a)
  PROVE  Inv'
  <1>0. PICK k \in Keys, b \in Bodies, y \in Resources : k = Key(a) /\ b = Body(a) /\ y = req[a].resource
    BY CommitStep
  <1> DEFINE new == [body |-> b, status |-> "completed", resource |-> y]
             e   == [key |-> k, body |-> b, resource |-> y]
  <1>1. /\ records[k] = NoRecord /\ lock[k] = a /\ EndTransaction(a)
        /\ records' = [records EXCEPT ![k] = new] /\ effects' = effects \cup {e}
        /\ Answer(Success(k, b, y))
    BY <1>0, CommitStep DEF Commit
  <1>2. new \in CommittedRecord /\ new # NoRecord
    BY RecordAssumption DEF CommittedRecord, Record
  <1>3. records'[k] = new /\ \A j \in Keys \ {k} : records'[j] = records[j]
    BY <1>1 DEF Inv, TypeOK
  <1>4. AnswersAgree' /\ answers' \subseteq AnswerSet
    <2>1. Success(k, b, y) \in AnswerSet
      BY DEF AnswerSet
    <2>2. [key |-> Success(k, b, y).key, body |-> Success(k, b, y).body,
           resource |-> Success(k, b, y).resource] \in effects'
      BY <1>1 DEF Success
    <2>3. QED
      BY <1>1, <2>1, <2>2, AnswerKept DEF Inv
  <1>5. TypeOK'
    <2>1. records' \in [Keys -> CommittedRecord \cup {NoRecord}]
      BY <1>1, <1>2 DEF Inv, TypeOK
    <2>2. effects' \subseteq [key: Keys, body: Bodies, resource: Resources]
      BY <1>1 DEF Inv, TypeOK
    <2>3. QED
      BY <1>1, <1>4, <2>1, <2>2, EndTransactionType DEF Inv, TypeOK
  <1>6. ASSUME NEW q \in Attempts PROVE Checked(q)'
    <2>1. CASE q = a
      BY <1>1, <2>1, EndTransactionType, IdleChecked DEF Inv
    <2>2. CASE q # a
      <3>1. \A j \in Keys : lock[j] = q => lock'[j] = q /\ records'[j] = records[j]
        BY <1>1, <1>3, <2>2, EndTransactionType DEF Inv
      <3>2. QED
        BY <1>1, <2>2, <3>1, EndTransactionType, CheckedKept DEF Inv
    <2>3. QED
      BY <2>1, <2>2
  <1>7. EffectsRecorded'
    <2>1. Effect(k)' = e /\ \A j \in Keys \ {k} : Effect(j)' = Effect(j)
      BY <1>3 DEF Effect
    <2>2. {j \in Keys : records'[j] # NoRecord} = {j \in Keys : records[j] # NoRecord} \cup {k}
      BY <1>2, <1>3
    <2> HIDE DEF e, new
    <2>3. QED
      BY <1>1, <2>1, <2>2 DEF Inv, EffectsRecorded
  <1>8. QED
    BY <1>4, <1>5, <1>6, <1>7 DEF Inv

LEMMA CrashInv ==
  ASSUME Inv, NEW a \in Attempts, Crash(a)
  PROVE  Inv'
  BY EndInv DEF Crash, Inv, TypeOK, AnswersAgree

LEMMA StepInv == Inv /\ [Next]_vars => Inv'
  <1> SUFFICES ASSUME Inv, [Next]_vars PROVE Inv'
    OBVIOUS
  <1>1. ASSUME NEW a \in Attempts, Send(a) \/ Lock(a) \/ Proceed(a) \/ Crash(a)
        PROVE  Inv'
    BY <1>1, SendLockInv, LookupInv, InsertInv, HandleInv, CompleteInv, CommitInv, CrashInv DEF Proceed
  <1>2. CASE UNCHANGED vars
    <2>1. TypeOK' /\ EffectsRecorded' /\ AnswersAgree'
      BY <1>2 DEF vars, Inv, TypeOK, EffectsRecorded, Effect, AnswersAgree
    <2>2. ASSUME NEW q \in Attempts PROVE Checked(q)'
      BY <1>2, CheckedKept DEF vars, Inv
    <2>3. QED
      BY <2>1, <2>2 DEF Inv
  <1>3. QED
    BY <1>1, <1>2 DEF Next

-----------------------------------------------------------------------------
(* The inductive invariant: the record of a key and its committed write are *)
(* one, and whoever is past the lookup works alone on its key.              *)
THEOREM Invariance == Spec => []Inv
  BY InitInv, StepInv, PTL DEF Spec

(* No record is ever committed half done.                                   *)
THEOREM TypeCorrect == Spec => []TypeOK
  <1>1. Inv => TypeOK
    BY DEF Inv
  <1>2. QED
    BY <1>1, Invariance, PTL

(* A key's write is committed at most once, whatever retries, parallel      *)
(* attempts and crashes (IdempotencyExecutor.execute).                      *)
THEOREM WrittenOnce == Spec => []AtMostOnce
  <1>1. Inv => AtMostOnce
    BY DEF Inv, EffectsRecorded, Effect, AtMostOnce
  <1>2. QED
    BY <1>1, Invariance, PTL

(* Every success that a client was told of is the committed write of its    *)
(* key and of its own request.                                              *)
THEOREM AnswersTrue == Spec => []AnswersAgree
  <1>1. Inv => AnswersAgree
    BY DEF Inv
  <1>2. QED
    BY <1>1, Invariance, PTL

-----------------------------------------------------------------------------
Register == [k \in Keys |-> IF records[k] = NoRecord THEN NoRecord
                            ELSE [body |-> records[k].body, resource |-> records[k].resource]]

LEMMA NoEffectStutters ==
  ASSUME UNCHANGED <<records, effects, answers>>
  PROVE  UNCHANGED Once!vars
  BY DEF Once!vars

LEMMA RegisterSet ==
  ASSUME TypeOK, NEW k \in Keys, records[k] # NoRecord
  PROVE  /\ Register[k] = [body |-> records[k].body, resource |-> records[k].resource]
         /\ Register[k] # NoRecord
  <1>1. records[k] \in CommittedRecord
    BY DEF TypeOK
  <1>2. [body |-> records[k].body, resource |-> records[k].resource] # NoRecord
    BY <1>1, RecordAssumption DEF CommittedRecord
  <1>3. QED
    BY <1>2 DEF Register

LEMMA RefuseSimulates ==
  ASSUME Inv, NEW a \in Attempts, NEW outcome \in Outcomes, Refuse(a, outcome),
         outcome = "conflict" => records[Key(a)] # NoRecord /\ records[Key(a)].body # Body(a),
         outcome # "conflict" => outcome = "failed" /\ records[Key(a)] = NoRecord
  PROVE  Once!Next
  <1>1. PICK k \in Keys, b \in Bodies : k = Key(a) /\ b = Body(a)
    BY DEF Inv, TypeOK, Request, Key, Body
  <1>2. UNCHANGED <<Register, effects>> /\ Once!Answer(Once!Error(k, b, outcome))
    BY <1>1 DEF Refuse, Answer, Error, Register, Once!Answer, Once!Error
  <1>3. CASE outcome = "conflict"
    <2>1. Register[k] # NoRecord /\ Register[k].body # b
      <3>1. TypeOK /\ records[k] # NoRecord /\ records[k].body # b
        BY <1>1, <1>3 DEF Inv
      <3>2. /\ Register[k] = [body |-> records[k].body, resource |-> records[k].resource]
            /\ Register[k] # NoRecord
        BY <3>1, RegisterSet
      <3>3. QED
        BY <3>1, <3>2
    <2>2. Once!Refuse(k, b)
      BY <1>2, <1>3, <2>1 DEF Once!Refuse, Register
    <2>3. QED
      BY <2>2 DEF Once!Next
  <1>4. CASE outcome # "conflict"
    <2>1. Register[k] = NoRecord /\ outcome = "failed"
      BY <1>1, <1>4 DEF Register
    <2>2. Once!Fail(k, b)
      BY <1>2, <2>1 DEF Once!Fail, Register
    <2>3. QED
      BY <2>2 DEF Once!Next
  <1>5. QED
    BY <1>3, <1>4

LEMMA LookupSimulates ==
  ASSUME Inv, NEW a \in Attempts, Lookup(a)
  PROVE  Once!Next \/ UNCHANGED Once!vars
  <1>1. PICK k \in Keys, b \in Bodies : k = Key(a) /\ b = Body(a)
    BY DEF Inv, TypeOK, Request, Key, Body
  <1>2. CASE records[k] = NoRecord
    BY <1>1, <1>2, NoEffectStutters DEF Lookup
  <1>3. CASE records[k] # NoRecord /\ records[k].body # b
    <2>1. Refuse(a, "conflict")
      BY <1>1, <1>3 DEF Lookup, SameRequest
    <2>2. records[Key(a)] # NoRecord /\ records[Key(a)].body # Body(a) /\ "conflict" \in Outcomes
      BY <1>1, <1>3 DEF Outcomes
    <2>3. QED
      BY <2>1, <2>2, RefuseSimulates
  <1>4. CASE records[k] # NoRecord /\ records[k].body = b
    <2>1. records[k].status = "completed"
      BY <1>4 DEF Inv, TypeOK, CommittedRecord
    <2>2. Answer(Success(k, b, records[k].resource)) /\ UNCHANGED <<records, effects>>
      BY <1>1, <1>4, <2>1 DEF Lookup, SameRequest
    <2>3. Register[k] = [body |-> b, resource |-> records[k].resource] /\ Register[k] # NoRecord
      BY <1>4, RegisterSet DEF Inv
    <2>4. Once!Replay(k)
      BY <2>2, <2>3 DEF Once!Replay, Answer, Success, Once!Answer, Once!Success, Register
    <2>5. QED
      BY <1>1, <2>4 DEF Once!Next
  <1>5. QED
    BY <1>2, <1>3, <1>4

LEMMA CommitSimulates ==
  ASSUME Inv, NEW a \in Attempts, Commit(a)
  PROVE  Once!Next
  <1>1. PICK k \in Keys, b \in Bodies, y \in Resources : k = Key(a) /\ b = Body(a) /\ y = req[a].resource
    BY CommitStep
  <1> DEFINE new == [body |-> b, status |-> "completed", resource |-> y]
  <1>2. /\ records[k] = NoRecord /\ records' = [records EXCEPT ![k] = new]
        /\ effects' = effects \cup {[key |-> k, body |-> b, resource |-> y]}
        /\ Answer(Success(k, b, y))
    BY <1>1, CommitStep DEF Commit
  <1>3. new \in Record
    BY DEF Record
  <1>4. records'[k] = new /\ new # NoRecord /\ \A j \in Keys \ {k} : records'[j] = records[j]
    BY <1>2, <1>3, RecordAssumption DEF Inv, TypeOK
  <1>5. Register' = [Register EXCEPT ![k] = [body |-> b, resource |-> y]]
    <2> HIDE DEF new
    <2>1. new.body = b /\ new.resource = y
      BY DEF new
    <2>2. QED
      BY <1>4, <2>1 DEF Register
  <1>6. Once!Execute(k, b, y)
    BY <1>2, <1>5 DEF Once!Execute, Register, Answer, Success, Once!Answer, Once!Success
  <1>7. QED
    BY <1>6 DEF Once!Next

LEMMA StepSimulates ==
  ASSUME Inv, [Next]_vars
  PROVE  [Once!Next]_Once!vars
  <1>1. CASE UNCHANGED vars
    BY <1>1, NoEffectStutters DEF vars
  <1>2. ASSUME NEW a \in Attempts, Send(a) \/ Lock(a) \/ Complete(a) \/ Crash(a)
        PROVE  UNCHANGED Once!vars
    BY <1>2, NoEffectStutters DEF Send, Lock, Complete, Crash
  <1>3. ASSUME NEW a \in Attempts, Insert(a) \/ Handle(a)
        PROVE  Once!Next \/ UNCHANGED Once!vars
    <2>1. CASE Refuse(a, "failed")
      <3>1. records[Key(a)] = NoRecord
        BY <1>3 DEF Insert, Handle, Inv, Checked, KeyUnused
      <3>2. QED
        BY <2>1, <3>1, RefuseSimulates DEF Outcomes
    <2>2. CASE ~Refuse(a, "failed")
      BY <1>3, <2>2, NoEffectStutters DEF Insert, Handle
    <2>3. QED
      BY <2>1, <2>2
  <1>4. QED
    BY <1>1, <1>2, <1>3, LookupSimulates, CommitSimulates DEF Next, Proceed

(* The executor keeps the promise of OnceRegister: an answer comes from the  *)
(* register, only a request that could have set it may fail, and no client   *)
(* is told that its request is still being processed.                        *)
THEOREM Implements == Spec => ImplementsOnce
  <1>1. Init => Once!Init
    BY DEF Init, Once!Init
  <1>2. QED
    BY <1>1, StepSimulates, Invariance, PTL DEF Spec, ImplementsOnce, Once!Spec

-----------------------------------------------------------------------------
(* EventIntake *)

(* A row that is in the table, or in the copy some request has of it.      *)
Held(d) == d \in deliveries \/ \E r \in Requests : d \in work[r].dels

Work == [pc: {"idle", "act", "save", "flush", "commit", "append", "appended", "done"},
         dels: SUBSET Delivery, prefs: [Settings -> Preference \cup {None}],
         base: SUBSET Delivery, bprefs: [Settings -> Preference \cup {None}],
         event: Events \cup {None}, answer: Notices \cup Events \cup {None}]

IntakeTypeOK ==
    /\ deliveries \subseteq Delivery
    /\ preferences \in [Settings -> Preference \cup {None}]
    /\ facts \subseteq Fact
    /\ work \in [Requests -> Work]

OneOfEach(rows) == \A d, e \in rows : d.notice = e.notice => d = e

(* Every table and every copy has one row of a notice; the rows that one   *)
(* request has made, at whatever version, are of one notice.               *)
RowsUnique ==
    /\ OneOfEach(deliveries)
    /\ \A r \in Requests : OneOfEach(work[r].dels)
    /\ \A d, e \in Delivery : Held(d) /\ Held(e) /\ d.by = e.by => d.notice = e.notice
    /\ \A r \in Requests : work[r].pc \in {"idle", "act"} => \A d \in Delivery : Held(d) => d.by # r

Apart(rows, others) == \A d \in rows, e \in others : d.notice = e.notice => d.by = e.by

(* What was compared at the flush holds until the commit.                  *)
FlushHolds ==
    \A r \in Requests : work[r].pc = "commit" =>
        /\ Apart(Writes(r), deliveries)
        /\ \A q \in Requests \ {r} : work[q].pc = "commit" =>
             \A d \in Writes(r), e \in Writes(q) : d.notice # e.notice /\ d.by # e.by

(* What a request will answer is in its copy, what it does not write is    *)
(* still there in some version.                                            *)
AnswerBacked ==
    \A r \in Requests :
        /\ \A d \in work[r].base : \E e \in deliveries : e.notice = d.notice
        /\ work[r].pc \in {"save", "flush", "commit"} /\ work[r].answer # None =>
             \E d \in work[r].dels : d.notice = work[r].answer

FactsApart ==
    \A r \in Requests :
        /\ work[r].pc \in {"append", "appended"} => work[r].event \in Events /\ work[r].answer = work[r].event
        /\ work[r].pc = "appended" =>
             /\ Recorded(work[r].event) = {}
             /\ \A q \in Requests \ {r} : work[q].pc = "appended" => work[q].event # work[r].event

IntakeInv == IntakeTypeOK /\ RowsUnique /\ FlushHolds /\ AnswerBacked /\ FactsApart /\ EachEventOnce

-----------------------------------------------------------------------------
LEMMA IntakeInitInv == IntakeInit => IntakeInv
  <1> SUFFICES ASSUME IntakeInit PROVE IntakeInv
    OBVIOUS
  <1>1. IntakeTypeOK
    BY DEF IntakeInit, IntakeTypeOK, Idle, Work
  <1>2. RowsUnique
    BY DEF IntakeInit, RowsUnique, OneOfEach, Held, Idle
  <1>3. FlushHolds /\ AnswerBacked /\ FactsApart /\ EachEventOnce
    BY DEF IntakeInit, FlushHolds, AnswerBacked, FactsApart, EachEventOnce, Idle
  <1>4. QED
    BY <1>1, <1>2, <1>3 DEF IntakeInv

(* A request that is not about to commit, or no longer, frees what it had. *)
LEMMA FlushKept ==
  ASSUME IntakeInv, NEW r \in Requests, deliveries' = deliveries, work'[r].pc # "commit",
         \A q \in Requests \ {r} : work'[q] = work[q]
  PROVE  FlushHolds'
  <1>1. \A q \in Requests \ {r} : Writes(q)' = Writes(q)
    BY DEF Writes
  <1>2. ASSUME NEW q \in Requests, work'[q].pc = "commit"
        PROVE  q # r /\ work[q].pc = "commit" /\ Writes(q)' = Writes(q)
    BY <1>1, <1>2
  <1>3. \A q \in Requests : work'[q].pc = "commit" => Apart(Writes(q), deliveries)'
    BY <1>2 DEF IntakeInv, FlushHolds, Apart
  <1>4. ASSUME NEW q \in Requests, work'[q].pc = "commit", NEW p \in Requests \ {q}, work'[p].pc = "commit"
        PROVE  \A d \in Writes(q)', e \in Writes(p)' : d.notice # e.notice /\ d.by # e.by
    BY <1>2, <1>4 DEF IntakeInv, FlushHolds
  <1>5. QED
    BY <1>3, <1>4 DEF FlushHolds

(* What the service makes of the copy: rows it had, or rows of its own.    *)
LEMMA ActedInv ==
  ASSUME IntakeInv, NEW r \in Requests, NEW dels \in SUBSET Delivery,
         NEW prefs \in [Settings -> Preference \cup {None}],
         NEW answer \in Notices \cup {None}, NEW n,
         Acted(r, dels, prefs, answer), OneOfEach(dels),
         \A d \in dels : \/ \E e \in work[r].dels : e.by = d.by /\ e.notice = d.notice
                         \/ d.by = r /\ d.notice = n,
         answer # None => \E d \in dels : d.notice = answer
  PROVE  IntakeInv'
  <1> DEFINE w == [work[r] EXCEPT !.pc = "save", !.dels = dels, !.prefs = prefs, !.answer = answer]
  <1>1. /\ work[r] \in Work /\ work[r].pc = "act" /\ work' = [work EXCEPT ![r] = w]
        /\ deliveries' = deliveries /\ preferences' = preferences /\ facts' = facts
    BY DEF IntakeInv, IntakeTypeOK, Acted
  <1>2. /\ w \in Work /\ w.pc = "save" /\ w.dels = dels /\ w.base = work[r].base
        /\ w.event = work[r].event /\ w.answer = answer
    BY <1>1 DEF Work
  <1> HIDE DEF w
  <1>3. IntakeTypeOK'
    BY <1>1, <1>2 DEF IntakeInv, IntakeTypeOK
  <1>4. work'[r] = w /\ \A q \in Requests \ {r} : work'[q] = work[q]
    BY <1>1 DEF IntakeInv, IntakeTypeOK
  <1>5. RowsUnique'
    <2>1. OneOfEach(deliveries') /\ \A q \in Requests : OneOfEach(work'[q].dels)
      BY <1>1, <1>2, <1>4 DEF IntakeInv, RowsUnique
    <2>2. ASSUME NEW d \in Delivery, Held(d)'
          PROVE  \/ \E e \in Delivery : Held(e) /\ e.by = d.by /\ e.notice = d.notice
                 \/ d.by = r /\ d.notice = n
      BY <1>1, <1>2, <1>4, <2>2 DEF Held, Work
    <2>3. \A d \in Delivery : Held(d) => d.by # r
      BY <1>1 DEF IntakeInv, RowsUnique
    <2>4. ASSUME NEW d \in Delivery, NEW e \in Delivery, Held(d)', Held(e)', d.by = e.by
          PROVE  d.notice = e.notice
      BY <2>2, <2>3, <2>4 DEF IntakeInv, RowsUnique
    <2>5. ASSUME NEW q \in Requests, work'[q].pc \in {"idle", "act"}, NEW d \in Delivery, Held(d)'
          PROVE  d.by # q
      BY <1>2, <1>4, <2>2, <2>5 DEF IntakeInv, RowsUnique
    <2>6. QED
      BY <2>1, <2>4, <2>5 DEF RowsUnique
  <1>6. FlushHolds'
    BY <1>1, <1>2, <1>4, FlushKept
  <1>7. AnswerBacked'
    BY <1>1, <1>2, <1>4 DEF IntakeInv, AnswerBacked
  <1>8. FactsApart'
    BY <1>1, <1>2, <1>4 DEF IntakeInv, FactsApart, Recorded
  <1>9. EachEventOnce'
    BY <1>1, <1>2, <1>4 DEF IntakeInv, EachEventOnce
  <1>10. QED
    BY <1>3, <1>5, <1>6, <1>7, <1>8, <1>9 DEF IntakeInv

LEMMA ConsumeInv ==
  ASSUME IntakeInv, NEW r \in Requests, Consume(r)
  PROVE  IntakeInv'
  <1>1. PICK n \in Notices :
        LET p == SettingOf[n]
            off == ~Setting(r, p).enabled
            known == \E d \in work[r].dels : d.notice = n
            new == [notice |-> n, by |-> r, status |-> "unread", version |-> 1]
        IN  Acted(r, IF off \/ known THEN work[r].dels ELSE work[r].dels \cup {new},
                  WithSetting(r, p), IF off THEN None ELSE n)
    BY DEF Consume
  <1> DEFINE off == ~Setting(r, SettingOf[n]).enabled
             known == \E d \in work[r].dels : d.notice = n
             new == [notice |-> n, by |-> r, status |-> "unread", version |-> 1]
             dels == IF off \/ known THEN work[r].dels ELSE work[r].dels \cup {new}
             prefs == WithSetting(r, SettingOf[n])
             answer == IF off THEN None ELSE n
  <1>2. Acted(r, dels, prefs, answer)
    BY <1>1
  <1>3. work[r] \in Work /\ SettingOf[n] \in Settings
    BY SettingsAssumption DEF IntakeInv, IntakeTypeOK
  <1>4. new \in Delivery /\ new.notice = n /\ new.by = r
    BY DEF Delivery
  <1>5. prefs \in [Settings -> Preference \cup {None}]
    BY <1>3 DEF WithSetting, Setting, Work, Preference
  <1>6. OneOfEach(work[r].dels)
    BY DEF IntakeInv, RowsUnique
  <1> HIDE DEF new, prefs, off
  <1>7. dels \in SUBSET Delivery /\ OneOfEach(dels)
    BY <1>3, <1>4, <1>6 DEF Work, OneOfEach
  <1>8. \A d \in dels : \/ \E e \in work[r].dels : e.by = d.by /\ e.notice = d.notice
                        \/ d.by = r /\ d.notice = n
    BY <1>4
  <1>9. answer \in Notices \cup {None} /\ (answer # None => \E d \in dels : d.notice = answer)
    BY <1>4
  <1> HIDE DEF dels, answer
  <1>10. QED
    BY <1>2, <1>5, <1>7, <1>8, <1>9, ActedInv

LEMMA MarkedType ==
  ASSUME NEW d \in Delivery, NEW status \in {"unread", "read"}
  PROVE  /\ Marked(d, status) \in Delivery
         /\ Marked(d, status).notice = d.notice /\ Marked(d, status).by = d.by
  <1>1. /\ d.notice \in Notices /\ d.by \in Requests /\ d.version \in Nat
        /\ d = [notice |-> d.notice, by |-> d.by, status |-> d.status, version |-> d.version]
    BY DEF Delivery
  <1> DEFINE v == d.version + 1
  <1>2. v \in Nat
    BY <1>1
  <1>3. Marked(d, status) = [notice |-> d.notice, by |-> d.by, status |-> status, version |-> v]
    <2>1. Marked(d, status) = [d EXCEPT !.status = status, !.version = v]
      BY <1>1 DEF Marked
    <2> HIDE DEF v
    <2>2. QED
      BY <1>1, <2>1
  <1> HIDE DEF v
  <1>4. QED
    BY <1>1, <1>2, <1>3 DEF Delivery

(* No row is added: the rows keep notice and maker.                        *)
LEMMA RewrittenInv ==
  ASSUME IntakeInv, NEW r \in Requests, NEW dels \in SUBSET Delivery,
         NEW prefs \in [Settings -> Preference \cup {None}], Acted(r, dels, prefs, None),
         OneOfEach(dels),
         \A d \in dels : \E e \in work[r].dels : e.by = d.by /\ e.notice = d.notice
  PROVE  IntakeInv'
  BY ActedInv

LEMMA SetReadStateInv ==
  ASSUME IntakeInv, NEW r \in Requests, SetReadState(r)
  PROVE  IntakeInv'
  <1>1. PICK d \in work[r].dels, status \in {"read", "unread"} :
          Acted(r, (work[r].dels \ {d}) \cup {Marked(d, status)}, work[r].prefs, None)
    BY DEF SetReadState
  <1>2. work[r] \in Work /\ work[r].dels \subseteq Delivery /\ OneOfEach(work[r].dels)
    BY DEF IntakeInv, IntakeTypeOK, RowsUnique, Work
  <1> DEFINE m == Marked(d, status)
             dels == (work[r].dels \ {d}) \cup {m}
  <1>3. m \in Delivery /\ m.notice = d.notice /\ m.by = d.by
    BY <1>2, MarkedType
  <1> HIDE DEF m
  <1>4. dels \in SUBSET Delivery /\ OneOfEach(dels)
    BY <1>2, <1>3 DEF OneOfEach
  <1>5. \A e \in dels : \E f \in work[r].dels : f.by = e.by /\ f.notice = e.notice
    BY <1>3
  <1>6. Acted(r, dels, work[r].prefs, None)
    BY <1>1 DEF m
  <1> HIDE DEF dels
  <1>7. QED
    BY <1>2, <1>4, <1>5, <1>6, RewrittenInv DEF Work

LEMMA ReadAllInv ==
  ASSUME IntakeInv, NEW r \in Requests, ReadAll(r)
  PROVE  IntakeInv'
  <1> DEFINE read(d) == IF d.status = "unread" THEN Marked(d, "read") ELSE d
             dels == {read(d) : d \in work[r].dels}
  <1>1. Acted(r, dels, work[r].prefs, None)
    BY DEF ReadAll
  <1>2. work[r] \in Work /\ work[r].dels \subseteq Delivery /\ OneOfEach(work[r].dels)
    BY DEF IntakeInv, IntakeTypeOK, RowsUnique, Work
  <1>3. \A d \in work[r].dels : read(d) \in Delivery /\ read(d).notice = d.notice /\ read(d).by = d.by
    BY <1>2, MarkedType
  <1> HIDE DEF read
  <1>4. dels \in SUBSET Delivery /\ OneOfEach(dels)
    BY <1>2, <1>3 DEF OneOfEach
  <1>5. \A e \in dels : \E f \in work[r].dels : f.by = e.by /\ f.notice = e.notice
    BY <1>3
  <1> HIDE DEF dels
  <1>6. QED
    BY <1>1, <1>2, <1>4, <1>5, RewrittenInv DEF Work

LEMMA UpdatePreferenceInv ==
  ASSUME IntakeInv, NEW r \in Requests, UpdatePreference(r)
  PROVE  IntakeInv'
  <1>1. PICK p \in Settings, enabled \in BOOLEAN :
          LET set == [enabled |-> enabled, version |-> Setting(r, p).version + 1] IN
          Acted(r, work[r].dels, [work[r].prefs EXCEPT ![p] = set], None)
    BY DEF UpdatePreference
  <1> DEFINE set == [enabled |-> enabled, version |-> Setting(r, p).version + 1]
             prefs == [work[r].prefs EXCEPT ![p] = set]
  <1>2. /\ work[r] \in Work /\ work[r].dels \subseteq Delivery /\ OneOfEach(work[r].dels)
        /\ work[r].prefs \in [Settings -> Preference \cup {None}]
    BY DEF IntakeInv, IntakeTypeOK, RowsUnique, Work
  <1>3. Setting(r, p).version \in Nat
    BY <1>2 DEF Setting, Preference
  <1>4. set \in Preference
    BY <1>3 DEF Preference
  <1>5. Acted(r, work[r].dels, prefs, None)
    BY <1>1
  <1> HIDE DEF set
  <1>6. prefs \in [Settings -> Preference \cup {None}]
    BY <1>2, <1>4
  <1> HIDE DEF prefs
  <1>7. QED
    BY <1>2, <1>5, <1>6, RewrittenInv

-----------------------------------------------------------------------------
(* A step of one request that leaves the tables alone.                     *)
LEMMA OneMoves ==
  ASSUME IntakeInv, NEW r \in Requests, NEW w \in Work, work' = [work EXCEPT ![r] = w]
  PROVE  /\ work'[r] = w /\ \A q \in Requests \ {r} : work'[q] = work[q]
         /\ work[r] \in Work /\ work' \in [Requests -> Work]
  BY DEF IntakeInv, IntakeTypeOK

(* The copy of the request is the old one, the table, or none.             *)
LEMMA UnitInv ==
  ASSUME IntakeInv, NEW r \in Requests, NEW w \in Work, work' = [work EXCEPT ![r] = w],
         UNCHANGED <<deliveries, preferences, facts>>,
         w.dels \in {work[r].dels, deliveries, {}},
         w.pc \in {"idle", "act"} => work[r].pc \in {"idle", "act"},
         FlushHolds', AnswerBacked', FactsApart', EachEventOnce'
  PROVE  IntakeInv'
  <1>1. /\ work'[r] = w /\ \A q \in Requests \ {r} : work'[q] = work[q]
        /\ work[r] \in Work /\ work' \in [Requests -> Work]
    BY OneMoves
  <1>2. IntakeTypeOK'
    BY <1>1 DEF IntakeInv, IntakeTypeOK
  <1>3. \A d \in Delivery : Held(d)' => Held(d)
    BY <1>1 DEF Held
  <1>4. \A q \in Requests : OneOfEach(work'[q].dels)
    <2>1. OneOfEach({}) /\ OneOfEach(deliveries) /\ OneOfEach(work[r].dels)
      BY DEF IntakeInv, RowsUnique, OneOfEach
    <2>2. QED
      BY <1>1, <2>1 DEF IntakeInv, RowsUnique
  <1>5. RowsUnique'
    BY <1>1, <1>3, <1>4 DEF IntakeInv, RowsUnique
  <1>6. QED
    BY <1>2, <1>5 DEF IntakeInv

LEMMA LoadInv ==
  ASSUME IntakeInv, NEW r \in Requests, Load(r)
  PROVE  IntakeInv'
  <1> DEFINE w == [Idle EXCEPT !.pc = "act", !.dels = deliveries, !.prefs = preferences]
  <1>1. /\ work[r].pc = "idle" /\ work' = [work EXCEPT ![r] = w]
        /\ UNCHANGED <<deliveries, preferences, facts>>
    BY DEF Load
  <1>2. /\ w \in Work /\ w.pc = "act" /\ w.dels = deliveries /\ w.base = {}
    BY DEF Idle, Work, IntakeInv, IntakeTypeOK
  <1> HIDE DEF w
  <1>3. work'[r] = w /\ \A q \in Requests \ {r} : work'[q] = work[q]
    BY <1>1, <1>2, OneMoves
  <1>4. FlushHolds' /\ AnswerBacked' /\ FactsApart' /\ EachEventOnce'
    <2>1. FlushHolds'
      BY <1>1, <1>2, <1>3, FlushKept
    <2>2. AnswerBacked'
      BY <1>1, <1>2, <1>3 DEF IntakeInv, AnswerBacked
    <2>3. FactsApart' /\ EachEventOnce'
      BY <1>1, <1>2, <1>3 DEF IntakeInv, FactsApart, EachEventOnce, Recorded
    <2>4. QED
      BY <2>1, <2>2, <2>3
  <1>5. QED
    BY <1>1, <1>2, <1>4, UnitInv

LEMMA SaveInv ==
  ASSUME IntakeInv, NEW r \in Requests, Save(r)
  PROVE  IntakeInv'
  <1> DEFINE w == [work[r] EXCEPT !.pc = "flush", !.base = deliveries, !.bprefs = preferences]
  <1>1. /\ work[r] \in Work /\ work[r].pc = "save" /\ work' = [work EXCEPT ![r] = w]
        /\ UNCHANGED <<deliveries, preferences, facts>>
    BY DEF Save, IntakeInv, IntakeTypeOK
  <1>2. /\ w \in Work /\ w.pc = "flush" /\ w.dels = work[r].dels /\ w.base = deliveries
        /\ w.answer = work[r].answer
    BY <1>1 DEF Work, IntakeInv, IntakeTypeOK
  <1> HIDE DEF w
  <1>3. work'[r] = w /\ \A q \in Requests \ {r} : work'[q] = work[q]
    BY <1>1, <1>2, OneMoves
  <1>4. FlushHolds' /\ AnswerBacked' /\ FactsApart' /\ EachEventOnce'
    <2>1. FlushHolds'
      BY <1>1, <1>2, <1>3, FlushKept
    <2>2. AnswerBacked'
      BY <1>1, <1>2, <1>3 DEF IntakeInv, AnswerBacked
    <2>3. FactsApart' /\ EachEventOnce'
      BY <1>1, <1>2, <1>3 DEF IntakeInv, FactsApart, EachEventOnce, Recorded
    <2>4. QED
      BY <2>1, <2>2, <2>3
  <1>5. QED
    BY <1>1, <1>2, <1>4, UnitInv

LEMMA FlushInv ==
  ASSUME IntakeInv, NEW r \in Requests, Flush(r)
  PROVE  IntakeInv'
  <1> DEFINE w == [work[r] EXCEPT !.pc = "commit"]
  <1>1. /\ work[r] \in Work /\ work[r].pc = "flush" /\ work' = [work EXCEPT ![r] = w]
        /\ UNCHANGED <<deliveries, preferences, facts>>
    BY DEF Flush, MovedTo, IntakeInv, IntakeTypeOK
  <1>2. /\ w \in Work /\ w.pc = "commit" /\ w.dels = work[r].dels /\ w.base = work[r].base
        /\ w.answer = work[r].answer
    BY <1>1 DEF Work
  <1> HIDE DEF w
  <1>3. work'[r] = w /\ \A q \in Requests \ {r} : work'[q] = work[q]
    BY <1>1, <1>2, OneMoves
  <1>4. /\ \A q \in Requests : Writes(q)' = Writes(q)
        /\ Apart(Writes(r), deliveries)
        /\ \A q \in Requests \ {r} : work[q].pc = "commit" =>
             \A d \in Writes(r), e \in Writes(q) : d.notice # e.notice /\ d.by # e.by
    <2>1. \A q \in Requests : Writes(q)' = Writes(q)
      BY <1>2, <1>3 DEF Writes
    <2>2. Apart(Writes(r), deliveries)
      BY DEF Flush, Duplicates, Apart
    <2>3. \A q \in Requests \ {r} : work[q].pc = "commit" =>
             \A d \in Writes(r), e \in Writes(q) : d.notice # e.notice /\ d.by # e.by
      BY DEF Flush, Duplicates
    <2>4. QED
      BY <2>1, <2>2, <2>3
  <1>5. FlushHolds'
    <2>1. deliveries' = deliveries
      BY <1>1
    <2>2. QED
      BY <1>2, <1>3, <1>4, <2>1 DEF IntakeInv, FlushHolds, Apart
  <1>6. AnswerBacked' /\ FactsApart' /\ EachEventOnce'
    <2>1. AnswerBacked'
      BY <1>1, <1>2, <1>3 DEF IntakeInv, AnswerBacked
    <2>2. FactsApart' /\ EachEventOnce'
      BY <1>1, <1>2, <1>3 DEF IntakeInv, FactsApart, EachEventOnce, Recorded
    <2>3. QED
      BY <2>1, <2>2
  <1>7. QED
    BY <1>1, <1>2, <1>5, <1>6, UnitInv

(* The rows that are replaced at a commit are of the notices of the rows   *)
(* that replace them: no notice is ever without its row again.             *)
LEMMA NoticesKept ==
  ASSUME IntakeInv, NEW r \in Requests, CommitDeliveries(r)
  PROVE  /\ deliveries' \subseteq Delivery
         /\ \A d \in deliveries : \E e \in deliveries' : e.notice = d.notice
         /\ \A d \in deliveries' : d \in deliveries \/ d \in work[r].dels
         /\ \A d \in work[r].dels : \E e \in deliveries' : e.notice = d.notice
  <1>1. /\ deliveries \subseteq Delivery /\ work[r].dels \subseteq Delivery
        /\ deliveries' = {d \in deliveries : \A e \in Writes(r) : e.by # d.by} \cup Writes(r)
    BY DEF CommitDeliveries, IntakeInv, IntakeTypeOK, Work
  <1>2. deliveries' \subseteq Delivery /\ \A d \in deliveries' : d \in deliveries \/ d \in work[r].dels
    BY <1>1 DEF Writes
  <1>3. ASSUME NEW d \in deliveries PROVE \E e \in deliveries' : e.notice = d.notice
    <2>1. CASE \A e \in Writes(r) : e.by # d.by
      BY <1>1, <2>1
    <2>2. ASSUME NEW e \in Writes(r), e.by = d.by PROVE e \in deliveries' /\ e.notice = d.notice
      <3>1. e \in Delivery /\ d \in Delivery /\ Held(d) /\ Held(e)
        BY <1>1 DEF Held, Writes
      <3>2. QED
        BY <1>1, <2>2, <3>1 DEF IntakeInv, RowsUnique
    <2>3. QED
      BY <2>1, <2>2
  <1>4. ASSUME NEW d \in work[r].dels PROVE \E e \in deliveries' : e.notice = d.notice
    <2>1. CASE d \in work[r].base
      <3>1. PICK e \in deliveries : e.notice = d.notice
        BY <2>1 DEF IntakeInv, AnswerBacked
      <3>2. QED
        BY <1>3, <3>1
    <2>2. CASE d \notin work[r].base
      BY <1>1, <2>2 DEF Writes
    <2>3. QED
      BY <2>1, <2>2
  <1>5. QED
    BY <1>2, <1>3, <1>4

LEMMA CommitDeliveriesInv ==
  ASSUME IntakeInv, NEW r \in Requests, CommitDeliveries(r)
  PROVE  IntakeInv'
  <1> DEFINE w == [Idle EXCEPT !.pc = "done", !.answer = work[r].answer]
  <1>1. /\ work[r] \in Work /\ work[r].pc = "commit" /\ work' = [work EXCEPT ![r] = w]
        /\ deliveries' = {d \in deliveries : \A e \in Writes(r) : e.by # d.by} \cup Writes(r)
        /\ facts' = facts
        /\ preferences' = [p \in Settings |-> IF p \in Sets(r) THEN work[r].prefs[p] ELSE preferences[p]]
    BY DEF CommitDeliveries, Answered, IntakeInv, IntakeTypeOK
  <1>2. /\ w \in Work /\ w.pc = "done" /\ w.dels = {} /\ w.base = {} /\ w.answer = work[r].answer
    BY <1>1 DEF Idle, Work
  <1> HIDE DEF w
  <1>3. /\ work'[r] = w /\ \A q \in Requests \ {r} : work'[q] = work[q]
        /\ work' \in [Requests -> Work]
    BY <1>1, <1>2, OneMoves
  <1>4. /\ deliveries' \subseteq Delivery
        /\ \A d \in deliveries : \E e \in deliveries' : e.notice = d.notice
        /\ \A d \in deliveries' : d \in deliveries \/ d \in work[r].dels
        /\ \A d \in work[r].dels : \E e \in deliveries' : e.notice = d.notice
    BY NoticesKept
  <1>5. IntakeTypeOK'
    <2>1. work[r].prefs \in [Settings -> Preference \cup {None}]
      BY <1>1 DEF Work
    <2>2. preferences' \in [Settings -> Preference \cup {None}]
      BY <1>1, <2>1 DEF IntakeInv, IntakeTypeOK
    <2>3. QED
      BY <1>1, <1>3, <1>4, <2>2 DEF IntakeInv, IntakeTypeOK
  <1>6. Apart(Writes(r), deliveries)
    BY <1>1 DEF IntakeInv, FlushHolds
  <1>7. OneOfEach(deliveries')
    <2>1. OneOfEach(Writes(r)) /\ OneOfEach(deliveries)
      BY DEF IntakeInv, RowsUnique, OneOfEach, Writes
    <2>2. QED
      BY <1>1, <1>6, <2>1 DEF OneOfEach, Apart
  <1>8. RowsUnique'
    <2>1. \A d \in Delivery : Held(d)' => Held(d)
      BY <1>2, <1>3, <1>4 DEF Held
    <2>2. \A q \in Requests : OneOfEach(work'[q].dels)
      BY <1>2, <1>3 DEF IntakeInv, RowsUnique, OneOfEach
    <2>3. QED
      BY <1>2, <1>3, <1>7, <2>1, <2>2 DEF IntakeInv, RowsUnique
  <1>9. FlushHolds'
    <2>1. \A q \in Requests \ {r} : Writes(q)' = Writes(q)
      BY <1>3 DEF Writes
    <2>2. ASSUME NEW q \in Requests \ {r}, work[q].pc = "commit" PROVE Apart(Writes(q), deliveries')
      <3>1. Apart(Writes(q), deliveries)
        BY <2>2 DEF IntakeInv, FlushHolds
      <3>2. \A d \in Writes(q), e \in Writes(r) : d.notice # e.notice
        BY <1>1, <2>2 DEF IntakeInv, FlushHolds
      <3>3. QED
        BY <1>1, <3>1, <3>2 DEF Apart
    <2>3. \A q \in Requests : work'[q].pc = "commit" => q # r /\ work[q].pc = "commit"
      BY <1>2, <1>3
    <2>4. ASSUME NEW q \in Requests, work'[q].pc = "commit"
          PROVE  /\ Apart(Writes(q), deliveries)'
                 /\ \A p \in Requests \ {q} : work'[p].pc = "commit" =>
                      \A d \in Writes(q)', e \in Writes(p)' : d.notice # e.notice /\ d.by # e.by
      <3>1. q # r /\ work[q].pc = "commit" /\ Writes(q)' = Writes(q)
        BY <2>1, <2>3, <2>4
      <3>2. Apart(Writes(q), deliveries)'
        BY <2>2, <3>1 DEF Apart
      <3>3. ASSUME NEW p \in Requests \ {q}, work'[p].pc = "commit"
            PROVE  \A d \in Writes(q)', e \in Writes(p)' : d.notice # e.notice /\ d.by # e.by
        BY <2>1, <2>3, <3>1, <3>3 DEF IntakeInv, FlushHolds
      <3>4. QED
        BY <3>2, <3>3
    <2>5. QED
      BY <2>4 DEF FlushHolds
  <1>10. AnswerBacked'
    BY <1>2, <1>3, <1>4 DEF IntakeInv, AnswerBacked
  <1>11. FactsApart'
    BY <1>1, <1>2, <1>3 DEF IntakeInv, FactsApart, Recorded
  <1>12. EachEventOnce'
    <2>1. \A d, e \in deliveries' : d.notice = e.notice => d = e
      BY <1>7 DEF OneOfEach
    <2>2. w.answer # None => \E d \in deliveries' : d.notice = w.answer
      <3>1. work[r].answer # None => \E d \in work[r].dels : d.notice = work[r].answer
        BY <1>1 DEF IntakeInv, AnswerBacked
      <3>2. QED
        BY <1>2, <1>4, <3>1
    <2>3. ASSUME NEW q \in Requests, work'[q].pc = "done", work'[q].answer # None
          PROVE  \/ \E d \in deliveries' : d.notice = work'[q].answer
                 \/ \E f \in facts' : f.event = work'[q].answer
      <3>1. CASE q = r
        BY <1>3, <2>2, <2>3, <3>1
      <3>2. CASE q # r
        BY <1>1, <1>3, <1>4, <2>3, <3>2 DEF IntakeInv, EachEventOnce
      <3>3. QED
        BY <3>1, <3>2
    <2>4. QED
      BY <1>1, <2>1, <2>3 DEF IntakeInv, EachEventOnce
  <1>13. QED
    BY <1>5, <1>8, <1>9, <1>10, <1>11, <1>12 DEF IntakeInv

-----------------------------------------------------------------------------
LEMMA SelectInv ==
  ASSUME IntakeInv, NEW r \in Requests, Select(r)
  PROVE  IntakeInv'
  <1>1. PICK e \in Events :
          work' = [work EXCEPT ![r] = [Idle EXCEPT !.pc = IF Recorded(e) = {} THEN "append" ELSE "done",
                                                   !.event = e, !.answer = e]]
    BY DEF Select
  <1> DEFINE w == [Idle EXCEPT !.pc = IF Recorded(e) = {} THEN "append" ELSE "done",
                               !.event = e, !.answer = e]
  <1>2. /\ work[r].pc = "idle" /\ work' = [work EXCEPT ![r] = w]
        /\ UNCHANGED <<deliveries, preferences, facts>>
    BY <1>1 DEF Select
  <1>3. /\ w \in Work /\ w.pc = IF Recorded(e) = {} THEN "append" ELSE "done"
        /\ w.dels = {} /\ w.base = {} /\ w.event = e /\ w.answer = e
    BY DEF Idle, Work
  <1> HIDE DEF w
  <1>4. work'[r] = w /\ \A q \in Requests \ {r} : work'[q] = work[q]
    BY <1>2, <1>3, OneMoves
  <1>5. FlushHolds' /\ AnswerBacked' /\ FactsApart' /\ EachEventOnce'
    <2>1. FlushHolds'
      BY <1>2, <1>3, <1>4, FlushKept
    <2>2. AnswerBacked'
      BY <1>2, <1>3, <1>4 DEF IntakeInv, AnswerBacked
    <2>3. FactsApart'
      BY <1>2, <1>3, <1>4 DEF IntakeInv, FactsApart, Recorded
    <2>4. EachEventOnce'
      BY <1>2, <1>3, <1>4 DEF IntakeInv, EachEventOnce, Recorded
    <2>5. QED
      BY <2>1, <2>2, <2>3, <2>4
  <1>6. QED
    BY <1>2, <1>3, <1>5, UnitInv

LEMMA AppendInv ==
  ASSUME IntakeInv, NEW r \in Requests, Append(r)
  PROVE  IntakeInv'
  <1> DEFINE w == [work[r] EXCEPT !.pc = "appended"]
  <1>1. /\ work[r] \in Work /\ work[r].pc = "append" /\ work' = [work EXCEPT ![r] = w]
        /\ UNCHANGED <<deliveries, preferences, facts>>
        /\ Recorded(work[r].event) = {}
        /\ \A q \in Requests : work[q].pc = "appended" => work[q].event # work[r].event
    BY DEF Append, MovedTo, IntakeInv, IntakeTypeOK
  <1>2. /\ w \in Work /\ w.pc = "appended" /\ w.dels = work[r].dels /\ w.base = work[r].base
        /\ w.event = work[r].event /\ w.answer = work[r].answer
    BY <1>1 DEF Work
  <1> HIDE DEF w
  <1>3. work'[r] = w /\ \A q \in Requests \ {r} : work'[q] = work[q]
    BY <1>1, <1>2, OneMoves
  <1>4. FlushHolds' /\ AnswerBacked' /\ FactsApart' /\ EachEventOnce'
    <2>1. FlushHolds'
      BY <1>1, <1>2, <1>3, FlushKept
    <2>2. AnswerBacked'
      BY <1>1, <1>2, <1>3 DEF IntakeInv, AnswerBacked
    <2>3. FactsApart'
      BY <1>1, <1>2, <1>3 DEF IntakeInv, FactsApart, Recorded
    <2>4. EachEventOnce'
      BY <1>1, <1>2, <1>3 DEF IntakeInv, EachEventOnce
    <2>5. QED
      BY <2>1, <2>2, <2>3, <2>4
  <1>5. QED
    BY <1>1, <1>2, <1>4, UnitInv

LEMMA CommitFactInv ==
  ASSUME IntakeInv, NEW r \in Requests, CommitFact(r)
  PROVE  IntakeInv'
  <1> DEFINE w == [Idle EXCEPT !.pc = "done", !.answer = work[r].answer]
             new == [event |-> work[r].event, by |-> r]
  <1>1. /\ work[r] \in Work /\ work[r].pc = "appended" /\ work' = [work EXCEPT ![r] = w]
        /\ facts' = facts \cup {new} /\ deliveries' = deliveries /\ preferences' = preferences
    BY DEF CommitFact, Answered, IntakeInv, IntakeTypeOK
  <1>2. /\ w \in Work /\ w.pc = "done" /\ w.dels = {} /\ w.base = {} /\ w.answer = work[r].answer
    BY <1>1 DEF Idle, Work
  <1>3. /\ work[r].event \in Events /\ work[r].answer = work[r].event
        /\ \A f \in facts : f.event # work[r].event
        /\ \A q \in Requests \ {r} : work[q].pc = "appended" => work[q].event # work[r].event
    BY <1>1 DEF IntakeInv, FactsApart, Recorded
  <1>4. new \in Fact /\ new.event = work[r].event
    BY <1>3 DEF Fact
  <1> HIDE DEF w, new
  <1>5. /\ work'[r] = w /\ \A q \in Requests \ {r} : work'[q] = work[q]
        /\ work' \in [Requests -> Work]
    BY <1>1, <1>2, OneMoves
  <1>6. IntakeTypeOK'
    BY <1>1, <1>4, <1>5 DEF IntakeInv, IntakeTypeOK
  <1>7. RowsUnique'
    <2>1. \A d \in Delivery : Held(d)' => Held(d)
      BY <1>1, <1>2, <1>5 DEF Held
    <2>2. \A q \in Requests : OneOfEach(work'[q].dels)
      BY <1>2, <1>5 DEF IntakeInv, RowsUnique, OneOfEach
    <2>3. QED
      BY <1>1, <1>2, <1>5, <2>1, <2>2 DEF IntakeInv, RowsUnique
  <1>8. FlushHolds'
    BY <1>1, <1>2, <1>5, FlushKept
  <1>9. AnswerBacked'
    BY <1>1, <1>2, <1>5 DEF IntakeInv, AnswerBacked
  <1>10. FactsApart'
    BY <1>1, <1>2, <1>3, <1>4, <1>5 DEF IntakeInv, FactsApart, Recorded
  <1>11. EachEventOnce'
    <2>1. \A f, g \in facts' : f.event = g.event => f = g
      BY <1>1, <1>3, <1>4 DEF IntakeInv, EachEventOnce
    <2>2. ASSUME NEW q \in Requests, work'[q].pc = "done", work'[q].answer # None
          PROVE  \/ \E d \in deliveries' : d.notice = work'[q].answer
                 \/ \E f \in facts' : f.event = work'[q].answer
      BY <1>1, <1>2, <1>3, <1>4, <1>5, <2>2 DEF IntakeInv, EachEventOnce
    <2>3. QED
      BY <1>1, <2>1, <2>2 DEF IntakeInv, EachEventOnce
  <1>12. QED
    BY <1>6, <1>7, <1>8, <1>9, <1>10, <1>11 DEF IntakeInv

LEMMA AbandonInv ==
  ASSUME IntakeInv, NEW r \in Requests, Abandon(r)
  PROVE  IntakeInv'
  <1> DEFINE w == [Idle EXCEPT !.pc = "done"]
  <1>1. work' = [work EXCEPT ![r] = w] /\ UNCHANGED <<deliveries, preferences, facts>>
    BY DEF Abandon, Refused
  <1>2. w \in Work /\ w.pc = "done" /\ w.dels = {} /\ w.base = {} /\ w.answer = None
    BY DEF Idle, Work
  <1> HIDE DEF w
  <1>3. work'[r] = w /\ \A q \in Requests \ {r} : work'[q] = work[q]
    BY <1>1, <1>2, OneMoves
  <1>4. FlushHolds' /\ AnswerBacked' /\ FactsApart' /\ EachEventOnce'
    <2>1. FlushHolds'
      BY <1>1, <1>2, <1>3, FlushKept
    <2>2. AnswerBacked'
      BY <1>1, <1>2, <1>3 DEF IntakeInv, AnswerBacked
    <2>3. FactsApart' /\ EachEventOnce'
      BY <1>1, <1>2, <1>3 DEF IntakeInv, FactsApart, EachEventOnce, Recorded
    <2>4. QED
      BY <2>1, <2>2, <2>3
  <1>5. QED
    BY <1>1, <1>2, <1>4, UnitInv

LEMMA IntakeStepInv == IntakeInv /\ [IntakeNext]_intakeVars => IntakeInv'
  <1> SUFFICES ASSUME IntakeInv, [IntakeNext]_intakeVars PROVE IntakeInv'
    OBVIOUS
  <1>1. CASE UNCHANGED intakeVars
    <2>1. UNCHANGED <<deliveries, preferences, facts, work>>
      BY <1>1 DEF intakeVars
    <2>2. QED
      BY <2>1 DEF IntakeInv, IntakeTypeOK, RowsUnique, Held, FlushHolds, Apart, Writes, AnswerBacked,
                  FactsApart, Recorded, EachEventOnce
  <1>2. CASE IntakeNext
    BY <1>2, LoadInv, ConsumeInv, SetReadStateInv, ReadAllInv, UpdatePreferenceInv, SaveInv, FlushInv,
       CommitDeliveriesInv, SelectInv, AppendInv, CommitFactInv, AbandonInv DEF IntakeNext
  <1>3. QED
    BY <1>1, <1>2

(* However often an event is posted and at whatever point its requests     *)
(* meet or are lost: one delivery, one fact, and no sender was told of one *)
(* that is not there (uq_notification_delivery_dedup and the version check *)
(* of the unit of work, the unique event id of audit_records).             *)
THEOREM IntakeOnce == IntakeSpec => []EachEventOnce
  <1>1. IntakeInv => EachEventOnce
    BY DEF IntakeInv
  <1>2. QED
    BY <1>1, IntakeInitInv, IntakeStepInv, PTL DEF IntakeSpec

=============================================================================
