------------------------- MODULE ReleaseGateProofs -------------------------
(***************************************************************************)
(* The safety of ReleaseGate for any number of plans, tasks and requests.  *)
(* The gate is read before the plan is saved: what keeps it true is that   *)
(* FOR UPDATE of a plan and FOR KEY SHARE of it exclude each other, so     *)
(* that a task is attached to a plan either before its gate or after its   *)
(* commit.  The numbers are dense because a counter that has a row is      *)
(* held from its reading to the commit.                                    *)
(***************************************************************************)
EXTENDS ReleaseGate, Functions, FiniteSetTheorems, TLAPS

Creating(r) == pc[r] \in {"number_plan", "insert_plan"}

(* The row of the plan is not there before its request inserts it.         *)
PlanToCome(r) == Creating(r) => status[cmd[r].plan] = "absent"

(* What next_counter answered is still what the counter says.              *)
NumberHeld(r) ==
    /\ pc[r] = "number_plan" => ~cmd[r].first
    /\ pc[r] = "insert_plan" =>
         LET k == Kind(cmd[r].plan)
         IN  IF cmd[r].first THEN cmd[r].number = 1
             ELSE counterLock[k] = r /\ counter[k] > 0 /\ cmd[r].number = counter[k]

PlanThere(r) == pc[r] \in {"lock_plan", "save_plan"} => status[cmd[r].plan] # "absent"

NothingToDo(p) == \A t \in Tasks : p \in scope[t] => taskStatus[t] # "todo"

(* The gate that was passed is still passed.                               *)
GateHeld(r) ==
    pc[r] = "save_plan" =>
        /\ planLock[cmd[r].plan] = r
        /\ cmd[r].target \in Closing /\ ~cmd[r].forced => NothingToDo(cmd[r].plan)

TaskThere(r) == pc[r] = "lock_task" => taskStatus[cmd[r].task] # "absent"

(* A plan that is to be attached is shared, still to be checked, or has    *)
(* been the task's before; the task is held, or not there yet.             *)
AttachHeld(r) ==
    pc[r] = "attach" =>
        LET t == cmd[r].task
        IN  /\ cmd[r].scope # {}
            /\ taskStatus[t] # "absent" => taskLock[t] = r
            /\ \A p \in cmd[r].scope : p \in cmd[r].pending \/ r \in keyShare[p] \/ p \in scope[t]

Checked(r) ==
    /\ PlanToCome(r)
    /\ NumberHeld(r)
    /\ PlanThere(r)
    /\ GateHeld(r)
    /\ TaskThere(r)
    /\ AttachHeld(r)

(* No two requests create one plan, or one task.                           *)
CreatedOnce ==
    \A q, r \in Requests :
        /\ Creating(q) /\ Creating(r) /\ cmd[q].plan = cmd[r].plan => q = r
        /\ /\ pc[q] = "attach" /\ pc[r] = "attach" /\ cmd[q].task = cmd[r].task
           /\ taskStatus[cmd[q].task] = "absent"
           => q = r

(* FOR UPDATE and FOR KEY SHARE of a plan exclude each other.              *)
LocksExclude == \A p \in Plans : planLock[p] # NoRequest => keyShare[p] = {}

Existing(k) == {p \in OfKind(k) : status[p] # "absent"}

(* A counter is one past the numbers given, each given once.               *)
Counted(k) ==
    /\ \A p, q \in Existing(k) : number[p] = number[q] => p = q
    /\ counter[k] = 0 => Existing(k) = {}
    /\ counter[k] > 0 => {number[p] : p \in Existing(k)} = 1..(counter[k] - 1)

Inv ==
    /\ TypeOK
    /\ \A r \in Requests : Checked(r)
    /\ CreatedOnce
    /\ LocksExclude
    /\ \A k \in Kinds : Counted(k)
    /\ OneActiveIteration

-----------------------------------------------------------------------------
LEMMA NoCommandType == NoCommand \in Command
  BY PlanAssumption, TaskAssumption DEF NoCommand, Command, Plans, PlanStatuses

LEMMA KindFacts ==
  /\ \A p \in Plans : Kind(p) \in Kinds /\ p \in OfKind(Kind(p))
  /\ \A k \in Kinds : OfKind(k) \subseteq Plans /\ \A p \in OfKind(k) : Kind(p) = k
  BY PlanAssumption DEF Kind, Kinds, OfKind, Plans

(* What a step of r leaves to the other requests.                          *)
OthersKept(r) ==
    \A q \in Requests \ {r} :
        /\ pc'[q] = pc[q] /\ cmd'[q] = cmd[q]
        /\ \A p \in Plans : /\ planLock[p] = q => planLock'[p] = q
                            /\ q \in keyShare[p] => q \in keyShare'[p]
        /\ \A t \in Tasks : taskLock[t] = q => taskLock'[t] = q
        /\ \A k \in Kinds : counterLock[k] = q => counterLock'[k] = q

LEMMA EndTransactionType ==
  ASSUME TypeOK, NEW r \in Requests, EndTransaction(r)
  PROVE  /\ planLock' \in [Plans -> Requests \cup {NoRequest}]
         /\ keyShare' \in [Plans -> SUBSET Requests]
         /\ taskLock' \in [Tasks -> Requests \cup {NoRequest}]
         /\ counterLock' \in [Kinds -> Requests \cup {NoRequest}]
         /\ pc' \in [Requests -> Places]
         /\ cmd' \in [Requests -> Command]
         /\ pc'[r] = "idle"
         /\ \A p \in Plans : planLock'[p] \in {planLock[p], NoRequest} /\ keyShare'[p] \subseteq keyShare[p]
         /\ OthersKept(r)
  <1>1. /\ planLock' = [p \in Plans |-> IF planLock[p] = r THEN NoRequest ELSE planLock[p]]
        /\ keyShare' = [p \in Plans |-> keyShare[p] \ {r}]
        /\ taskLock' = [t \in Tasks |-> IF taskLock[t] = r THEN NoRequest ELSE taskLock[t]]
        /\ counterLock' = [k \in Kinds |-> IF counterLock[k] = r THEN NoRequest ELSE counterLock[k]]
        /\ pc' = [pc EXCEPT ![r] = "idle"] /\ cmd' = [cmd EXCEPT ![r] = NoCommand]
    BY DEF EndTransaction, Released, Goto, TypeOK
  <1>2. /\ planLock' \in [Plans -> Requests \cup {NoRequest}]
        /\ keyShare' \in [Plans -> SUBSET Requests]
        /\ taskLock' \in [Tasks -> Requests \cup {NoRequest}]
        /\ counterLock' \in [Kinds -> Requests \cup {NoRequest}]
    BY <1>1 DEF TypeOK
  <1>3. pc' \in [Requests -> Places] /\ cmd' \in [Requests -> Command] /\ pc'[r] = "idle"
    BY <1>1, NoCommandType DEF TypeOK, Places
  <1>4. OthersKept(r)
    BY <1>1 DEF OthersKept, TypeOK
  <1>5. QED
    BY <1>1, <1>2, <1>3, <1>4

(* An idle request has checked nothing.                                    *)
LEMMA IdleChecked ==
  ASSUME NEW r \in Requests, pc[r] = "idle"
  PROVE  Checked(r)
  BY DEF Checked, PlanToCome, Creating, NumberHeld, PlanThere, GateHeld, TaskThere, AttachHeld

LEMMA CheckedKept ==
  ASSUME TypeOK, NEW r \in Requests, OthersKept(r), NEW q \in Requests \ {r}, Checked(q),
         \A p \in Plans : status[p] # "absent" => status'[p] # "absent",
         \A t \in Tasks : taskStatus[t] # "absent" => taskStatus'[t] # "absent",
         Creating(q) => status'[cmd[q].plan] = status[cmd[q].plan],
         \A k \in Kinds : counterLock[k] = q /\ counter[k] > 0 => counter'[k] = counter[k],
         \A p \in Plans : planLock[p] = q /\ NothingToDo(p) => NothingToDo(p)',
         pc[q] = "attach" => LET t == cmd[q].task
                             IN  scope'[t] = scope[t] /\ (taskStatus[t] = "absent" => taskStatus'[t] = "absent")
  PROVE  Checked(q)'
  <1>1. /\ pc'[q] = pc[q] /\ cmd'[q] = cmd[q]
        /\ \A p \in Plans : /\ planLock[p] = q => planLock'[p] = q
                            /\ q \in keyShare[p] => q \in keyShare'[p]
        /\ \A t \in Tasks : taskLock[t] = q => taskLock'[t] = q
        /\ \A k \in Kinds : counterLock[k] = q => counterLock'[k] = q
    BY DEF OthersKept
  <1>2. cmd[q].plan \in Plans /\ cmd[q].task \in Tasks /\ cmd[q].scope \subseteq Plans
    BY DEF TypeOK, Command
  <1>3. PlanToCome(q)' /\ PlanThere(q)' /\ TaskThere(q)'
    BY <1>1, <1>2 DEF Checked, PlanToCome, Creating, PlanThere, TaskThere
  <1>4. NumberHeld(q)'
    BY <1>1, <1>2, KindFacts DEF Checked, NumberHeld
  <1>5. GateHeld(q)'
    BY <1>1, <1>2 DEF Checked, GateHeld
  <1>6. AttachHeld(q)'
    BY <1>1, <1>2 DEF Checked, AttachHeld
  <1>7. QED
    BY <1>3, <1>4, <1>5, <1>6 DEF Checked

(* A step of r that changes no plan and no task.                           *)
LEMMA RequestStepInv ==
  ASSUME Inv, NEW r \in Requests, TypeOK', UNCHANGED <<planVars, taskVars>>, OthersKept(r),
         Checked(r)', CreatedOnce', LocksExclude'
  PROVE  Inv'
  <1>1. UNCHANGED <<status, number, counter, taskStatus, scope>>
    BY DEF planVars, taskVars
  <1>2. ASSUME NEW q \in Requests \ {r} PROVE Checked(q)'
    BY <1>1, CheckedKept DEF Inv, NothingToDo
  <1>3. \A k \in Kinds : Counted(k)'
    BY <1>1 DEF Inv, Counted, Existing
  <1>4. OneActiveIteration'
    BY <1>1 DEF Inv, OneActiveIteration
  <1>5. QED
    BY <1>2, <1>3, <1>4 DEF Inv

LEMMA RollbackInv ==
  ASSUME Inv, NEW r \in Requests, Rollback(r)
  PROVE  Inv'
  <1>1. TypeOK /\ EndTransaction(r) /\ UNCHANGED <<planVars, taskVars>>
    BY DEF Inv, Rollback
  <1>2. TypeOK'
    BY <1>1, EndTransactionType DEF TypeOK, planVars, taskVars
  <1>3. Checked(r)'
    <2>1. pc'[r] = "idle"
      BY <1>1, EndTransactionType
    <2>2. QED
      BY <2>1 DEF Checked, PlanToCome, Creating, NumberHeld, PlanThere, GateHeld, TaskThere, AttachHeld
  <1>4. OthersKept(r) /\ pc'[r] = "idle"
    BY <1>1, EndTransactionType
  <1>5. CreatedOnce'
    BY <1>1, <1>4 DEF Inv, CreatedOnce, Creating, OthersKept, taskVars
  <1>6. LocksExclude'
    BY <1>1, EndTransactionType DEF Inv, LocksExclude
  <1>7. QED
    BY <1>1, <1>2, <1>3, <1>4, <1>5, <1>6, RequestStepInv

-----------------------------------------------------------------------------
(* A step that only moves r to another place with another command.         *)
LEMMA GotoType ==
  ASSUME TypeOK, NEW r \in Requests, NEW place \in Places, NEW c \in Command, Goto(r, place, c)
  PROVE  /\ pc' \in [Requests -> Places] /\ cmd' \in [Requests -> Command]
         /\ pc'[r] = place /\ cmd'[r] = c
         /\ \A q \in Requests \ {r} : pc'[q] = pc[q] /\ cmd'[q] = cmd[q]
  BY DEF TypeOK, Goto

LEMMA SubmitPlanInv ==
  ASSUME Inv, NEW r \in Requests, NEW p \in Plans, SubmitPlan(r, p)
  PROVE  Inv'
  <1> DEFINE c == [NoCommand EXCEPT !.plan = p]
  <1>1. c \in Command /\ c.plan = p /\ ~c.first /\ "number_plan" \in Places
    BY NoCommandType DEF Command, Places, NoCommand
  <1>2. TypeOK /\ Goto(r, "number_plan", c) /\ UNCHANGED <<planVars, taskVars, lockVars>>
    BY DEF Inv, SubmitPlan
  <1> HIDE DEF c
  <1>3. /\ pc' \in [Requests -> Places] /\ cmd' \in [Requests -> Command]
        /\ pc'[r] = "number_plan" /\ cmd'[r] = c
        /\ \A q \in Requests \ {r} : pc'[q] = pc[q] /\ cmd'[q] = cmd[q]
    BY <1>1, <1>2, GotoType
  <1>4. TypeOK'
    BY <1>2, <1>3 DEF TypeOK, planVars, taskVars, lockVars
  <1>5. OthersKept(r)
    BY <1>2, <1>3 DEF OthersKept, lockVars
  <1>6. Checked(r)'
    BY <1>1, <1>2, <1>3 DEF SubmitPlan, Checked, PlanToCome, Creating, NumberHeld, PlanThere, GateHeld,
       TaskThere, AttachHeld, planVars
  <1>7. CreatedOnce'
    BY <1>1, <1>2, <1>3 DEF SubmitPlan, Inv, CreatedOnce, Creating, taskVars
  <1>8. LocksExclude'
    BY <1>2 DEF Inv, LocksExclude, lockVars
  <1>9. QED
    BY <1>2, <1>4, <1>5, <1>6, <1>7, <1>8, RequestStepInv

LEMMA SubmitTransitionInv ==
  ASSUME Inv, NEW r \in Requests, NEW p \in Plans, SubmitTransition(r, p)
  PROVE  Inv'
  <1> DEFINE c == [NoCommand EXCEPT !.plan = p]
  <1>1. c \in Command /\ c.plan = p /\ "lock_plan" \in Places
    BY NoCommandType DEF Command, Places, NoCommand
  <1>2. TypeOK /\ Goto(r, "lock_plan", c) /\ UNCHANGED <<planVars, taskVars, lockVars>>
    BY DEF Inv, SubmitTransition
  <1> HIDE DEF c
  <1>3. /\ pc' \in [Requests -> Places] /\ cmd' \in [Requests -> Command]
        /\ pc'[r] = "lock_plan" /\ cmd'[r] = c
        /\ \A q \in Requests \ {r} : pc'[q] = pc[q] /\ cmd'[q] = cmd[q]
    BY <1>1, <1>2, GotoType
  <1>4. TypeOK'
    BY <1>2, <1>3 DEF TypeOK, planVars, taskVars, lockVars
  <1>5. OthersKept(r)
    BY <1>2, <1>3 DEF OthersKept, lockVars
  <1>6. Checked(r)'
    BY <1>1, <1>2, <1>3 DEF SubmitTransition, Checked, PlanToCome, Creating, NumberHeld, PlanThere, GateHeld,
       TaskThere, AttachHeld, planVars
  <1>7. CreatedOnce'
    BY <1>2, <1>3 DEF Inv, CreatedOnce, Creating, taskVars
  <1>8. LocksExclude'
    BY <1>2 DEF Inv, LocksExclude, lockVars
  <1>9. QED
    BY <1>2, <1>4, <1>5, <1>6, <1>7, <1>8, RequestStepInv

LEMMA SubmitUpdateInv ==
  ASSUME Inv, NEW r \in Requests, NEW t \in Tasks, SubmitUpdate(r, t)
  PROVE  Inv'
  <1> DEFINE c == [NoCommand EXCEPT !.task = t]
  <1>1. c \in Command /\ c.task = t /\ "lock_task" \in Places
    BY NoCommandType DEF Command, Places, NoCommand
  <1>2. TypeOK /\ Goto(r, "lock_task", c) /\ UNCHANGED <<planVars, taskVars, lockVars>>
    BY DEF Inv, SubmitUpdate
  <1> HIDE DEF c
  <1>3. /\ pc' \in [Requests -> Places] /\ cmd' \in [Requests -> Command]
        /\ pc'[r] = "lock_task" /\ cmd'[r] = c
        /\ \A q \in Requests \ {r} : pc'[q] = pc[q] /\ cmd'[q] = cmd[q]
    BY <1>1, <1>2, GotoType
  <1>4. TypeOK'
    BY <1>2, <1>3 DEF TypeOK, planVars, taskVars, lockVars
  <1>5. OthersKept(r)
    BY <1>2, <1>3 DEF OthersKept, lockVars
  <1>6. Checked(r)'
    BY <1>1, <1>2, <1>3 DEF SubmitUpdate, Checked, PlanToCome, Creating, NumberHeld, PlanThere, GateHeld,
       TaskThere, AttachHeld, taskVars
  <1>7. CreatedOnce'
    BY <1>2, <1>3 DEF Inv, CreatedOnce, Creating, taskVars
  <1>8. LocksExclude'
    BY <1>2 DEF Inv, LocksExclude, lockVars
  <1>9. QED
    BY <1>2, <1>4, <1>5, <1>6, <1>7, <1>8, RequestStepInv

LEMMA CreateTaskInv ==
  ASSUME Inv, NEW r \in Requests, NEW t \in Tasks, CreateTask(r, t)
  PROVE  Inv'
  <1>1. PICK plans \in SUBSET Plans :
          /\ ValidScope(plans)
          /\ Goto(r, "attach", [NoCommand EXCEPT !.task = t, !.scope = plans, !.pending = plans])
    BY DEF CreateTask
  <1> DEFINE c == [NoCommand EXCEPT !.task = t, !.scope = plans, !.pending = plans]
  <1>2. c \in Command /\ c.task = t /\ c.scope = plans /\ c.pending = plans /\ "attach" \in Places
    BY NoCommandType DEF Command, Places, NoCommand
  <1>3. TypeOK /\ Goto(r, "attach", c) /\ UNCHANGED <<planVars, taskVars, lockVars>>
    BY <1>1 DEF Inv, CreateTask
  <1> HIDE DEF c
  <1>4. /\ pc' \in [Requests -> Places] /\ cmd' \in [Requests -> Command]
        /\ pc'[r] = "attach" /\ cmd'[r] = c
        /\ \A q \in Requests \ {r} : pc'[q] = pc[q] /\ cmd'[q] = cmd[q]
    BY <1>2, <1>3, GotoType
  <1>5. TypeOK'
    BY <1>3, <1>4 DEF TypeOK, planVars, taskVars, lockVars
  <1>6. OthersKept(r)
    BY <1>3, <1>4 DEF OthersKept, lockVars
  <1>7. Checked(r)'
    BY <1>1, <1>2, <1>3, <1>4 DEF CreateTask, ValidScope, Checked, PlanToCome, Creating, NumberHeld, PlanThere,
       GateHeld, TaskThere, AttachHeld, taskVars
  <1>8. CreatedOnce'
    BY <1>2, <1>3, <1>4 DEF CreateTask, Inv, CreatedOnce, Creating, taskVars
  <1>9. LocksExclude'
    BY <1>3 DEF Inv, LocksExclude, lockVars
  <1>10. QED
    BY <1>3, <1>5, <1>6, <1>7, <1>8, <1>9, RequestStepInv

LEMMA NumberPlanInv ==
  ASSUME Inv, NEW r \in Requests, NumberPlan(r)
  PROVE  Inv'
  <1> DEFINE k == Kind(cmd[r].plan)
             one == [cmd[r] EXCEPT !.number = 1, !.first = TRUE]
             next == [cmd[r] EXCEPT !.number = counter[k]]
  <1>1. /\ TypeOK /\ pc[r] = "number_plan" /\ UNCHANGED <<planVars, taskVars, planLock, keyShare, taskLock>>
        /\ cmd[r] \in Command /\ k \in Kinds /\ counter[k] \in Nat
    BY KindFacts DEF Inv, NumberPlan, TypeOK, Command
  <1>2. one \in Command /\ one.plan = cmd[r].plan /\ one.number = 1 /\ one.first = TRUE
    BY <1>1 DEF Command
  <1>3. next \in Command /\ next.plan = cmd[r].plan /\ next.number = counter[k] /\ next.first = cmd[r].first
    BY <1>1 DEF Command
  <1>4. PICK c \in {one, next} :
          /\ Goto(r, "insert_plan", c)
          /\ \/ c = one /\ UNCHANGED counterLock
             \/ /\ c = next /\ counter[k] > 0 /\ counterLock[k] = NoRequest
                /\ counterLock' = [counterLock EXCEPT ![k] = r]
    BY DEF NumberPlan, CounterFree
  <1>5. c \in Command /\ c.plan = cmd[r].plan
    BY <1>2, <1>3
  <1>6. /\ pc' \in [Requests -> Places] /\ cmd' \in [Requests -> Command]
        /\ pc'[r] = "insert_plan" /\ cmd'[r] = c
        /\ \A q \in Requests \ {r} : pc'[q] = pc[q] /\ cmd'[q] = cmd[q]
    BY <1>1, <1>4, <1>5, GotoType DEF Places
  <1>7. counterLock' \in [Kinds -> Requests \cup {NoRequest}]
    BY <1>1, <1>4 DEF TypeOK
  <1>8. TypeOK'
    BY <1>1, <1>6, <1>7 DEF TypeOK, planVars, taskVars
  <1>9. OthersKept(r)
    BY <1>1, <1>4, <1>6, RequestAssumption DEF OthersKept, TypeOK
  <1>10. Checked(r)'
    <2>1. UNCHANGED <<status, counter>> /\ cmd'[r].plan = cmd[r].plan
      BY <1>1, <1>5, <1>6 DEF planVars
    <2>2. status[cmd[r].plan] = "absent"
      BY <1>1 DEF Inv, Checked, PlanToCome, Creating
    <2>3. NumberHeld(r)'
      <3>1. CASE c = one
        BY <2>1, <3>1, <1>2, <1>6 DEF NumberHeld
      <3>2. CASE c = next /\ counter[k] > 0 /\ counterLock' = [counterLock EXCEPT ![k] = r]
        <4>1. c.first \in BOOLEAN /\ c.number = counter[k] /\ counterLock'[k] = r
          BY <1>1, <1>3, <3>2 DEF Command, TypeOK
        <4>2. ~cmd[r].first
          BY <1>1 DEF Inv, Checked, NumberHeld
        <4>3. QED
          BY <2>1, <3>2, <4>1, <4>2, <1>3, <1>6 DEF NumberHeld
      <3>3. QED
        BY <1>4, <3>1, <3>2
    <2>4. QED
      BY <1>6, <2>1, <2>2, <2>3 DEF Checked, PlanToCome, PlanThere, GateHeld, TaskThere, AttachHeld
  <1>11. CreatedOnce'
    BY <1>1, <1>5, <1>6 DEF Inv, CreatedOnce, Creating, taskVars
  <1>12. LocksExclude'
    BY <1>1 DEF Inv, LocksExclude
  <1>13. QED
    BY <1>1, <1>8, <1>9, <1>10, <1>11, <1>12, RequestStepInv

(* The plan was there when its change locks it; the gate is read.          *)
LEMMA LockPlanInv ==
  ASSUME Inv, NEW r \in Requests, LockPlan(r)
  PROVE  Inv'
  <1> DEFINE p == cmd[r].plan
  <1>1. /\ TypeOK /\ pc[r] = "lock_plan" /\ PlanRowFree(p) /\ UNCHANGED <<planVars, taskVars>>
        /\ cmd[r] \in Command /\ p \in Plans
    BY DEF Inv, LockPlan, TypeOK, Command
  <1>2. CASE EndTransaction(r)
    BY <1>1, <1>2, RollbackInv DEF Rollback
  <1>3. ASSUME NEW target \in PlanStatuses, NEW forced \in BOOLEAN, Gate(p, target, forced),
               planLock' = [planLock EXCEPT ![p] = r],
               Goto(r, "save_plan", [cmd[r] EXCEPT !.target = target, !.forced = forced]),
               UNCHANGED <<keyShare, taskLock, counterLock>>
        PROVE  Inv'
    <2> DEFINE c == [cmd[r] EXCEPT !.target = target, !.forced = forced]
    <2>1. c \in Command /\ c.plan = p /\ c.target = target /\ c.forced = forced /\ "save_plan" \in Places
      BY <1>1 DEF Command, Places
    <2> HIDE DEF c
    <2>2. /\ pc' \in [Requests -> Places] /\ cmd' \in [Requests -> Command]
          /\ pc'[r] = "save_plan" /\ cmd'[r] = c
          /\ \A q \in Requests \ {r} : pc'[q] = pc[q] /\ cmd'[q] = cmd[q]
      BY <1>1, <1>3, <2>1, GotoType DEF c
    <2>3. TypeOK'
      BY <1>1, <1>3, <2>2 DEF TypeOK, planVars, taskVars
    <2>4. OthersKept(r)
      BY <1>1, <1>3, <2>2, RequestAssumption DEF OthersKept, TypeOK, PlanRowFree
    <2>5. Checked(r)'
      <3>1. UNCHANGED <<status, counter, scope, taskStatus>> /\ planLock'[p] = r
        BY <1>1, <1>3 DEF planVars, taskVars, TypeOK
      <3>2. target \in Closing /\ ~forced => NothingToDo(p)
        BY <1>3 DEF Gate, HasOpenTasks, NothingToDo
      <3>3. status[p] # "absent"
        BY <1>1 DEF Inv, Checked, PlanThere
      <3>4. GateHeld(r)'
        BY <2>1, <2>2, <3>1, <3>2 DEF GateHeld, NothingToDo
      <3>5. QED
        BY <2>1, <2>2, <3>1, <3>3, <3>4 DEF Checked, PlanToCome, Creating, NumberHeld, PlanThere, TaskThere, AttachHeld
    <2>6. CreatedOnce'
      BY <1>1, <2>2 DEF Inv, CreatedOnce, Creating, taskVars
    <2>7. LocksExclude'
      BY <1>1, <1>3 DEF Inv, LocksExclude, PlanRowFree, TypeOK
    <2>8. QED
      BY <1>1, <2>3, <2>4, <2>5, <2>6, <2>7, RequestStepInv
  <1>4. QED
    BY <1>2, <1>3 DEF LockPlan

LEMMA LockTaskInv ==
  ASSUME Inv, NEW r \in Requests, LockTask(r)
  PROVE  Inv'
  <1> DEFINE t == cmd[r].task
  <1>1. /\ TypeOK /\ pc[r] = "lock_task" /\ taskLock[t] = NoRequest /\ UNCHANGED <<planVars, taskVars>>
        /\ cmd[r] \in Command /\ t \in Tasks
    BY DEF Inv, LockTask, TypeOK, Command
  <1>2. CASE EndTransaction(r)
    BY <1>1, <1>2, RollbackInv DEF Rollback
  <1>3. ASSUME NEW plans \in SUBSET Plans, ValidScope(plans),
               taskLock' = [taskLock EXCEPT ![t] = r],
               Goto(r, "attach", [cmd[r] EXCEPT !.scope = plans, !.pending = plans \ scope[t]]),
               UNCHANGED <<planLock, keyShare, counterLock>>
        PROVE  Inv'
    <2> DEFINE c == [cmd[r] EXCEPT !.scope = plans, !.pending = plans \ scope[t]]
    <2>1. c \in Command /\ c.task = t /\ c.scope = plans /\ c.pending = plans \ scope[t] /\ "attach" \in Places
      BY <1>1 DEF Command, Places
    <2> HIDE DEF c
    <2>2. /\ pc' \in [Requests -> Places] /\ cmd' \in [Requests -> Command]
          /\ pc'[r] = "attach" /\ cmd'[r] = c
          /\ \A q \in Requests \ {r} : pc'[q] = pc[q] /\ cmd'[q] = cmd[q]
      BY <1>1, <1>3, <2>1, GotoType DEF c
    <2>3. TypeOK'
      BY <1>1, <1>3, <2>2 DEF TypeOK, planVars, taskVars
    <2>4. OthersKept(r)
      BY <1>1, <1>3, <2>2, RequestAssumption DEF OthersKept, TypeOK
    <2>5. UNCHANGED <<scope, taskStatus>> /\ taskLock'[t] = r /\ taskStatus[t] # "absent" /\ plans # {}
      BY <1>1, <1>3 DEF taskVars, TypeOK, Inv, Checked, TaskThere, ValidScope
    <2>6. Checked(r)'
      <3>1. AttachHeld(r)'
        BY <2>1, <2>2, <2>5 DEF AttachHeld
      <3>2. QED
        BY <2>2, <3>1 DEF Checked, PlanToCome, Creating, NumberHeld, PlanThere, GateHeld, TaskThere
    <2>7. CreatedOnce'
      BY <2>1, <2>2, <2>5 DEF Inv, CreatedOnce, Creating
    <2>8. LocksExclude'
      BY <1>3 DEF Inv, LocksExclude
    <2>9. QED
      BY <1>1, <2>3, <2>4, <2>6, <2>7, <2>8, RequestStepInv
  <1>4. QED
    BY <1>2, <1>3 DEF LockTask

LEMMA CheckForeignKeyInv ==
  ASSUME Inv, NEW r \in Requests, CheckForeignKey(r)
  PROVE  Inv'
  <1>1. PICK p \in cmd[r].pending :
          /\ planLock[p] = NoRequest
          /\ keyShare' = [keyShare EXCEPT ![p] = @ \cup {r}]
          /\ cmd' = [cmd EXCEPT ![r].pending = @ \ {p}]
    BY DEF CheckForeignKey
  <1>2. /\ TypeOK /\ pc[r] = "attach" /\ UNCHANGED <<planVars, taskVars, planLock, taskLock, counterLock, pc>>
        /\ cmd[r] \in Command /\ p \in Plans
    BY DEF Inv, CheckForeignKey, TypeOK, Command
  <1>3. /\ cmd' \in [Requests -> Command] /\ \A q \in Requests \ {r} : cmd'[q] = cmd[q]
        /\ cmd'[r].task = cmd[r].task /\ cmd'[r].scope = cmd[r].scope
        /\ cmd'[r].pending = cmd[r].pending \ {p}
    <2>1. [cmd[r] EXCEPT !.pending = @ \ {p}] \in Command
      BY <1>2 DEF Command
    <2>2. QED
      BY <1>1, <1>2, <2>1 DEF TypeOK, Command
  <1>4. /\ keyShare' \in [Plans -> SUBSET Requests] /\ r \in keyShare'[p]
        /\ \A q \in Plans : keyShare[q] \subseteq keyShare'[q] /\ (q # p => keyShare'[q] = keyShare[q])
    BY <1>1, <1>2 DEF TypeOK
  <1>5. TypeOK'
    BY <1>2, <1>3, <1>4 DEF TypeOK, planVars, taskVars
  <1>6. OthersKept(r)
    BY <1>2, <1>3, <1>4 DEF OthersKept
  <1>7. Checked(r)'
    <2>1. AttachHeld(r)'
      BY <1>2, <1>3, <1>4 DEF Inv, Checked, AttachHeld, taskVars, TypeOK, Command
    <2>2. QED
      BY <1>2, <2>1 DEF Checked, PlanToCome, Creating, NumberHeld, PlanThere, GateHeld, TaskThere
  <1>8. CreatedOnce'
    BY <1>2, <1>3 DEF Inv, CreatedOnce, Creating, taskVars
  <1>9. LocksExclude'
    BY <1>1, <1>2, <1>4 DEF Inv, LocksExclude
  <1>10. QED
    BY <1>2, <1>5, <1>6, <1>7, <1>8, <1>9, RequestStepInv

-----------------------------------------------------------------------------
(* The commit of r: what it needs to keep of the others.                   *)
LEMMA CommitInv ==
  ASSUME Inv, NEW r \in Requests, EndTransaction(r),
         status' \in [Plans -> PlanStatuses \cup {"absent"}], number' \in [Plans -> Nat],
         counter' \in [Kinds -> Nat],
         taskStatus' \in [Tasks -> TaskStatuses \cup {"absent"}], scope' \in [Tasks -> SUBSET Plans],
         \A t \in Tasks : taskStatus'[t] = "absent" <=> scope'[t] = {},
         \A p \in Plans : status[p] # "absent" => status'[p] # "absent",
         \A t \in Tasks : taskStatus[t] # "absent" => taskStatus'[t] # "absent",
         \A q \in Requests \ {r} : Creating(q) => status'[cmd[q].plan] = status[cmd[q].plan],
         \A q \in Requests \ {r}, k \in Kinds :
            counterLock[k] = q /\ counter[k] > 0 => counter'[k] = counter[k],
         \A q \in Requests \ {r}, p \in Plans : planLock[p] = q /\ NothingToDo(p) => NothingToDo(p)',
         \A q \in Requests \ {r} : pc[q] = "attach" =>
            LET t == cmd[q].task
            IN  scope'[t] = scope[t] /\ (taskStatus[t] = "absent" => taskStatus'[t] = "absent"),
         \A k \in Kinds : Counted(k)', OneActiveIteration'
  PROVE  Inv'
  <1>1. TypeOK'
    BY EndTransactionType DEF Inv, TypeOK
  <1>2. OthersKept(r) /\ pc'[r] = "idle"
    BY EndTransactionType DEF Inv
  <1>3. \A q \in Requests \ {r} : Checked(q)'
    BY <1>2, CheckedKept DEF Inv
  <1>4. Checked(r)'
    BY <1>2 DEF Checked, PlanToCome, Creating, NumberHeld, PlanThere, GateHeld, TaskThere, AttachHeld
  <1>5. CreatedOnce'
    <2>1. \A q \in Requests \ {r} : pc[q] = "attach" => cmd[q].task \in Tasks
      BY DEF Inv, TypeOK, Command
    <2>2. QED
      BY <1>2, <2>1 DEF Inv, CreatedOnce, Creating, OthersKept
  <1>6. LocksExclude'
    BY EndTransactionType DEF Inv, LocksExclude
  <1>7. QED
    BY <1>1, <1>3, <1>4, <1>5, <1>6 DEF Inv

LEMMA InsertPlanInv ==
  ASSUME Inv, NEW r \in Requests, InsertPlan(r)
  PROVE  Inv'
  <1>0. PICK p \in Plans, k \in Kinds : p = cmd[r].plan /\ k = Kind(p)
    BY KindFacts DEF Inv, TypeOK, Command
  <1>1. /\ TypeOK /\ pc[r] = "insert_plan" /\ cmd[r] \in Command /\ p \in OfKind(k) /\ cmd[r].number \in Nat /\ cmd[r].first \in BOOLEAN
    BY <1>0, KindFacts DEF Inv, InsertPlan, TypeOK, Command
  <1>2. CASE Rollback(r)
    BY <1>2, RollbackInv
  <1>3. CASE /\ Insertable(cmd[r])
             /\ counter' = [counter EXCEPT ![k] = CounterAfter(cmd[r])]
             /\ number' = [number EXCEPT ![p] = cmd[r].number]
             /\ status' = [status EXCEPT ![p] = "planned"]
             /\ EndTransaction(r)
             /\ UNCHANGED taskVars
    <2>1. Checked(r) /\ status[p] = "absent"
      BY <1>0, <1>1 DEF Inv, Checked, PlanToCome, Creating
    <2>2. /\ UNCHANGED <<taskStatus, scope>>
          /\ \A q \in Plans : status'[q] = IF q = p THEN "planned" ELSE status[q]
          /\ \A q \in Plans : number'[q] = IF q = p THEN cmd[r].number ELSE number[q]
          /\ \A l \in Kinds : l # k => counter'[l] = counter[l]
          /\ counter'[k] = IF cmd[r].first THEN 2 ELSE cmd[r].number + 1
          /\ counter[k] \in Nat
      BY <1>1, <1>3 DEF TypeOK, taskVars, CounterAfter
    <2>3. \A q \in OfKind(k) : number[q] # cmd[r].number
      BY <1>0, <1>3 DEF Insertable
    <2>4. \/ cmd[r].first /\ cmd[r].number = 1 /\ counter[k] = 0
          \/ ~cmd[r].first /\ cmd[r].number = counter[k] /\ counter[k] > 0 /\ counterLock[k] = r
      BY <1>0, <1>1, <1>3, <2>1 DEF Checked, NumberHeld, Insertable
    <2>5. Counted(k)'
      <3>1. Existing(k)' = Existing(k) \cup {p} /\ p \notin Existing(k) /\ Existing(k) \subseteq Plans
        BY <1>1, <2>1, <2>2, KindFacts DEF Existing
      <3>2. \A q \in Existing(k) : number'[q] = number[q] /\ number[q] # cmd[r].number
        BY <2>2, <2>3, <3>1 DEF Existing
      <3>3. Counted(k) /\ number'[p] = cmd[r].number
        BY <1>1, <2>2 DEF Inv
      <3>4. \A q1, q2 \in Existing(k)' : number'[q1] = number'[q2] => q1 = q2
        BY <3>1, <3>2, <3>3 DEF Counted
      <3>5. {number'[q] : q \in Existing(k)'} = {number[q] : q \in Existing(k)} \cup {cmd[r].number}
        BY <3>1, <3>2, <3>3
      <3>6. {number'[q] : q \in Existing(k)'} = 1..(counter'[k] - 1)
        <4>1. CASE cmd[r].first
          <5>1. Existing(k) = {} /\ cmd[r].number = 1 /\ counter'[k] = 2
            BY <2>2, <2>4, <3>3, <4>1 DEF Counted
          <5>2. {number[q] : q \in Existing(k)} = {}
            BY <5>1
          <5>3. 1..(2 - 1) = {1}
            OBVIOUS
          <5>4. QED
            BY <3>5, <5>1, <5>2, <5>3
        <4>2. CASE ~cmd[r].first
          <5>1. /\ cmd[r].number = counter[k] /\ counter[k] > 0 /\ counter'[k] = counter[k] + 1
                /\ {number[q] : q \in Existing(k)} = 1..(counter[k] - 1)
            BY <2>2, <2>4, <3>3, <4>2 DEF Counted
          <5>2. (1..(counter[k] - 1)) \cup {counter[k]} = 1..((counter[k] + 1) - 1)
            BY <2>2, <5>1
          <5>3. QED
            BY <3>5, <5>1, <5>2
        <4>3. QED
          BY <1>1, <4>1, <4>2
      <3>7. counter'[k] > 0
        BY <2>2, <2>4
      <3>8. QED
        BY <3>4, <3>6, <3>7 DEF Counted
    <2>6. ASSUME NEW l \in Kinds PROVE Counted(l)'
      <3>1. CASE l # k
        <4>1. p \notin OfKind(l) /\ OfKind(l) \subseteq Plans
          BY <1>1, <3>1, KindFacts
        <4>2. Existing(l)' = Existing(l) /\ counter'[l] = counter[l]
              /\ \A q \in Existing(l) : number'[q] = number[q]
          BY <2>2, <3>1, <4>1 DEF Existing
        <4>3. Counted(l)
          BY DEF Inv
        <4>4. {number'[q] : q \in Existing(l)'} = {number[q] : q \in Existing(l)}
          BY <4>2
        <4>5. QED
          BY <4>2, <4>3, <4>4 DEF Counted
      <3>2. QED
        BY <2>5, <3>1
    <2>7. OneActiveIteration'
      BY <2>2, PlanAssumption DEF Inv, OneActiveIteration, Plans
    <2>8. /\ status' \in [Plans -> PlanStatuses \cup {"absent"}] /\ number' \in [Plans -> Nat]
          /\ counter' \in [Kinds -> Nat]
      BY <1>1, <1>3 DEF TypeOK, CounterAfter, PlanStatuses
    <2>9. \A q \in Requests \ {r} : Creating(q) => status'[cmd[q].plan] = status[cmd[q].plan]
      <3>1. \A q \in Requests : cmd[q].plan \in Plans
        BY <1>1 DEF TypeOK, Command
      <3>2. \A q \in Requests \ {r} : Creating(q) => cmd[q].plan # p
        BY <1>0, <1>1 DEF Inv, CreatedOnce, Creating
      <3>3. QED
        BY <2>2, <3>1, <3>2
    <2>10. \A q \in Requests \ {r}, l \in Kinds :
             counterLock[l] = q /\ counter[l] > 0 => counter'[l] = counter[l]
      BY <2>2, <2>4
    <2>11. /\ \A q \in Plans : status[q] # "absent" => status'[q] # "absent"
           /\ \A q \in Plans : NothingToDo(q) => NothingToDo(q)'
           /\ \A q \in Requests \ {r} : pc[q] = "attach" =>
                LET t == cmd[q].task
                IN  scope'[t] = scope[t] /\ (taskStatus[t] = "absent" => taskStatus'[t] = "absent")
      BY <2>2 DEF NothingToDo
    <2>12. /\ taskStatus' \in [Tasks -> TaskStatuses \cup {"absent"}] /\ scope' \in [Tasks -> SUBSET Plans]
           /\ \A t \in Tasks : taskStatus'[t] = "absent" <=> scope'[t] = {}
           /\ \A t \in Tasks : taskStatus[t] # "absent" => taskStatus'[t] # "absent"
      BY <1>1, <2>2 DEF TypeOK
    <2>13. QED
      BY <1>3, <2>6, <2>7, <2>8, <2>9, <2>10, <2>11, <2>12, CommitInv
  <1>4. QED
    BY <1>0, <1>2, <1>3 DEF InsertPlan

(* The plan keeps existing; an iteration becomes active only where no      *)
(* other one is.                                                           *)
LEMMA SavePlanInv ==
  ASSUME Inv, NEW r \in Requests, SavePlan(r)
  PROVE  Inv'
  <1> DEFINE p == cmd[r].plan
  <1>1. /\ TypeOK /\ pc[r] = "save_plan" /\ cmd[r] \in Command /\ p \in Plans
        /\ cmd[r].target \in PlanStatuses /\ status[p] # "absent"
    BY DEF Inv, SavePlan, TypeOK, Command, Checked, PlanThere
  <1>2. CASE Rollback(r)
    BY <1>2, RollbackInv
  <1>3. CASE /\ cmd[r].target = "active" => ActiveSlotFree(p)
             /\ status' = [status EXCEPT ![p] = cmd[r].target]
             /\ EndTransaction(r)
             /\ UNCHANGED <<number, counter, taskVars>>
    <2>1. /\ UNCHANGED <<number, counter, taskStatus, scope>>
          /\ \A q \in Plans : status'[q] = IF q = p THEN cmd[r].target ELSE status[q]
          /\ status' \in [Plans -> PlanStatuses \cup {"absent"}]
          /\ cmd[r].target # "absent"
      BY <1>1, <1>3 DEF TypeOK, taskVars, PlanStatuses
    <2>2. \A q \in Plans : status[q] = "absent" <=> status'[q] = "absent"
      BY <1>1, <2>1
    <2>3. ASSUME NEW k \in Kinds PROVE Counted(k)'
      <3>1. Existing(k)' = Existing(k)
        BY <2>2, KindFacts DEF Existing
      <3>2. QED
        BY <2>1, <3>1 DEF Inv, Counted
    <2>4. OneActiveIteration'
      BY <1>3, <2>1 DEF Inv, OneActiveIteration, ActiveSlotFree, Plans
    <2>5. \A q \in Requests \ {r} : Creating(q) => status'[cmd[q].plan] = status[cmd[q].plan]
      <3>1. \A q \in Requests \ {r} : Creating(q) => status[cmd[q].plan] = "absent" /\ cmd[q].plan \in Plans
        BY DEF Inv, Checked, PlanToCome, TypeOK, Command
      <3>2. QED
        BY <2>2, <3>1
    <2>6. /\ \A q \in Plans : NothingToDo(q) => NothingToDo(q)'
          /\ \A q \in Requests \ {r} : pc[q] = "attach" =>
               LET t == cmd[q].task
               IN  scope'[t] = scope[t] /\ (taskStatus[t] = "absent" => taskStatus'[t] = "absent")
      BY <2>1 DEF NothingToDo
    <2>7. /\ taskStatus' \in [Tasks -> TaskStatuses \cup {"absent"}] /\ scope' \in [Tasks -> SUBSET Plans]
          /\ \A t \in Tasks : taskStatus'[t] = "absent" <=> scope'[t] = {}
          /\ \A t \in Tasks : taskStatus[t] # "absent" => taskStatus'[t] # "absent"
          /\ number' \in [Plans -> Nat] /\ counter' \in [Kinds -> Nat]
      BY <1>1, <2>1 DEF TypeOK
    <2>8. QED
      BY <1>3, <2>1, <2>2, <2>3, <2>4, <2>5, <2>6, <2>7, CommitInv
  <1>4. QED
    BY <1>2, <1>3 DEF SavePlan

(* A task reaches a plan whose row is held for its release only if the     *)
(* plan was the task's before.                                             *)
LEMMA CommitTaskInv ==
  ASSUME Inv, NEW r \in Requests, CommitTask(r)
  PROVE  Inv'
  <1>0. PICK t \in Tasks, plans \in SUBSET Plans : t = cmd[r].task /\ plans = cmd[r].scope
    BY DEF Inv, TypeOK, Command
  <1>1. /\ TypeOK /\ pc[r] = "attach" /\ cmd[r].pending = {} /\ plans # {}
        /\ taskStatus[t] # "absent" => taskLock[t] = r
        /\ \A p \in plans : r \in keyShare[p] \/ p \in scope[t]
    BY <1>0 DEF Inv, CommitTask, Checked, AttachHeld
  <1>2. /\ scope' = [scope EXCEPT ![t] = plans]
        /\ taskStatus' = [taskStatus EXCEPT ![t] = AttachedStatus(t)]
        /\ EndTransaction(r) /\ UNCHANGED <<status, number, counter>>
    BY <1>0 DEF CommitTask, planVars
  <1>3. AttachedStatus(t) \in TaskStatuses /\ AttachedStatus(t) # "absent"
    BY <1>1 DEF AttachedStatus, TaskStatuses, TypeOK
  <1>4. /\ \A u \in Tasks : scope'[u] = IF u = t THEN plans ELSE scope[u]
        /\ \A u \in Tasks : taskStatus'[u] = IF u = t THEN AttachedStatus(t) ELSE taskStatus[u]
    BY <1>1, <1>2 DEF TypeOK
  <1>5. /\ taskStatus' \in [Tasks -> TaskStatuses \cup {"absent"}] /\ scope' \in [Tasks -> SUBSET Plans]
        /\ \A u \in Tasks : taskStatus'[u] = "absent" <=> scope'[u] = {}
        /\ \A u \in Tasks : taskStatus[u] # "absent" => taskStatus'[u] # "absent"
    BY <1>1, <1>2, <1>3, <1>4 DEF TypeOK
  <1>6. ASSUME NEW q \in Requests \ {r}, NEW p \in Plans, planLock[p] = q, NothingToDo(p)
        PROVE  NothingToDo(p)'
    <2>1. keyShare[p] = {}
      BY <1>6, RequestAssumption DEF Inv, LocksExclude
    <2>2. p \in plans => p \in scope[t]
      BY <1>1, <2>1
    <2>3. p \in scope[t] => taskStatus[t] # "absent"
      BY <1>1 DEF TypeOK
    <2>4. p \in plans => AttachedStatus(t) # "todo"
      BY <1>6, <2>2, <2>3 DEF NothingToDo, AttachedStatus
    <2>5. QED
      BY <1>4, <1>6, <2>4 DEF NothingToDo
  <1>7. ASSUME NEW q \in Requests \ {r}, pc[q] = "attach"
        PROVE  cmd[q].task # t
    <2>1. taskStatus[cmd[q].task] # "absent" => taskLock[cmd[q].task] = q
      BY <1>7 DEF Inv, Checked, AttachHeld
    <2>2. CASE taskStatus[t] = "absent"
      BY <1>0, <1>1, <1>7, <2>2 DEF Inv, CreatedOnce
    <2>3. QED
      BY <1>1, <2>1, <2>2
  <1>8. \A q \in Requests \ {r} : pc[q] = "attach" =>
          LET u == cmd[q].task
          IN  scope'[u] = scope[u] /\ (taskStatus[u] = "absent" => taskStatus'[u] = "absent")
    BY <1>1, <1>4, <1>7 DEF TypeOK, Command
  <1>9. (\A k \in Kinds : Counted(k)') /\ OneActiveIteration'
    BY <1>2 DEF Inv, Counted, Existing, OneActiveIteration
  <1>10. /\ status' \in [Plans -> PlanStatuses \cup {"absent"}] /\ number' \in [Plans -> Nat]
         /\ counter' \in [Kinds -> Nat]
    BY <1>1, <1>2 DEF TypeOK
  <1>11. QED
    BY <1>2, <1>5, <1>6, <1>8, <1>9, <1>10, CommitInv

(* No move of a task leads back to "todo".                                 *)
LEMMA MoveTaskInv ==
  ASSUME Inv, NEW t \in Tasks, MoveTask(t)
  PROVE  Inv'
  <1>1. PICK target \in Transitions[taskStatus[t]] : taskStatus' = [taskStatus EXCEPT ![t] = target]
    BY DEF MoveTask
  <1>2. /\ TypeOK /\ taskStatus[t] \in TaskStatuses /\ taskStatus[t] # "absent"
        /\ UNCHANGED <<status, number, counter, scope, planLock, keyShare, taskLock, counterLock, pc, cmd>>
    BY DEF Inv, MoveTask, TypeOK, planVars, lockVars
  <1>3. target \in TaskStatuses /\ target # "todo" /\ target # "absent"
    BY <1>1, <1>2 DEF Transitions, TaskStatuses
  <1>4. /\ \A u \in Tasks : taskStatus'[u] = IF u = t THEN target ELSE taskStatus[u]
        /\ taskStatus' \in [Tasks -> TaskStatuses \cup {"absent"}]
    BY <1>1, <1>2, <1>3 DEF TypeOK
  <1>5. TypeOK'
    BY <1>2, <1>3, <1>4 DEF TypeOK
  <1>6. \A u \in Tasks : taskStatus[u] = "absent" <=> taskStatus'[u] = "absent"
    BY <1>2, <1>3, <1>4
  <1>7. \A p \in Plans : NothingToDo(p) => NothingToDo(p)'
    BY <1>2, <1>3, <1>4 DEF NothingToDo
  <1>8. ASSUME NEW q \in Requests PROVE Checked(q)'
    <2>1. cmd[q].task \in Tasks /\ cmd[q].plan \in Plans /\ Checked(q)
      BY <1>2 DEF Inv, TypeOK, Command
    <2>2. PlanToCome(q)' /\ NumberHeld(q)' /\ PlanThere(q)'
      BY <1>2, <2>1 DEF Checked, PlanToCome, Creating, NumberHeld, PlanThere
    <2>3. GateHeld(q)'
      BY <1>2, <1>7, <2>1 DEF Checked, GateHeld
    <2>4. TaskThere(q)' /\ AttachHeld(q)'
      BY <1>2, <1>6, <2>1 DEF Checked, TaskThere, AttachHeld
    <2>5. QED
      BY <2>2, <2>3, <2>4 DEF Checked
  <1>9. CreatedOnce'
    <2>1. \A q \in Requests : cmd[q].task \in Tasks
      BY <1>2 DEF TypeOK, Command
    <2>2. QED
      BY <1>2, <1>6, <2>1 DEF Inv, CreatedOnce, Creating
  <1>10. LocksExclude' /\ (\A k \in Kinds : Counted(k)') /\ OneActiveIteration'
    BY <1>2 DEF Inv, LocksExclude, Counted, Existing, OneActiveIteration
  <1>11. QED
    BY <1>5, <1>8, <1>9, <1>10 DEF Inv

-----------------------------------------------------------------------------
LEMMA InitInv == Init => Inv
  <1> SUFFICES ASSUME Init PROVE Inv
    OBVIOUS
  <1>1. TypeOK
    BY NoCommandType DEF Init, TypeOK, Places
  <1>2. \A q \in Requests : Checked(q)
    BY IdleChecked DEF Init
  <1>3. CreatedOnce
    BY DEF Init, CreatedOnce, Creating
  <1>4. LocksExclude /\ OneActiveIteration
    BY DEF Init, LocksExclude, OneActiveIteration, Plans
  <1>5. \A k \in Kinds : Counted(k)
    <2>1. \A k \in Kinds : Existing(k) = {} /\ counter[k] = 0
      BY KindFacts DEF Init, Existing
    <2>2. QED
      BY <2>1 DEF Counted
  <1>6. QED
    BY <1>1, <1>2, <1>3, <1>4, <1>5 DEF Inv

LEMMA StutterInv ==
  ASSUME Inv, UNCHANGED vars
  PROVE  Inv'
  <1>1. TypeOK' /\ OneActiveIteration'
    BY DEF vars, Inv, TypeOK, OneActiveIteration
  <1>2. \A q \in Requests : Checked(q)'
    BY DEF vars, Inv, Checked, PlanToCome, Creating, NumberHeld, PlanThere, GateHeld, NothingToDo, TaskThere, AttachHeld
  <1>3. CreatedOnce' /\ LocksExclude' /\ \A k \in Kinds : Counted(k)'
    BY DEF vars, Inv, CreatedOnce, Creating, LocksExclude, Counted, Existing
  <1>4. QED
    BY <1>1, <1>2, <1>3 DEF Inv

LEMMA StepInv == Inv /\ [Next]_vars => Inv'
  <1> SUFFICES ASSUME Inv, [Next]_vars PROVE Inv'
    OBVIOUS
  <1>1. ASSUME NEW r \in Requests, Submit(r)
        PROVE  Inv'
    BY <1>1, SubmitPlanInv, SubmitTransitionInv, CreateTaskInv, SubmitUpdateInv DEF Submit
  <1>2. ASSUME NEW r \in Requests, Proceed(r)
        PROVE  Inv'
    BY <1>2, NumberPlanInv, InsertPlanInv, LockPlanInv, SavePlanInv, LockTaskInv, CheckForeignKeyInv, CommitTaskInv
       DEF Proceed
  <1>3. ASSUME NEW r \in Requests, Crash(r)
        PROVE  Inv'
    BY <1>3, RollbackInv DEF Crash
  <1>4. ASSUME NEW t \in Tasks, MoveTask(t)
        PROVE  Inv'
    BY <1>4, MoveTaskInv
  <1>5. QED
    BY <1>1, <1>2, <1>3, <1>4, StutterInv DEF Next

(* A counter that is one past the numbers given makes them dense.          *)
LEMMA CountedDense ==
  ASSUME TypeOK, NEW k \in Kinds, Counted(k)
  PROVE  {number[p] : p \in Existing(k)} = 1..Cardinality(Existing(k))
  <1>1. CASE counter[k] = 0
    <2>1. Existing(k) = {}
      BY <1>1 DEF Counted
    <2>2. {number[p] : p \in Existing(k)} = {} /\ 1..0 = {}
      BY <2>1
    <2>3. QED
      BY <2>1, <2>2, FS_EmptySet
  <1>2. CASE counter[k] > 0
    <2> DEFINE n == counter[k] - 1
               f == [p \in Existing(k) |-> number[p]]
    <2>1. n \in Nat /\ {number[p] : p \in Existing(k)} = 1..n
      BY <1>2 DEF Counted, TypeOK
    <2>2. f \in Injection(Existing(k), 1..n) /\ f \in Surjection(Existing(k), 1..n)
      BY <2>1 DEF Counted, Injection, Surjection, IsInjective
    <2>3. IsFiniteSet(1..n) /\ Cardinality(1..n) = n
      BY <2>1, FS_Interval, SMTT(20)
    <2>4. Cardinality(Existing(k)) = n
      BY <2>2, <2>3, FS_Injection
    <2>5. QED
      BY <2>1, <2>4
  <1>3. QED
    BY <1>1, <1>2 DEF TypeOK

(* A plan is closed only by SavePlan, of the request that holds it.        *)
LEMMA ReleaseStep ==
  ASSUME Inv, [Next]_vars, NEW p \in Plans, status[p] = "active", status'[p] \in Closing,
         ~cmd[planLock[p]].forced
  PROVE  NothingToDo(p)
  <1>1. status'[p] # status[p]
    BY DEF Closing
  <1>2. PICK r \in Requests : InsertPlan(r) \/ SavePlan(r)
    BY <1>1 DEF Next, vars, Submit, SubmitPlan, SubmitTransition, CreateTask, SubmitUpdate, Proceed, NumberPlan,
       LockPlan, LockTask, CheckForeignKey, CommitTask, Crash, Rollback, MoveTask, planVars
  <1>3. /\ TypeOK /\ Checked(r)
    BY DEF Inv
  <1>4. CASE InsertPlan(r)
    BY <1>1, <1>3, <1>4 DEF InsertPlan, Rollback, planVars, TypeOK, Closing
  <1>5. CASE SavePlan(r)
    <2>1. p = cmd[r].plan /\ status'[p] = cmd[r].target /\ pc[r] = "save_plan"
      BY <1>1, <1>3, <1>5 DEF SavePlan, Rollback, planVars, TypeOK
    <2>2. QED
      BY <1>3, <2>1 DEF Checked, GateHeld
  <1>6. QED
    BY <1>2, <1>4, <1>5

(* The inductive invariant: what a request has read of plans, tasks and    *)
(* counters holds until it commits (collaboration/service.py and           *)
(* tasks/service.py).                                                      *)
THEOREM Invariance == Spec => []Inv
  BY InitInv, StepInv, PTL DEF Spec

(* Every row keeps its shape; a task is attached to a plan as long as it   *)
(* exists (ck_task_scope).                                                 *)
THEOREM TypeCorrect == Spec => []TypeOK
  <1>1. Inv => TypeOK
    BY DEF Inv
  <1>2. QED
    BY <1>1, Invariance, PTL

(* Two activations never leave two active iterations, although neither     *)
(* locks the project (uq_iterations_active).                               *)
THEOREM OneActive == Spec => []OneActiveIteration
  <1>1. Inv => OneActiveIteration
    BY DEF Inv
  <1>2. QED
    BY <1>1, Invariance, PTL

(* next_counter gives no number twice and loses none to a request that is  *)
(* rolled back, the first use of a counter included.                       *)
THEOREM NumbersAreDense == Spec => []NumbersDense
  <1>1. Inv => NumbersDense
    BY CountedDense DEF Inv, NumbersDense, Existing
  <1>2. QED
    BY <1>1, Invariance, PTL

(* _change_plan commits an unforced release or completion only while none  *)
(* of the plan's tasks is still to be started, whatever was attached to it *)
(* since has_open_tasks looked.                                            *)
THEOREM ReleaseGateHolds == Spec => ReleaseLeavesNoTodo
  <1>1. Inv /\ [Next]_vars =>
          [\A p \in Plans :
              /\ status[p] = "active" /\ status'[p] \in Closing
              /\ ~cmd[planLock[p]].forced
              => \A t \in Tasks : p \in scope[t] => taskStatus[t] # "todo"]_vars
    BY ReleaseStep DEF NothingToDo
  <1>2. QED
    BY <1>1, Invariance, PTL DEF Spec, ReleaseLeavesNoTodo

=============================================================================
