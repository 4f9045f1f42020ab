----------------------------- MODULE ReleaseGate -----------------------------
(***************************************************************************)
(* The plans of one project (release versions and iterations) and the      *)
(* tasks attached to them: CollaborationService create_version,            *)
(* create_iteration and _change_plan, TaskService create_task, update_task *)
(* and transition_task of project-service, run by concurrent requests,     *)
(* each in one READ COMMITTED transaction of its own.                      *)
(*                                                                         *)
(* A change of a plan holds the plan's row (SELECT ... FOR UPDATE).  A     *)
(* request that attaches a task reads the plans without a lock and later,  *)
(* for its foreign keys, holds them FOR KEY SHARE, which waits for FOR     *)
(* UPDATE and makes FOR UPDATE wait.  All actors here may do what they ask *)
(* (Policies), and the fields that only describe a plan are left out.      *)
(***************************************************************************)
EXTENDS Integers, FiniteSets, TaskWorkflow

CONSTANTS
    Requests,     \* concurrent HTTP requests (workers)
    NoRequest,    \* a lock nobody holds
    Versions,     \* release versions that may come to exist
    Iterations,   \* iterations that may come to exist
    Tasks         \* tasks that may come to exist

ASSUME RequestAssumption == NoRequest \notin Requests
ASSUME PlanAssumption == Versions \cap Iterations = {} /\ Versions # {} /\ Iterations # {}
ASSUME TaskAssumption == Tasks # {}

VARIABLES
    status,       \* status of each plan, "absent" before its row is inserted
    number,       \* the n of business_no VER-n or ITR-n, 0 before
    counter,      \* project_counters.next_value of each kind, 0 without a row
    taskStatus,   \* tasks.status, "absent" before the row is inserted
    scope,        \* the plans a task is attached to
    planLock,     \* holder of each plan row FOR UPDATE
    keyShare,     \* holders of each plan row FOR KEY SHARE
    taskLock,     \* holder of each task row
    counterLock,  \* holder of each counter row
    pc,           \* where each request is
    cmd           \* what each request has been given and has read

vars == <<status, number, counter, taskStatus, scope, planLock, keyShare, taskLock, counterLock, pc, cmd>>

Plans == Versions \cup Iterations

Kinds == {"version", "iteration"}

Kind(p) == IF p \in Versions THEN "version" ELSE "iteration"

OfKind(k) == IF k = "version" THEN Versions ELSE Iterations

PlanStatuses == {"planned", "active", "released", "archived", "completed", "canceled"}

Places == {"idle", "number_plan", "insert_plan", "lock_plan", "save_plan", "lock_task", "attach"}

Command == [plan: Plans, number: Nat, first: BOOLEAN, target: PlanStatuses, forced: BOOLEAN,
            task: Tasks, scope: SUBSET Plans, pending: SUBSET Plans]

NoCommand == [plan |-> CHOOSE p \in Plans : TRUE, number |-> 0, first |-> FALSE,
              target |-> "planned", forced |-> FALSE,
              task |-> CHOOSE t \in Tasks : TRUE, scope |-> {}, pending |-> {}]

TypeOK ==
    /\ status \in [Plans -> PlanStatuses \cup {"absent"}]
    /\ number \in [Plans -> Nat]
    /\ counter \in [Kinds -> Nat]
    /\ taskStatus \in [Tasks -> TaskStatuses \cup {"absent"}]
    /\ scope \in [Tasks -> SUBSET Plans]
    /\ \A t \in Tasks : taskStatus[t] = "absent" <=> scope[t] = {}   \* ck_task_scope
    /\ planLock \in [Plans -> Requests \cup {NoRequest}]
    /\ keyShare \in [Plans -> SUBSET Requests]
    /\ taskLock \in [Tasks -> Requests \cup {NoRequest}]
    /\ counterLock \in [Kinds -> Requests \cup {NoRequest}]
    /\ pc \in [Requests -> Places]
    /\ cmd \in [Requests -> Command]

Init ==
    /\ status = [p \in Plans |-> "absent"]
    /\ number = [p \in Plans |-> 0]
    /\ counter = [k \in Kinds |-> 0]
    /\ taskStatus = [t \in Tasks |-> "absent"]
    /\ scope = [t \in Tasks |-> {}]
    /\ planLock = [p \in Plans |-> NoRequest]
    /\ keyShare = [p \in Plans |-> {}]
    /\ taskLock = [t \in Tasks |-> NoRequest]
    /\ counterLock = [k \in Kinds |-> NoRequest]
    /\ pc = [r \in Requests |-> "idle"]
    /\ cmd = [r \in Requests |-> NoCommand]

-----------------------------------------------------------------------------
planVars == <<status, number, counter>>
taskVars == <<taskStatus, scope>>
lockVars == <<planLock, keyShare, taskLock, counterLock>>

Goto(r, place, command) ==
    /\ pc' = [pc EXCEPT ![r] = place]
    /\ cmd' = [cmd EXCEPT ![r] = command]

Released(lock, r) == [x \in DOMAIN lock |-> IF lock[x] = r THEN NoRequest ELSE lock[x]]

(* Commit, rollback and a lost worker all end the transaction. *)
EndTransaction(r) ==
    /\ planLock' = Released(planLock, r)
    /\ keyShare' = [p \in Plans |-> keyShare[p] \ {r}]
    /\ taskLock' = Released(taskLock, r)
    /\ counterLock' = Released(counterLock, r)
    /\ Goto(r, "idle", NoCommand)

Rollback(r) == EndTransaction(r) /\ UNCHANGED planVars /\ UNCHANGED taskVars

-----------------------------------------------------------------------------
(* create_version, create_iteration *)

SubmitPlan(r, p) ==
    /\ pc[r] = "idle"
    /\ status[p] = "absent"
    /\ \A q \in Requests : pc[q] \in {"number_plan", "insert_plan"} => cmd[q].plan # p
    /\ Goto(r, "number_plan", [NoCommand EXCEPT !.plan = p])
    /\ UNCHANGED <<planVars, taskVars, lockVars>>

CounterFree(k) == counterLock[k] = NoRequest

(* next_counter: lock the counter row, or find none *)
NumberPlan(r) ==
    LET k == Kind(cmd[r].plan)
    IN  /\ pc[r] = "number_plan"
        /\ \/ /\ counter[k] = 0
              /\ Goto(r, "insert_plan", [cmd[r] EXCEPT !.number = 1, !.first = TRUE])
              /\ UNCHANGED counterLock
           \/ /\ counter[k] > 0
              /\ CounterFree(k)
              /\ counterLock' = [counterLock EXCEPT ![k] = r]
              /\ Goto(r, "insert_plan", [cmd[r] EXCEPT !.number = counter[k]])
        /\ UNCHANGED <<planVars, taskVars, planLock, keyShare, taskLock>>

CounterAfterTwice(c) == IF c.first THEN 3 ELSE c.number + 1   \* mutated: a new row is counted up too

CounterAfter(c) == IF c.first THEN 2 ELSE c.number + 1

(* The primary key of the counters and the unique business_no: of two      *)
(* requests that found no counter row one passes, the other ends with an   *)
(* IntegrityError.                                                         *)
Insertable(c) ==
    /\ c.first => counter[Kind(c.plan)] = 0
    /\ \A p \in OfKind(Kind(c.plan)) : number[p] # c.number

InsertPlan(r) ==
    LET p == cmd[r].plan
    IN  /\ pc[r] = "insert_plan"
        /\ \/ /\ Insertable(cmd[r])
              /\ counter' = [counter EXCEPT ![Kind(p)] = CounterAfter(cmd[r])]
              /\ number' = [number EXCEPT ![p] = cmd[r].number]
              /\ status' = [status EXCEPT ![p] = "planned"]
              /\ EndTransaction(r)
              /\ UNCHANGED taskVars
           \/ ~Insertable(cmd[r]) /\ Rollback(r)

-----------------------------------------------------------------------------
(* transition_version, transition_iteration (_change_plan) *)

SubmitTransition(r, p) ==
    /\ pc[r] = "idle"
    /\ status[p] # "absent"
    /\ Goto(r, "lock_plan", [NoCommand EXCEPT !.plan = p])
    /\ UNCHANGED <<planVars, taskVars, lockVars>>

(* _VERSION_TRANSITIONS and _ITERATION_TRANSITIONS *)
PlanTransitions(k, s) ==
    CASE s = "planned"                    -> {"active", "canceled"}
      [] s = "active" /\ k = "version"    -> {"released", "canceled"}
      [] s = "active" /\ k = "iteration"  -> {"completed", "canceled"}
      [] s = "released"                   -> {"archived"}
      [] OTHER                            -> {}

Closing == {"released", "completed"}

(* TaskRepository.has_open_tasks *)
HasOpenTasks(p) ==
    \E t \in Tasks : p \in scope[t] /\ taskStatus[t] \notin {"done", "closed", "canceled"}

Gate(p, target, forced) ==
    /\ target \in Closing /\ HasOpenTasks(p) => forced
    /\ target \in PlanTransitions(Kind(p), status[p])

PlanRowFreeNoKey(p) == planLock[p] = NoRequest   \* mutated: FOR NO KEY UPDATE

(* get_version, get_iteration with FOR UPDATE can return *)
PlanRowFree(p) == planLock[p] = NoRequest /\ keyShare[p] = {}

(* force is given with a reason, or the request is rejected.               *)
LockPlan(r) ==
    LET p == cmd[r].plan
    IN  /\ pc[r] = "lock_plan"
        /\ PlanRowFree(p)
        /\ \/ \E target \in PlanStatuses, forced \in BOOLEAN :
                /\ Gate(p, target, forced)
                /\ planLock' = [planLock EXCEPT ![p] = r]
                /\ Goto(r, "save_plan", [cmd[r] EXCEPT !.target = target, !.forced = forced])
                /\ UNCHANGED <<keyShare, taskLock, counterLock>>
           \/ EndTransaction(r)   \* the gate, an unknown move or a stale If-Match
        /\ UNCHANGED <<planVars, taskVars>>

ActiveSlotUnchecked(p) == TRUE   \* mutated: no partial unique index

(* uq_iterations_active *)
ActiveSlotFree(p) ==
    p \in Iterations => \A i \in Iterations : status[i] # "active"

SavePlan(r) ==
    LET p == cmd[r].plan
    IN  /\ pc[r] = "save_plan"
        /\ \/ /\ cmd[r].target = "active" => ActiveSlotFree(p)
              /\ status' = [status EXCEPT ![p] = cmd[r].target]
              /\ EndTransaction(r)
              /\ UNCHANGED <<number, counter, taskVars>>
           \/ /\ cmd[r].target = "active" /\ ~ActiveSlotFree(p)   \* IntegrityError
              /\ Rollback(r)

-----------------------------------------------------------------------------
(* create_task and update_task *)

(* TaskService._validate_scope *)
AcceptsTasks(p) == status[p] \in {"planned", "active"}

ValidScope(plans) ==
    /\ plans # {}
    /\ Cardinality(plans \cap Versions) <= 1 /\ Cardinality(plans \cap Iterations) <= 1
    /\ \A p \in plans : AcceptsTasks(p)

(* The INSERT checks every foreign key of the row. *)
CreateTask(r, t) ==
    /\ pc[r] = "idle"
    /\ taskStatus[t] = "absent"
    /\ \A q \in Requests : pc[q] = "attach" => cmd[q].task # t
    /\ \E plans \in SUBSET Plans :
         /\ ValidScope(plans)
         /\ Goto(r, "attach", [NoCommand EXCEPT !.task = t, !.scope = plans, !.pending = plans])
    /\ UNCHANGED <<planVars, taskVars, lockVars>>

SubmitUpdate(r, t) ==
    /\ pc[r] = "idle"
    /\ taskStatus[t] # "absent"
    /\ Goto(r, "lock_task", [NoCommand EXCEPT !.task = t])
    /\ UNCHANGED <<planVars, taskVars, lockVars>>

(* The UPDATE checks the foreign keys that change. *)
LockTask(r) ==
    LET t == cmd[r].task
    IN  /\ pc[r] = "lock_task"
        /\ taskLock[t] = NoRequest
        /\ \/ \E plans \in SUBSET Plans :
                /\ ValidScope(plans)
                /\ taskLock' = [taskLock EXCEPT ![t] = r]
                /\ Goto(r, "attach", [cmd[r] EXCEPT !.scope = plans, !.pending = plans \ scope[t]])
                /\ UNCHANGED <<planLock, keyShare, counterLock>>
           \/ EndTransaction(r)   \* a plan that accepts no task, or a stale If-Match
        /\ UNCHANGED <<planVars, taskVars>>

CheckForeignKey(r) ==
    /\ pc[r] = "attach"
    /\ \E p \in cmd[r].pending :
         /\ planLock[p] = NoRequest
         /\ keyShare' = [keyShare EXCEPT ![p] = @ \cup {r}]
         /\ cmd' = [cmd EXCEPT ![r].pending = @ \ {p}]
    /\ UNCHANGED <<planVars, taskVars, planLock, taskLock, counterLock, pc>>

AttachedStatusKept(t) == taskStatus[t]   \* mutated: a new task is given no status

AttachedStatus(t) ==
    IF taskStatus[t] = "absent" THEN "todo" ELSE taskStatus[t]

CommitTask(r) ==
    LET t == cmd[r].task
    IN  /\ pc[r] = "attach"
        /\ cmd[r].pending = {}
        /\ scope' = [scope EXCEPT ![t] = cmd[r].scope]
        /\ taskStatus' = [taskStatus EXCEPT ![t] = AttachedStatus(t)]
        /\ EndTransaction(r)
        /\ UNCHANGED planVars

(* transition_task holds only the task's row and waits for nothing after   *)
(* it: the whole transaction is one step.  No foreign key changes, so the  *)
(* plans are not locked.                                                   *)
MoveTask(t) ==
    /\ taskStatus[t] # "absent"
    /\ taskLock[t] = NoRequest
    /\ \E target \in Transitions[taskStatus[t]] : taskStatus' = [taskStatus EXCEPT ![t] = target]
    /\ UNCHANGED <<planVars, scope, lockVars, pc, cmd>>

-----------------------------------------------------------------------------
(* The worker dies or loses its connection: PostgreSQL rolls back. *)
Crash(r) == pc[r] # "idle" /\ Rollback(r)

Submit(r) ==
    \/ \E p \in Plans : SubmitPlan(r, p) \/ SubmitTransition(r, p)
    \/ \E t \in Tasks : CreateTask(r, t) \/ SubmitUpdate(r, t)

Proceed(r) ==
    \/ NumberPlan(r) \/ InsertPlan(r)
    \/ LockPlan(r) \/ SavePlan(r)
    \/ LockTask(r) \/ CheckForeignKey(r) \/ CommitTask(r)

Next ==
    \/ \E r \in Requests : Submit(r) \/ Proceed(r) \/ Crash(r)
    \/ \E t \in Tasks : MoveTask(t)

Spec == Init /\ [][Next]_vars

-----------------------------------------------------------------------------
(* A plan is released or completed without force only when none of its     *)
(* tasks is still to be started, at the commit and not just at the check:  *)
(* a task attached meanwhile waits for the plan's row.                     *)
ReleaseLeavesNoTodo ==
    [][\A p \in Plans :
          /\ status[p] = "active" /\ status'[p] \in Closing
          /\ ~cmd[planLock[p]].forced
          => \A t \in Tasks : p \in scope[t] => taskStatus[t] # "todo"]_vars

(* At most one iteration is active, although activations do not lock the   *)
(* project.                                                                *)
OneActiveIteration ==
    \A i, j \in Iterations : status[i] = "active" /\ status[j] = "active" => i = j

(* The numbers of the existing plans of a kind are 1..n: none is given     *)
(* twice and none is lost to a rolled back request.                        *)
NumbersDense ==
    \A k \in Kinds :
        LET existing == {p \in OfKind(k) : status[p] # "absent"}
        IN  {number[p] : p \in existing} = 1..Cardinality(existing)

=============================================================================
