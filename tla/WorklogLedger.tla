---------------------------- MODULE WorklogLedger ----------------------------
(***************************************************************************)
(* The Worklog ledger of one project: TaskService._append_worklog and      *)
(* TaskService.transition_task of project-service, run by concurrent       *)
(* requests, each in one READ COMMITTED transaction of its own.            *)
(*                                                                         *)
(* A request stops where it may wait: on the task row (SELECT ... FOR      *)
(* UPDATE) and on the advisory transaction lock of (project, user, date).  *)
(* The sums are read under both locks and the row is inserted at commit.   *)
(* `taskSum' and `daySum' are what the two SUM queries return on the       *)
(* committed rows.  An input a request carries is chosen where the code    *)
(* first looks at it.  Roles are fixed here; Membership changes them.      *)
(***************************************************************************)
EXTENDS Integers, FiniteSets, Policies, TaskWorkflow

CONSTANTS
    Requests,      \* concurrent HTTP requests (workers)
    NoRequest,     \* a lock nobody holds
    Users,         \* members of the project
    RoleOf,        \* the project role of each member
    Tasks,         \* tasks of the project
    MaxDay,        \* bound: work dates and the UTC clock range over 1..MaxDay
    DayLimit,      \* 1440 in the code: the daily cap, and the cap on one entry
    MaxEntries     \* bound: Worklog rows ever written

ASSUME RequestAssumption == NoRequest \notin Requests
ASSUME UserAssumption == Users # {} /\ RoleOf \in [Users -> Roles]
ASSUME TaskAssumption == Tasks # {}
ASSUME BoundAssumption == MaxDay \in Nat \ {0} /\ DayLimit \in Nat \ {0} /\ MaxEntries \in Nat

VARIABLES
    today,     \* UTC date returned by the service clock
    status,    \* tasks.status
    endDay,    \* date of tasks.actual_end_at, 0 when NULL
    entries,   \* committed rows of worklogs
    taskSum,   \* SUM(minutes_delta) per task
    daySum,    \* SUM(minutes_delta) per user and work date
    taskLock,  \* holder of each task row lock
    dayLock,   \* holder of each advisory lock (user, work date)
    pc,        \* where each request is
    cmd        \* what each request has read of its command so far

vars == <<today, status, endDay, entries, taskSum, daySum, taskLock, dayLock, pc, cmd>>

Days == 1..MaxDay

Scopes == Users \X Days

Places == {"idle", "append_task", "append_day", "append_sums", "append_commit",
           "move_task", "move_commit"}

Command == [task: Tasks, user: Users, date: Days, corrects: Nat,
            delta: Int, target: TaskStatuses, end: 0..MaxDay]

Blank(t) == [task |-> t, user |-> CHOOSE u \in Users : TRUE, date |-> 1, corrects |-> 0,
             delta |-> 0, target |-> "todo", end |-> 0]

NoCommand == Blank(CHOOSE t \in Tasks : TRUE)

(* A stored Worklog; `id' numbers the rows in commit order. *)
Row(c, n) == [id |-> n, task |-> c.task, user |-> c.user, date |-> c.date,
              delta |-> c.delta, corrects |-> c.corrects]

Scope(r) == <<cmd[r].user, cmd[r].date>>

TypeOK ==
    /\ today \in Days
    /\ status \in [Tasks -> TaskStatuses]
    /\ endDay \in [Tasks -> 0..MaxDay]
    /\ entries \subseteq [id: Nat, task: Tasks, user: Users, date: Days,
                          delta: Int, corrects: Nat]
    /\ IsFiniteSet(entries)
    /\ taskSum \in [Tasks -> Int]
    /\ daySum \in [Scopes -> Int]
    /\ taskLock \in [Tasks -> Requests \cup {NoRequest}]
    /\ dayLock \in [Scopes -> Requests \cup {NoRequest}]
    /\ pc \in [Requests -> Places]
    /\ cmd \in [Requests -> Command]

Init ==
    /\ today = 1
    /\ status = [t \in Tasks |-> "todo"]
    /\ endDay = [t \in Tasks |-> 0]
    /\ entries = {}
    /\ taskSum = [t \in Tasks |-> 0]
    /\ daySum = [s \in Scopes |-> 0]
    /\ taskLock = [t \in Tasks |-> NoRequest]
    /\ dayLock = [s \in Scopes |-> NoRequest]
    /\ pc = [r \in Requests |-> "idle"]
    /\ cmd = [r \in Requests |-> NoCommand]

-----------------------------------------------------------------------------
(* Locks.  The transaction keeps what it took until it ends. *)

Released(lock, r) == [x \in DOMAIN lock |-> IF lock[x] = r THEN NoRequest ELSE lock[x]]

TaskRowFreeUnlocked(r) == TRUE   \* mutated: plain SELECT

(* tasks.get(..., for_update=True) can return *)
TaskRowFree(r) == taskLock[cmd[r].task] = NoRequest

DayScopeFreeUnlocked(r) == TRUE   \* mutated: no advisory lock

(* lock_worklog_scope can return *)
DayScopeFree(r) == dayLock[Scope(r)] = NoRequest

ReleasedDayKept(r) == dayLock   \* mutated: a session lock, never released

ReleasedDay(r) == Released(dayLock, r)

(* Commit, rollback and a lost worker all end the transaction. *)
EndTransaction(r) ==
    /\ taskLock' = Released(taskLock, r)
    /\ dayLock' = ReleasedDay(r)
    /\ pc' = [pc EXCEPT ![r] = "idle"]
    /\ cmd' = [cmd EXCEPT ![r] = NoCommand]

-----------------------------------------------------------------------------
(* record_worklog and correct_worklog *)

Appending == {r \in Requests : pc[r] \in {"append_task", "append_day", "append_sums", "append_commit"}}

SubmitWorklog(r, t) ==
    /\ pc[r] = "idle"
    /\ Cardinality(entries) + Cardinality(Appending) < MaxEntries
    /\ pc' = [pc EXCEPT ![r] = "append_task"]
    /\ cmd' = [cmd EXCEPT ![r] = Blank(t)]
    /\ UNCHANGED <<today, status, endDay, entries, taskSum, daySum, taskLock, dayLock>>

DateOpenAfterDone(c) == c.date <= today   \* mutated: no rule for done tasks

(* work_date is not in the future nor after the completion of a done task *)
DateOpen(c) ==
    /\ c.date <= today
    /\ status[c.task] = "done" => c.date <= endDay[c.task]

SameOwner(c) ==
    c.corrects # 0 => \E e \in entries : e.id = c.corrects /\ e.task = c.task /\ e.user = c.user

(* The checks between the task lock and the advisory lock. *)
Accepts(actor, c) ==
    /\ Authorized(RoleOf[actor], "record_worklog", TRUE)
    /\ c.user # actor => RoleOf[actor] \in Managers
    /\ status[c.task] \notin {"closed", "canceled"}
    /\ DateOpen(c)
    /\ SameOwner(c)

LockTask(r) ==
    /\ pc[r] = "append_task"
    /\ TaskRowFree(r)
    /\ \E actor \in Users, user \in Users, date \in Days, corrects \in 0..MaxEntries :
         LET c == [cmd[r] EXCEPT !.user = user, !.date = date, !.corrects = corrects]
         IN  \/ /\ Accepts(actor, c)
                /\ taskLock' = [taskLock EXCEPT ![c.task] = r]
                /\ pc' = [pc EXCEPT ![r] = "append_day"]
                /\ cmd' = [cmd EXCEPT ![r] = c]
                /\ UNCHANGED dayLock
             \/ ~Accepts(actor, c) /\ EndTransaction(r)
    /\ UNCHANGED <<today, status, endDay, entries, taskSum, daySum>>

LockDay(r) ==
    /\ pc[r] = "append_day"
    /\ DayScopeFree(r)
    /\ dayLock' = [dayLock EXCEPT ![Scope(r)] = r]
    /\ pc' = [pc EXCEPT ![r] = "append_sums"]
    /\ UNCHANGED <<today, status, endDay, entries, taskSum, daySum, taskLock, cmd>>

(* Worklog.__post_init__ *)
ValidDelta(c, delta) ==
    /\ delta # 0
    /\ c.corrects = 0 => delta >= 1

WithinLimitsNoFloor(c, delta) ==   \* mutated: only the cap is checked
    daySum[<<c.user, c.date>>] + delta <= DayLimit

(* Not WORKLOG_NEGATIVE_TOTAL and not WORKLOG_DAILY_LIMIT *)
WithinLimits(c, delta) ==
    /\ taskSum[c.task] + delta >= 0
    /\ daySum[<<c.user, c.date>>] + delta <= DayLimit

CheckSums(r) ==
    /\ pc[r] = "append_sums"
    /\ \E delta \in -DayLimit..DayLimit :
         \/ /\ WithinLimits(cmd[r], delta)
            /\ ValidDelta(cmd[r], delta)
            /\ pc' = [pc EXCEPT ![r] = "append_commit"]
            /\ cmd' = [cmd EXCEPT ![r].delta = delta]
            /\ UNCHANGED <<taskLock, dayLock>>
         \/ /\ ~(WithinLimits(cmd[r], delta) /\ ValidDelta(cmd[r], delta))
            /\ EndTransaction(r)
    /\ UNCHANGED <<today, status, endDay, entries, taskSum, daySum>>

CommitWorklog(r) ==
    /\ pc[r] = "append_commit"
    /\ entries' = entries \cup {Row(cmd[r], Cardinality(entries) + 1)}
    /\ taskSum' = [taskSum EXCEPT ![cmd[r].task] = @ + cmd[r].delta]
    /\ daySum' = [daySum EXCEPT ![Scope(r)] = @ + cmd[r].delta]
    /\ EndTransaction(r)
    /\ UNCHANGED <<today, status, endDay>>

-----------------------------------------------------------------------------
(* transition_task; the members that act are related to the task *)

SubmitTransition(r, t) ==
    /\ pc[r] = "idle"
    /\ pc' = [pc EXCEPT ![r] = "move_task"]
    /\ cmd' = [cmd EXCEPT ![r] = Blank(t)]
    /\ UNCHANGED <<today, status, endDay, entries, taskSum, daySum, taskLock, dayLock>>

EndAfterNextDay(t, target) ==   \* mutated: the date of another time zone
    IF target = "done" THEN today + 1 ELSE 0

(* WorkflowV1.transition: actual_end_at after the move *)
EndAfter(t, target) ==
    CASE target = "done"        -> today
      [] target = "in_progress" -> 0
      [] OTHER                  -> endDay[t]

LockTransition(r) ==
    /\ pc[r] = "move_task"
    /\ TaskRowFree(r)
    /\ \E actor \in Users, target \in TaskStatuses :
         LET t  == cmd[r].task
             ok == /\ Authorized(RoleOf[actor], "transition_task", TRUE)
                   /\ target \in AllowedTargets(status[t], RoleOf[actor])
         IN  \/ /\ ok
                /\ taskLock' = [taskLock EXCEPT ![t] = r]
                /\ pc' = [pc EXCEPT ![r] = "move_commit"]
                /\ cmd' = [cmd EXCEPT ![r].target = target, ![r].end = EndAfter(t, target)]
                /\ UNCHANGED dayLock
             \/ ~ok /\ EndTransaction(r)
    /\ UNCHANGED <<today, status, endDay, entries, taskSum, daySum>>

CommitTransition(r) ==
    /\ pc[r] = "move_commit"
    /\ status' = [status EXCEPT ![cmd[r].task] = cmd[r].target]
    /\ endDay' = [endDay EXCEPT ![cmd[r].task] = cmd[r].end]
    /\ EndTransaction(r)
    /\ UNCHANGED <<today, entries, taskSum, daySum>>

-----------------------------------------------------------------------------
(* The worker dies or loses its connection: PostgreSQL rolls back. *)
Crash(r) ==
    /\ pc[r] # "idle"
    /\ EndTransaction(r)
    /\ UNCHANGED <<today, status, endDay, entries, taskSum, daySum>>

Tick ==
    /\ today < MaxDay
    /\ today' = today + 1
    /\ UNCHANGED <<status, endDay, entries, taskSum, daySum, taskLock, dayLock, pc, cmd>>

Acquire(r) == LockTask(r) \/ LockDay(r) \/ LockTransition(r)

Proceed(r) == CheckSums(r) \/ CommitWorklog(r) \/ CommitTransition(r)

Next ==
    \/ Tick
    \/ \E r \in Requests :
         \/ \E t \in Tasks : SubmitWorklog(r, t) \/ SubmitTransition(r, t)
         \/ Acquire(r)
         \/ Proceed(r)
         \/ Crash(r)

Spec == Init /\ [][Next]_vars

(* A worker that can run does; a lock queue is first come, first served, so *)
(* a request that can take a lock again and again does take it.             *)
FairSpec ==
    /\ Spec
    /\ \A r \in Requests : WF_vars(Proceed(r)) /\ SF_vars(Acquire(r))

-----------------------------------------------------------------------------
(* Appends that run at the same time, on different tasks too, never take a *)
(* user's net minutes of one date above the cap.                           *)
DailyLimit == \A s \in Scopes : daySum[s] <= DayLimit

(* Corrections that run at the same time never make a task's actual        *)
(* minutes negative.                                                       *)
TaskTotalNonNegative == \A t \in Tasks : taskSum[t] >= 0

(* A task that is done or closed has no Worklog dated after the day it was *)
(* completed, whatever order logging, completing and reopening came in.    *)
NoWorkAfterCompletion ==
    \A e \in entries : status[e.task] \in {"done", "closed"} => e.date <= endDay[e.task]

(* What the ledger promises: see WorklogBook.                              *)
Book == INSTANCE WorklogBook

(* Every step of the ledger is one legal step of the book: what a request  *)
(* checked before it waited, and what it summed, still holds when its row  *)
(* becomes visible, and the sums are those of the visible rows.            *)
ImplementsBook == Book!Spec

(* A request that was submitted ends: no lock is left held and no two      *)
(* requests wait for each other.                                           *)
EveryRequestEnds == \A r \in Requests : pc[r] # "idle" ~> pc[r] = "idle"

=============================================================================
