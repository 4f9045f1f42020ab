------------------------- MODULE WorklogLedgerProofs -------------------------
(***************************************************************************)
(* The safety of WorklogLedger for any number of requests, users and tasks *)
(* and for any bounds.  None of the three safety invariants is inductive:  *)
(* what a request checked must still hold when it commits, and that is so  *)
(* because it keeps the locks under which it checked.  `Inv' says so.      *)
(***************************************************************************)
EXTENDS WorklogLedger, FiniteSetTheorems, WellFoundedInduction, NaturalsInduction, TLAPS

(* The task row is locked from the first read to the end of the request. *)
HoldsTask(r) ==
    pc[r] \in {"append_day", "append_sums", "append_commit", "move_commit"}
        => taskLock[cmd[r].task] = r

HoldsDay(r) == pc[r] \in {"append_sums", "append_commit"} => dayLock[Scope(r)] = r

(* What was checked about the sums still holds. *)
SumsChecked(r) == pc[r] = "append_commit" => WithinLimits(cmd[r], cmd[r].delta)

(* What was checked about the work date still holds. *)
DateChecked(r) ==
    pc[r] \in {"append_day", "append_sums", "append_commit"} =>
        /\ status[cmd[r].task] \notin {"closed", "canceled"}
        /\ DateOpen(cmd[r])

(* A completion that is about to commit covers every row of its task. *)
EndChecked(r) ==
    pc[r] = "move_commit" /\ cmd[r].target \in {"done", "closed"} =>
        \A e \in entries : e.task = cmd[r].task => e.date <= cmd[r].end

PastOnly == \A e \in entries : e.date <= today

Checked(r) == HoldsTask(r) /\ HoldsDay(r) /\ SumsChecked(r) /\ DateChecked(r) /\ EndChecked(r)

Inv ==
    /\ TypeOK
    /\ \A r \in Requests : Checked(r)
    /\ PastOnly
    /\ DailyLimit
    /\ TaskTotalNonNegative
    /\ NoWorkAfterCompletion

-----------------------------------------------------------------------------
LEMMA BlankIsCommand == \A t \in Tasks : Blank(t) \in Command
  BY UserAssumption, BoundAssumption DEF Blank, Command, Days, TaskStatuses

LEMMA NoCommandIsCommand == NoCommand \in Command
  BY BlankIsCommand, TaskAssumption DEF NoCommand

(* Releasing what one request holds leaves the locks of the others alone. *)
LEMMA ReleasedLock ==
  ASSUME NEW S, NEW lock \in [S -> Requests \cup {NoRequest}], NEW r \in Requests
  PROVE  Released(lock, r) \in [S -> Requests \cup {NoRequest}]
  BY RequestAssumption DEF Released

LEMMA KeptLock ==
  ASSUME NEW S, NEW lock \in [S -> Requests \cup {NoRequest}], NEW r \in Requests,
         NEW x \in S, NEW q \in Requests, q # r, lock[x] = q
  PROVE  Released(lock, r)[x] = q
  BY RequestAssumption DEF Released

LEMMA EndTransactionType ==
  ASSUME TypeOK, NEW r \in Requests, EndTransaction(r)
  PROVE  /\ taskLock' \in [Tasks -> Requests \cup {NoRequest}]
         /\ dayLock' \in [Scopes -> Requests \cup {NoRequest}]
         /\ pc' \in [Requests -> Places]
         /\ cmd' \in [Requests -> Command]
         /\ pc'[r] = "idle"
         /\ \A q \in Requests \ {r} :
              /\ pc'[q] = pc[q] /\ cmd'[q] = cmd[q]
              /\ taskLock[cmd[q].task] = q => taskLock'[cmd[q].task] = q
              /\ dayLock[Scope(q)] = q => dayLock'[Scope(q)] = q
  <1>1. /\ taskLock' = Released(taskLock, r) /\ dayLock' = Released(dayLock, r)
        /\ pc' = [pc EXCEPT ![r] = "idle"] /\ cmd' = [cmd EXCEPT ![r] = NoCommand]
    BY DEF EndTransaction, ReleasedDay
  <1>2. /\ taskLock \in [Tasks -> Requests \cup {NoRequest}]
        /\ dayLock \in [Scopes -> Requests \cup {NoRequest}]
        /\ pc \in [Requests -> Places] /\ cmd \in [Requests -> Command]
    BY DEF TypeOK
  <1>3. /\ taskLock' \in [Tasks -> Requests \cup {NoRequest}]
        /\ dayLock' \in [Scopes -> Requests \cup {NoRequest}]
    BY <1>1, <1>2, ReleasedLock
  <1>4. pc' \in [Requests -> Places] /\ cmd' \in [Requests -> Command] /\ pc'[r] = "idle"
    BY <1>1, <1>2, NoCommandIsCommand DEF Places
  <1>5. ASSUME NEW q \in Requests \ {r}
        PROVE  /\ pc'[q] = pc[q] /\ cmd'[q] = cmd[q]
               /\ taskLock[cmd[q].task] = q => taskLock'[cmd[q].task] = q
               /\ dayLock[Scope(q)] = q => dayLock'[Scope(q)] = q
    <2>1. q \in Requests /\ cmd[q].task \in Tasks /\ Scope(q) \in Scopes
      BY <1>2 DEF Command, Scope, Scopes
    <2>2. pc'[q] = pc[q] /\ cmd'[q] = cmd[q]
      BY <1>1, <1>2
    <2>3. Scope(q)' = Scope(q)
      BY <2>2 DEF Scope
    <2>4. taskLock[cmd[q].task] = q => taskLock'[cmd[q].task] = q
      <3>1. taskLock \in [Tasks -> Requests \cup {NoRequest}] /\ q # r
        BY <1>2
      <3>2. taskLock[cmd[q].task] = q => Released(taskLock, r)[cmd[q].task] = q
        BY <3>1, <2>1, KeptLock
      <3>3. QED
        BY <3>2, <2>1, <1>1
    <2>5. dayLock[Scope(q)] = q => dayLock'[Scope(q)] = q
      <3>1. dayLock \in [Scopes -> Requests \cup {NoRequest}] /\ q # r
        BY <1>2
      <3>2. dayLock[Scope(q)] = q => Released(dayLock, r)[Scope(q)] = q
        BY <3>1, <2>1, KeptLock
      <3>3. QED
        BY <3>2, <2>1, <1>1
    <2>6. QED
      BY <2>2, <2>4, <2>5
  <1>6. QED
    BY <1>3, <1>4, <1>5

(* A request that is idle, or that only waits for the task row, has        *)
(* checked nothing yet.                                                    *)
LEMMA NothingChecked ==
  ASSUME NEW r \in Requests, pc[r] \in {"idle", "append_task", "move_task"}
  PROVE  Checked(r)
  BY DEF Checked, HoldsTask, HoldsDay, SumsChecked, DateChecked, EndChecked

(* What another request checked does not change when only locks it does    *)
(* not hold are released and no row changes.                               *)
LEMMA CheckedKept ==
  ASSUME NEW q \in Requests, Checked(q),
         pc'[q] = pc[q], cmd'[q] = cmd[q],
         taskLock[cmd[q].task] = q => taskLock'[cmd[q].task] = q,
         dayLock[Scope(q)] = q => dayLock'[Scope(q)] = q,
         UNCHANGED <<today, status, endDay, entries, taskSum, daySum>>
  PROVE  Checked(q)'
  <1>1. Scope(q)' = Scope(q)
    BY DEF Scope
  <1>2. HoldsTask(q)' /\ HoldsDay(q)'
    BY <1>1 DEF Checked, HoldsTask, HoldsDay
  <1>3. SumsChecked(q)'
    BY DEF Checked, SumsChecked, WithinLimits
  <1>4. DateChecked(q)'
    BY DEF Checked, DateChecked, DateOpen
  <1>5. EndChecked(q)'
    BY DEF Checked, EndChecked
  <1>6. QED
    BY <1>2, <1>3, <1>4, <1>5 DEF Checked

(* A rejected request and a crash change nothing but their own locks. *)
LEMMA AbortInv ==
  ASSUME Inv, NEW r \in Requests, EndTransaction(r),
         UNCHANGED <<today, status, endDay, entries, taskSum, daySum>>
  PROVE  Inv'
  <1>1. TypeOK /\ \A q \in Requests : Checked(q)
    BY DEF Inv
  <1>2. TypeOK'
    BY <1>1, EndTransactionType DEF TypeOK
  <1>3. ASSUME NEW q \in Requests PROVE Checked(q)'
    <2>1. CASE q = r
      <3>1. pc'[q] = "idle"
        BY <1>1, <2>1, EndTransactionType
      <3>2. QED
        BY <3>1 DEF Checked, HoldsTask, HoldsDay, SumsChecked, DateChecked, EndChecked
    <2>2. CASE q # r
      BY <1>1, <2>2, EndTransactionType, CheckedKept
    <2>3. QED
      BY <2>1, <2>2
  <1>4. (PastOnly /\ DailyLimit /\ TaskTotalNonNegative /\ NoWorkAfterCompletion)'
    BY DEF Inv, PastOnly, DailyLimit, TaskTotalNonNegative, NoWorkAfterCompletion
  <1>5. QED
    BY <1>2, <1>3, <1>4 DEF Inv

LEMMA SubmitInv ==
  ASSUME Inv, NEW r \in Requests, NEW t \in Tasks, SubmitWorklog(r, t) \/ SubmitTransition(r, t)
  PROVE  Inv'
  <1>1. TypeOK /\ \A q \in Requests : Checked(q)
    BY DEF Inv
  <1>2. /\ pc[r] = "idle" /\ cmd' = [cmd EXCEPT ![r] = Blank(t)]
        /\ \E p \in {"append_task", "move_task"} : pc' = [pc EXCEPT ![r] = p]
        /\ UNCHANGED <<today, status, endDay, entries, taskSum, daySum, taskLock, dayLock>>
    BY DEF SubmitWorklog, SubmitTransition
  <1>3. TypeOK'
    BY <1>1, <1>2, BlankIsCommand DEF TypeOK, Places
  <1>4. ASSUME NEW q \in Requests PROVE Checked(q)'
    <2>1. CASE q = r
      <3>1. pc'[q] \in {"append_task", "move_task"}
        BY <1>1, <1>2, <2>1 DEF TypeOK
      <3>2. QED
        BY <3>1 DEF Checked, HoldsTask, HoldsDay, SumsChecked, DateChecked, EndChecked
    <2>2. CASE q # r
      <3>1. pc'[q] = pc[q] /\ cmd'[q] = cmd[q]
        BY <1>1, <1>2, <2>2 DEF TypeOK
      <3>2. QED
        BY <1>1, <1>2, <3>1, CheckedKept
    <2>3. QED
      BY <2>1, <2>2
  <1>5. (PastOnly /\ DailyLimit /\ TaskTotalNonNegative /\ NoWorkAfterCompletion)'
    BY <1>2 DEF Inv, PastOnly, DailyLimit, TaskTotalNonNegative, NoWorkAfterCompletion
  <1>6. QED
    BY <1>3, <1>4, <1>5 DEF Inv

LEMMA LockTaskInv ==
  ASSUME Inv, NEW r \in Requests, LockTask(r)
  PROVE  Inv'
  <1>1. TypeOK /\ \A q \in Requests : Checked(q)
    BY DEF Inv
  <1>2. PICK actor \in Users, user \in Users, date \in Days, corrects \in 0..MaxEntries :
          LET c == [cmd[r] EXCEPT !.user = user, !.date = date, !.corrects = corrects]
          IN  \/ /\ Accepts(actor, c)
                 /\ taskLock' = [taskLock EXCEPT ![c.task] = r]
                 /\ pc' = [pc EXCEPT ![r] = "append_day"]
                 /\ cmd' = [cmd EXCEPT ![r] = c]
                 /\ UNCHANGED dayLock
              \/ ~Accepts(actor, c) /\ EndTransaction(r)
    BY DEF LockTask
  <1>3. UNCHANGED <<today, status, endDay, entries, taskSum, daySum>> /\ taskLock[cmd[r].task] = NoRequest
    BY DEF LockTask, TaskRowFree
  <1> DEFINE c == [cmd[r] EXCEPT !.user = user, !.date = date, !.corrects = corrects]
  <1>4. c \in Command /\ c.task = cmd[r].task
    <2>1. cmd[r] \in Command /\ corrects \in Nat
      BY <1>1, BoundAssumption DEF TypeOK
    <2>2. QED
      BY <2>1 DEF Command
  <1>5. CASE EndTransaction(r)
    BY <1>3, <1>5, AbortInv
  <1>6. CASE /\ Accepts(actor, c)
             /\ taskLock' = [taskLock EXCEPT ![c.task] = r]
             /\ pc' = [pc EXCEPT ![r] = "append_day"]
             /\ cmd' = [cmd EXCEPT ![r] = c]
             /\ UNCHANGED dayLock
    <2> HIDE DEF c
    <2>1. TypeOK'
      BY <1>1, <1>3, <1>4, <1>6 DEF TypeOK, Places, Command
    <2>2. ASSUME NEW q \in Requests PROVE Checked(q)'
      <3>1. CASE q = r
        <4>1. pc'[q] = "append_day" /\ cmd'[q] = c /\ taskLock'[c.task] = q
          BY <1>1, <1>4, <1>6, <3>1 DEF TypeOK, Command
        <4>2. c.date <= today' /\ (status'[c.task] = "done" => c.date <= endDay'[c.task])
              /\ status'[c.task] \notin {"closed", "canceled"}
          BY <1>3, <1>6 DEF Accepts, DateOpen
        <4>3. QED
          BY <4>1, <4>2 DEF Checked, HoldsTask, HoldsDay, SumsChecked, DateChecked, DateOpen, EndChecked
      <3>2. CASE q # r
        <4>1. pc'[q] = pc[q] /\ cmd'[q] = cmd[q]
          BY <1>1, <1>6, <3>2 DEF TypeOK
        <4>2. taskLock[cmd[q].task] = q => taskLock'[cmd[q].task] = q
          BY <1>1, <1>3, <1>4, <1>6, RequestAssumption DEF TypeOK, Command
        <4>3. QED
          BY <1>1, <1>3, <1>6, <4>1, <4>2, CheckedKept
      <3>3. QED
        BY <3>1, <3>2
    <2>3. (PastOnly /\ DailyLimit /\ TaskTotalNonNegative /\ NoWorkAfterCompletion)'
      BY <1>3 DEF Inv, PastOnly, DailyLimit, TaskTotalNonNegative, NoWorkAfterCompletion
    <2>4. QED
      BY <2>1, <2>2, <2>3 DEF Inv
  <1>7. QED
    BY <1>2, <1>5, <1>6

LEMMA LockDayInv ==
  ASSUME Inv, NEW r \in Requests, LockDay(r)
  PROVE  Inv'
  <1>1. TypeOK /\ \A q \in Requests : Checked(q)
    BY DEF Inv
  <1>2. /\ pc[r] = "append_day" /\ dayLock[Scope(r)] = NoRequest
        /\ dayLock' = [dayLock EXCEPT ![Scope(r)] = r]
        /\ pc' = [pc EXCEPT ![r] = "append_sums"]
        /\ UNCHANGED <<today, status, endDay, entries, taskSum, daySum, taskLock, cmd>>
    BY DEF LockDay, DayScopeFree
  <1>3. \A q \in Requests : Scope(q) \in Scopes /\ Scope(q)' = Scope(q)
    BY <1>1, <1>2 DEF TypeOK, Command, Scope, Scopes
  <1>4. TypeOK'
    BY <1>1, <1>2, <1>3 DEF TypeOK, Places
  <1>5. ASSUME NEW q \in Requests PROVE Checked(q)'
    <2>1. CASE q = r
      <3>1. pc'[q] = "append_sums" /\ dayLock'[Scope(q)] = q
        BY <1>1, <1>2, <1>3, <2>1 DEF TypeOK
      <3>2. HoldsTask(q)' /\ HoldsDay(q)'
        BY <1>1, <1>2, <1>3, <2>1, <3>1 DEF Checked, HoldsTask, HoldsDay
      <3>3. DateChecked(q)'
        BY <1>1, <1>2, <2>1 DEF Checked, DateChecked, DateOpen
      <3>4. SumsChecked(q)' /\ EndChecked(q)'
        BY <3>1 DEF SumsChecked, EndChecked
      <3>5. QED
        BY <3>2, <3>3, <3>4 DEF Checked
    <2>2. CASE q # r
      <3>1. pc'[q] = pc[q] /\ cmd'[q] = cmd[q]
        BY <1>1, <1>2, <2>2 DEF TypeOK
      <3>2. dayLock[Scope(q)] = q => dayLock'[Scope(q)] = q
        BY <1>1, <1>2, <1>3, RequestAssumption DEF TypeOK
      <3>3. QED
        BY <1>1, <1>2, <3>1, <3>2, CheckedKept
    <2>3. QED
      BY <2>1, <2>2
  <1>6. (PastOnly /\ DailyLimit /\ TaskTotalNonNegative /\ NoWorkAfterCompletion)'
    BY <1>2 DEF Inv, PastOnly, DailyLimit, TaskTotalNonNegative, NoWorkAfterCompletion
  <1>7. QED
    BY <1>4, <1>5, <1>6 DEF Inv

LEMMA CheckSumsInv ==
  ASSUME Inv, NEW r \in Requests, CheckSums(r)
  PROVE  Inv'
  <1>1. TypeOK /\ \A q \in Requests : Checked(q)
    BY DEF Inv
  <1>2. PICK delta \in -DayLimit..DayLimit :
          \/ /\ WithinLimits(cmd[r], delta)
             /\ pc' = [pc EXCEPT ![r] = "append_commit"]
             /\ cmd' = [cmd EXCEPT ![r].delta = delta]
             /\ UNCHANGED <<taskLock, dayLock>>
          \/ EndTransaction(r)
    BY DEF CheckSums
  <1>3. pc[r] = "append_sums" /\ UNCHANGED <<today, status, endDay, entries, taskSum, daySum>>
    BY DEF CheckSums
  <1>4. CASE EndTransaction(r)
    BY <1>3, <1>4, AbortInv
  <1>5. CASE /\ WithinLimits(cmd[r], delta)
             /\ pc' = [pc EXCEPT ![r] = "append_commit"]
             /\ cmd' = [cmd EXCEPT ![r].delta = delta]
             /\ UNCHANGED <<taskLock, dayLock>>
    <2>1. delta \in Int
      BY BoundAssumption
    <2>2. TypeOK'
      BY <1>1, <1>3, <1>5, <2>1 DEF TypeOK, Places, Command
    <2>3. ASSUME NEW q \in Requests PROVE Checked(q)'
      <3>1. CASE q = r
        <4>1. /\ pc'[q] = "append_commit" /\ cmd'[q].task = cmd[q].task /\ cmd'[q].user = cmd[q].user
              /\ cmd'[q].date = cmd[q].date /\ cmd'[q].delta = delta
          BY <1>1, <1>5, <3>1 DEF TypeOK, Command
        <4>2. HoldsTask(q)' /\ HoldsDay(q)'
          BY <1>1, <1>3, <1>5, <3>1, <4>1 DEF Checked, HoldsTask, HoldsDay, Scope
        <4>3. DateChecked(q)'
          BY <1>1, <1>3, <3>1, <4>1 DEF Checked, DateChecked, DateOpen
        <4>4. SumsChecked(q)' /\ EndChecked(q)'
          BY <1>3, <1>5, <3>1, <4>1 DEF SumsChecked, WithinLimits, EndChecked
        <4>5. QED
          BY <4>2, <4>3, <4>4 DEF Checked
      <3>2. CASE q # r
        <4>1. pc'[q] = pc[q] /\ cmd'[q] = cmd[q]
          BY <1>1, <1>5, <3>2 DEF TypeOK
        <4>2. QED
          BY <1>1, <1>3, <1>5, <4>1, CheckedKept
      <3>3. QED
        BY <3>1, <3>2
    <2>4. (PastOnly /\ DailyLimit /\ TaskTotalNonNegative /\ NoWorkAfterCompletion)'
      BY <1>3 DEF Inv, PastOnly, DailyLimit, TaskTotalNonNegative, NoWorkAfterCompletion
    <2>5. QED
      BY <2>2, <2>3, <2>4 DEF Inv
  <1>6. QED
    BY <1>2, <1>4, <1>5

(* The row that becomes visible is covered by what its request checked; the *)
(* other requests at that point hold other task rows and other scopes.      *)
LEMMA CommitWorklogInv ==
  ASSUME Inv, NEW r \in Requests, CommitWorklog(r)
  PROVE  Inv'
  <1>1. TypeOK /\ \A q \in Requests : Checked(q)
    BY DEF Inv
  <1> DEFINE t == cmd[r].task
             s == Scope(r)
             d == cmd[r].delta
             row == Row(cmd[r], Cardinality(entries) + 1)
  <1>2. /\ pc[r] = "append_commit"
        /\ entries' = entries \cup {row}
        /\ taskSum' = [taskSum EXCEPT ![t] = @ + d]
        /\ daySum' = [daySum EXCEPT ![s] = @ + d]
        /\ EndTransaction(r)
        /\ UNCHANGED <<today, status, endDay>>
    BY DEF CommitWorklog
  <1>3. /\ cmd[r] \in Command /\ t \in Tasks /\ s \in Scopes /\ d \in Int
        /\ taskLock[t] = r /\ dayLock[s] = r
        /\ taskSum[t] + d >= 0 /\ daySum[s] + d <= DayLimit
        /\ status[t] \notin {"closed", "canceled"} /\ DateOpen(cmd[r])
    BY <1>1, <1>2 DEF TypeOK, Command, Scope, Scopes, Checked, HoldsTask, HoldsDay, SumsChecked,
       WithinLimits, DateChecked
  <1>4. row.task = t /\ row.date = cmd[r].date
    BY DEF Row
  <1>5. TypeOK'
    <2>1. IsFiniteSet(entries') /\ Cardinality(entries) \in Nat
      BY <1>1, <1>2, FS_CardinalityType, FS_AddElement DEF TypeOK
    <2>2. row \in [id: Nat, task: Tasks, user: Users, date: Days, delta: Int, corrects: Nat]
      BY <1>3, <2>1 DEF Row, Command
    <2>3. taskSum' \in [Tasks -> Int] /\ daySum' \in [Scopes -> Int]
      BY <1>1, <1>2, <1>3 DEF TypeOK
    <2>4. QED
      BY <1>1, <1>2, <2>1, <2>2, <2>3, EndTransactionType DEF TypeOK
  <1>6. ASSUME NEW q \in Requests PROVE Checked(q)'
    <2>1. CASE q = r
      <3>1. pc'[q] = "idle"
        BY <1>1, <1>2, <2>1, EndTransactionType
      <3>2. QED
        BY <3>1 DEF Checked, HoldsTask, HoldsDay, SumsChecked, DateChecked, EndChecked
    <2>2. CASE q # r
      <3>1. /\ pc'[q] = pc[q] /\ cmd'[q] = cmd[q] /\ Scope(q)' = Scope(q)
            /\ cmd[q].task \in Tasks /\ Scope(q) \in Scopes
            /\ taskLock[cmd[q].task] = q => taskLock'[cmd[q].task] = q
            /\ dayLock[Scope(q)] = q => dayLock'[Scope(q)] = q
        BY <1>1, <1>2, <2>2, EndTransactionType DEF Scope, Scopes, TypeOK, Command
      <3>2. HoldsTask(q)' /\ HoldsDay(q)'
        BY <1>1, <3>1 DEF Checked, HoldsTask, HoldsDay
      <3>3. SumsChecked(q)'
        <4>1. SUFFICES ASSUME pc[q] = "append_commit" PROVE WithinLimits(cmd[q], cmd[q].delta)'
          BY <3>1 DEF SumsChecked
        <4>2. cmd[q].task # t /\ Scope(q) # s /\ WithinLimits(cmd[q], cmd[q].delta)
          BY <1>1, <1>3, <2>2, <4>1 DEF Checked, HoldsTask, HoldsDay, SumsChecked
        <4>3. taskSum'[cmd[q].task] = taskSum[cmd[q].task] /\ daySum'[Scope(q)] = daySum[Scope(q)]
          BY <1>1, <1>2, <3>1, <4>2 DEF TypeOK
        <4>4. QED
          BY <3>1, <4>2, <4>3 DEF WithinLimits, Scope
      <3>4. DateChecked(q)'
        BY <1>1, <1>2, <3>1 DEF Checked, DateChecked, DateOpen
      <3>5. EndChecked(q)'
        <4>1. EndChecked(q) /\ (pc[q] = "move_commit" => cmd[q].task # t)
          BY <1>1, <1>3, <2>2 DEF Checked, EndChecked, HoldsTask
        <4> HIDE DEF row
        <4>2. QED
          BY <1>2, <1>4, <3>1, <4>1 DEF EndChecked
      <3>6. QED
        BY <3>2, <3>3, <3>4, <3>5 DEF Checked
    <2>3. QED
      BY <2>1, <2>2
  <1>7. PastOnly'
    BY <1>2, <1>3, <1>4 DEF Inv, PastOnly, DateOpen
  <1>8. DailyLimit' /\ TaskTotalNonNegative'
    BY <1>1, <1>2, <1>3 DEF Inv, TypeOK, DailyLimit, TaskTotalNonNegative
  <1>9. NoWorkAfterCompletion'
    BY <1>2, <1>3, <1>4 DEF Inv, NoWorkAfterCompletion, DateOpen
  <1>10. QED
    BY <1>5, <1>6, <1>7, <1>8, <1>9 DEF Inv

LEMMA LockTransitionInv ==
  ASSUME Inv, NEW r \in Requests, LockTransition(r)
  PROVE  Inv'
  <1>1. TypeOK /\ \A q \in Requests : Checked(q)
    BY DEF Inv
  <1> DEFINE t == cmd[r].task
  <1>2. PICK actor \in Users, target \in TaskStatuses :
          \/ /\ target \in AllowedTargets(status[t], RoleOf[actor])
             /\ taskLock' = [taskLock EXCEPT ![t] = r]
             /\ pc' = [pc EXCEPT ![r] = "move_commit"]
             /\ cmd' = [cmd EXCEPT ![r].target = target, ![r].end = EndAfter(t, target)]
             /\ UNCHANGED dayLock
          \/ EndTransaction(r)
    BY DEF LockTransition
  <1>3. UNCHANGED <<today, status, endDay, entries, taskSum, daySum>> /\ taskLock[t] = NoRequest
    BY DEF LockTransition, TaskRowFree
  <1>4. CASE EndTransaction(r)
    BY <1>3, <1>4, AbortInv
  <1>5. CASE /\ target \in AllowedTargets(status[t], RoleOf[actor])
             /\ taskLock' = [taskLock EXCEPT ![t] = r]
             /\ pc' = [pc EXCEPT ![r] = "move_commit"]
             /\ cmd' = [cmd EXCEPT ![r].target = target, ![r].end = EndAfter(t, target)]
             /\ UNCHANGED dayLock
    <2>1. t \in Tasks /\ cmd[r] \in Command /\ today \in Days /\ endDay[t] \in 0..MaxDay
      BY <1>1 DEF TypeOK, Command
    <2>2. EndAfter(t, target) \in 0..MaxDay
      BY <2>1, BoundAssumption DEF EndAfter, Days
    <2>3. TypeOK'
      BY <1>1, <1>3, <1>5, <2>1, <2>2 DEF TypeOK, Places, Command
    <2>4. target = "closed" => status[t] = "done"
      BY <1>1, <1>5, <2>1 DEF AllowedTargets, Transitions, TypeOK, TaskStatuses
    <2>5. target \in {"done", "closed"} => \A e \in entries : e.task = t => e.date <= EndAfter(t, target)
      BY <2>1, <2>4 DEF EndAfter, Inv, PastOnly, NoWorkAfterCompletion
    <2>6. ASSUME NEW q \in Requests PROVE Checked(q)'
      <3>1. CASE q = r
        <4>1. /\ pc'[q] = "move_commit" /\ cmd'[q].task = t /\ cmd'[q].target = target
              /\ cmd'[q].end = EndAfter(t, target) /\ taskLock'[t] = q
          BY <1>1, <1>5, <2>1, <3>1 DEF TypeOK, Command
        <4>2. QED
          BY <1>3, <2>5, <4>1 DEF Checked, HoldsTask, HoldsDay, SumsChecked, DateChecked, EndChecked
      <3>2. CASE q # r
        <4>1. pc'[q] = pc[q] /\ cmd'[q] = cmd[q]
          BY <1>1, <1>5, <3>2 DEF TypeOK
        <4>2. taskLock[cmd[q].task] = q => taskLock'[cmd[q].task] = q
          BY <1>1, <1>3, <1>5, RequestAssumption DEF TypeOK, Command
        <4>3. QED
          BY <1>1, <1>3, <1>5, <4>1, <4>2, CheckedKept
      <3>3. QED
        BY <3>1, <3>2
    <2>7. (PastOnly /\ DailyLimit /\ TaskTotalNonNegative /\ NoWorkAfterCompletion)'
      BY <1>3 DEF Inv, PastOnly, DailyLimit, TaskTotalNonNegative, NoWorkAfterCompletion
    <2>8. QED
      BY <2>3, <2>6, <2>7 DEF Inv
  <1>6. QED
    BY <1>2, <1>4, <1>5

LEMMA CommitTransitionInv ==
  ASSUME Inv, NEW r \in Requests, CommitTransition(r)
  PROVE  Inv'
  <1>1. TypeOK /\ \A q \in Requests : Checked(q)
    BY DEF Inv
  <1> DEFINE t == cmd[r].task
  <1>2. /\ pc[r] = "move_commit"
        /\ status' = [status EXCEPT ![t] = cmd[r].target]
        /\ endDay' = [endDay EXCEPT ![t] = cmd[r].end]
        /\ EndTransaction(r)
        /\ UNCHANGED <<today, entries, taskSum, daySum>>
    BY DEF CommitTransition
  <1>3. cmd[r] \in Command /\ t \in Tasks /\ taskLock[t] = r
    BY <1>1, <1>2 DEF TypeOK, Command, Checked, HoldsTask
  <1>4. TypeOK'
    <2>1. status' \in [Tasks -> TaskStatuses] /\ endDay' \in [Tasks -> 0..MaxDay]
      BY <1>1, <1>2, <1>3 DEF TypeOK, Command
    <2>2. QED
      BY <1>1, <1>2, <2>1, EndTransactionType DEF TypeOK
  <1>5. ASSUME NEW q \in Requests PROVE Checked(q)'
    <2>1. CASE q = r
      <3>1. pc'[q] = "idle"
        BY <1>1, <1>2, <2>1, EndTransactionType
      <3>2. QED
        BY <3>1 DEF Checked, HoldsTask, HoldsDay, SumsChecked, DateChecked, EndChecked
    <2>2. CASE q # r
      <3>1. /\ pc'[q] = pc[q] /\ cmd'[q] = cmd[q] /\ Scope(q)' = Scope(q)
            /\ cmd[q].task \in Tasks
            /\ taskLock[cmd[q].task] = q => taskLock'[cmd[q].task] = q
            /\ dayLock[Scope(q)] = q => dayLock'[Scope(q)] = q
        BY <1>1, <1>2, <2>2, EndTransactionType DEF Scope, TypeOK, Command
      <3>2. HoldsTask(q)' /\ HoldsDay(q)'
        BY <1>1, <3>1 DEF Checked, HoldsTask, HoldsDay
      <3>3. SumsChecked(q)'
        BY <1>1, <1>2, <3>1 DEF Checked, SumsChecked, WithinLimits
      <3>4. DateChecked(q)'
        <4>1. SUFFICES ASSUME pc[q] \in {"append_day", "append_sums", "append_commit"}
                       PROVE  /\ status'[cmd[q].task] \notin {"closed", "canceled"}
                              /\ DateOpen(cmd[q])'
          BY <3>1 DEF DateChecked, DateOpen
        <4>2. cmd[q].task # t
          BY <1>1, <1>3, <2>2, <4>1 DEF Checked, HoldsTask
        <4>3. status'[cmd[q].task] = status[cmd[q].task] /\ endDay'[cmd[q].task] = endDay[cmd[q].task]
          BY <1>1, <1>2, <3>1, <4>2 DEF TypeOK
        <4>4. QED
          BY <1>1, <1>2, <3>1, <4>1, <4>3 DEF Checked, DateChecked, DateOpen
      <3>5. EndChecked(q)'
        BY <1>1, <1>2, <3>1 DEF Checked, EndChecked
      <3>6. QED
        BY <3>2, <3>3, <3>4, <3>5 DEF Checked
    <2>3. QED
      BY <2>1, <2>2
  <1>6. (PastOnly /\ DailyLimit /\ TaskTotalNonNegative)'
    BY <1>2 DEF Inv, PastOnly, DailyLimit, TaskTotalNonNegative
  <1>7. NoWorkAfterCompletion'
    <2>1. SUFFICES ASSUME NEW e \in entries, status'[e.task] \in {"done", "closed"}
                   PROVE  e.date <= endDay'[e.task]
      BY <1>2 DEF NoWorkAfterCompletion
    <2>2. e.task \in Tasks
      BY <1>1 DEF TypeOK
    <2>3. CASE e.task = t
      BY <1>1, <1>2, <1>3, <2>1, <2>3 DEF TypeOK, Checked, EndChecked
    <2>4. CASE e.task # t
      BY <1>1, <1>2, <2>1, <2>2, <2>4 DEF TypeOK, Inv, NoWorkAfterCompletion
    <2>5. QED
      BY <2>3, <2>4
  <1>8. QED
    BY <1>4, <1>5, <1>6, <1>7 DEF Inv

LEMMA TickInv ==
  ASSUME Inv, Tick
  PROVE  Inv'
  <1>1. /\ today < MaxDay /\ today' = today + 1
        /\ UNCHANGED <<status, endDay, entries, taskSum, daySum, taskLock, dayLock, pc, cmd>>
    BY DEF Tick
  <1>2. TypeOK /\ (\A q \in Requests : Checked(q)) /\ today \in Days
    BY DEF Inv, TypeOK
  <1>3. TypeOK'
    BY <1>1, <1>2, BoundAssumption DEF TypeOK, Days
  <1>4. ASSUME NEW q \in Requests PROVE Checked(q)'
    <2>1. cmd[q] \in Command /\ cmd[q].date \in Int /\ today \in Int
      BY <1>2, BoundAssumption DEF TypeOK, Command, Days
    <2>2. Checked(q) /\ Scope(q)' = Scope(q)
      BY <1>1, <1>2 DEF Scope
    <2>3. DateChecked(q)'
      BY <1>1, <2>1, <2>2 DEF Checked, DateChecked, DateOpen
    <2>4. HoldsTask(q)' /\ HoldsDay(q)' /\ SumsChecked(q)' /\ EndChecked(q)'
      BY <1>1, <2>2 DEF Checked, HoldsTask, HoldsDay, SumsChecked, WithinLimits, EndChecked
    <2>5. QED
      BY <2>3, <2>4 DEF Checked
  <1>5. PastOnly'
    BY <1>1, <1>2, BoundAssumption DEF Inv, PastOnly, TypeOK, Days
  <1>6. (DailyLimit /\ TaskTotalNonNegative /\ NoWorkAfterCompletion)'
    BY <1>1 DEF Inv, DailyLimit, TaskTotalNonNegative, NoWorkAfterCompletion
  <1>7. QED
    BY <1>3, <1>4, <1>5, <1>6 DEF Inv

LEMMA InitInv == Init => Inv
  <1> SUFFICES ASSUME Init PROVE Inv
    OBVIOUS
  <1>1. TypeOK
    BY BoundAssumption, NoCommandIsCommand, FS_EmptySet DEF Init, TypeOK, Days, Places, TaskStatuses
  <1>2. \A q \in Requests : Checked(q)
    BY NothingChecked DEF Init
  <1>3. PastOnly /\ DailyLimit /\ TaskTotalNonNegative /\ NoWorkAfterCompletion
    BY BoundAssumption DEF Init, PastOnly, DailyLimit, TaskTotalNonNegative, NoWorkAfterCompletion
  <1>4. QED
    BY <1>1, <1>2, <1>3 DEF Inv

LEMMA StepInv == Inv /\ [Next]_vars => Inv'
  <1> SUFFICES ASSUME Inv, [Next]_vars PROVE Inv'
    OBVIOUS
  <1>1. CASE Tick
    BY <1>1, TickInv
  <1>2. ASSUME NEW r \in Requests, NEW t \in Tasks, SubmitWorklog(r, t) \/ SubmitTransition(r, t)
        PROVE  Inv'
    BY <1>2, SubmitInv
  <1>3. ASSUME NEW r \in Requests, Acquire(r)
        PROVE  Inv'
    BY <1>3, LockTaskInv, LockDayInv, LockTransitionInv DEF Acquire
  <1>4. ASSUME NEW r \in Requests, Proceed(r)
        PROVE  Inv'
    BY <1>4, CheckSumsInv, CommitWorklogInv, CommitTransitionInv DEF Proceed
  <1>5. ASSUME NEW r \in Requests, Crash(r)
        PROVE  Inv'
    BY <1>5, AbortInv DEF Crash
  <1>6. CASE UNCHANGED vars
    <2>1. ASSUME NEW q \in Requests PROVE Checked(q)'
      BY <1>6, CheckedKept DEF Inv, vars
    <2>2. (TypeOK /\ PastOnly /\ DailyLimit /\ TaskTotalNonNegative /\ NoWorkAfterCompletion)'
      BY <1>6 DEF vars, Inv, TypeOK, PastOnly, DailyLimit, TaskTotalNonNegative, NoWorkAfterCompletion
    <2>3. QED
      BY <2>1, <2>2 DEF Inv
  <1>7. QED
    BY <1>1, <1>2, <1>3, <1>4, <1>5, <1>6 DEF Next

(* The inductive invariant: what a request checked under its locks holds   *)
(* until its transaction ends (tasks/service.py, _append_worklog).         *)
THEOREM Invariance == Spec => []Inv
  BY InitInv, StepInv, PTL DEF Spec

(* The variables keep their types, the rows of worklogs stay finite.       *)
THEOREM TypeCorrect == Spec => []TypeOK
  <1>1. Inv => TypeOK
    BY DEF Inv
  <1>2. QED
    BY <1>1, Invariance, PTL

(* The daily cap of _append_worklog holds for every user and work date,    *)
(* whatever runs at the same time.                                         *)
THEOREM DailyLimitHolds == Spec => []DailyLimit
  <1>1. Inv => DailyLimit
    BY DEF Inv
  <1>2. QED
    BY <1>1, Invariance, PTL

(* Concurrent corrections never make the minutes of a task negative.       *)
THEOREM TaskTotalHolds == Spec => []TaskTotalNonNegative
  <1>1. Inv => TaskTotalNonNegative
    BY DEF Inv
  <1>2. QED
    BY <1>1, Invariance, PTL

(* Worklog dates and completion dates agree, although logging, completing, *)
(* closing and reopening run at the same time.                             *)
THEOREM CompletionDateHolds == Spec => []NoWorkAfterCompletion
  <1>1. Inv => NoWorkAfterCompletion
    BY DEF Inv
  <1>2. QED
    BY <1>1, Invariance, PTL

-----------------------------------------------------------------------------
(* The sum of the minutes of a finite set of rows *)

(* Every set of numbers has a least one; it stands for induction below: a  *)
(* statement about finite sets that fails, fails for a smallest one.       *)
LEMMA Least ==
  ASSUME NEW T, T \subseteq Nat, T # {}
  PROVE  \E x \in T : \A y \in T : ~(y < x)
  <1> DEFINE R == OpToRel(<, Nat)
  <1>1. IsWellFoundedOn(R, Nat)
    BY NatLessThanWellFounded
  <1>2. \A x, y \in Nat : y < x => <<y, x>> \in R
    BY DEF OpToRel
  <1> HIDE DEF R
  <1>3. PICK x \in T : \A y \in T : ~(<<y, x>> \in R)
    BY <1>1, WFMin
  <1>4. QED
    BY <1>2, <1>3

(* The row Minutes takes first, and the recursion by which it goes on.     *)
First(s) == CHOOSE x \in s : TRUE

Solves(g, S) == g = [s \in SUBSET S |-> IF s = {} THEN 0 ELSE First(s).delta + g[s \ {First(s)}]]

Sum(S) == (CHOOSE g : Solves(g, S))[S]

LEMMA MinutesIsSum == ASSUME NEW S PROVE Book!Minutes(S) = Sum(S)
  BY DEF Book!Minutes, Book!MapThenSumSet, Book!MapThenFoldSet, Sum, Solves, First

(* Of the sets with a property the smallest: all smaller subsets of S lack it. *)
LEMMA SmallerSet ==
  ASSUME NEW S, IsFiniteSet(S), NEW v, v \subseteq S, v # S
  PROVE  IsFiniteSet(v) /\ Cardinality(v) \in Nat /\ Cardinality(v) < Cardinality(S)
  BY FS_Subset, FS_CardinalityType

LEMMA FirstIn == ASSUME NEW s, s # {} PROVE First(s) \in s
  BY DEF First

LEMMA Unfold ==
  ASSUME NEW g, NEW S, Solves(g, S), NEW s \in SUBSET S
  PROVE  /\ s = {} => g[s] = 0
         /\ s # {} => g[s] = First(s).delta + g[s \ {First(s)}]
  BY DEF Solves

(* Two solutions agree where both are defined.                             *)
LEMMA SolutionsAgree ==
  ASSUME NEW g, NEW S, Solves(g, S), NEW h, NEW T, Solves(h, T),
         NEW s, s \subseteq S, s \subseteq T, IsFiniteSet(s)
  PROVE  g[s] = h[s]
  <1> DEFINE Bad == {n \in Nat : \E u \in SUBSET s : Cardinality(u) = n /\ g[u] # h[u]}
  <1>1. Bad = {}
    <2> SUFFICES ASSUME Bad # {} PROVE FALSE
      OBVIOUS
    <2>1. PICK n \in Bad : \A m \in Bad : ~(m < n)
      BY Least
    <2>2. PICK u \in SUBSET s : Cardinality(u) = n /\ g[u] # h[u]
      OBVIOUS
    <2>3. IsFiniteSet(u) /\ u \in SUBSET S /\ u \in SUBSET T
      BY FS_Subset
    <2>4. u # {}
      BY <2>2, <2>3, Unfold
    <2> DEFINE v == u \ {First(u)}
    <2>5. v \in SUBSET s /\ v # u /\ v \subseteq u
      BY <2>4, FirstIn
    <2>6. Cardinality(v) \in Nat /\ Cardinality(v) < n
      BY <2>2, <2>3, <2>5, SmallerSet
    <2>7. g[v] = h[v]
      BY <2>1, <2>5, <2>6
    <2>8. g[u] = First(u).delta + g[v] /\ h[u] = First(u).delta + h[v]
      BY <2>3, <2>4, Unfold
    <2>9. QED
      BY <2>2, <2>7, <2>8
  <1>2. Cardinality(s) \in Nat
    BY FS_CardinalityType
  <1>3. QED
    BY <1>1, <1>2

LEMMA SolutionExists ==
  ASSUME NEW S, IsFiniteSet(S)
  PROVE  \E g : Solves(g, S)
  <1> DEFINE Bad == {n \in Nat : \E u \in SUBSET S : Cardinality(u) = n /\ ~\E g : Solves(g, u)}
  <1>1. Bad = {}
    <2> SUFFICES ASSUME Bad # {} PROVE FALSE
      OBVIOUS
    <2>1. PICK n \in Bad : \A m \in Bad : ~(m < n)
      BY Least
    <2>2. PICK u \in SUBSET S : Cardinality(u) = n /\ ~\E g : Solves(g, u)
      OBVIOUS
    <2>3. IsFiniteSet(u)
      BY FS_Subset
    <2> DEFINE Of(v) == CHOOSE g : Solves(g, v)
    <2>4. ASSUME NEW v, v \subseteq u, v # u PROVE Solves(Of(v), v) /\ IsFiniteSet(v)
      <3>1. IsFiniteSet(v) /\ Cardinality(v) \in Nat /\ Cardinality(v) < n
        BY <2>2, <2>3, <2>4, SmallerSet
      <3>2. v \in SUBSET S
        BY <2>4
      <3>3. \E g : Solves(g, v)
        BY <2>1, <3>1, <3>2
      <3>4. QED
        BY <3>1, <3>3
    <2> HIDE DEF Of
    <2> DEFINE k == [s \in SUBSET u |-> IF s = {} THEN 0
                       ELSE First(s).delta + Of(s \ {First(s)})[s \ {First(s)}]]
    <2>5. ASSUME NEW s \in SUBSET u, s # {}
          PROVE  k[s \ {First(s)}] = Of(s \ {First(s)})[s \ {First(s)}]
      <3> DEFINE w == s \ {First(s)}
      <3>1. w \subseteq u /\ w # u /\ w \in SUBSET w
        BY <2>5, FirstIn
      <3>2. Solves(Of(w), w) /\ IsFiniteSet(w)
        BY <2>4, <3>1
      <3>3. CASE w = {}
        BY <3>1, <3>2, <3>3, Unfold
      <3>4. CASE w # {}
        <4> DEFINE z == w \ {First(w)}
        <4>1. First(w) \in w /\ z \subseteq w /\ z \subseteq u /\ z # u
          BY <3>1, <3>4, FirstIn
        <4>2. Solves(Of(z), z) /\ IsFiniteSet(z)
          BY <2>4, <4>1
        <4>3. Of(w)[w] = First(w).delta + Of(w)[z]
          BY <3>1, <3>2, <3>4, Unfold
        <4>4. Of(w)[z] = Of(z)[z]
          BY <3>2, <4>1, <4>2, SolutionsAgree
        <4>5. k[w] = First(w).delta + Of(z)[z]
          BY <3>1, <3>4
        <4>6. QED
          BY <4>3, <4>4, <4>5
      <3>5. QED
        BY <3>3, <3>4
    <2>6. \A s \in SUBSET u : k[s] = IF s = {} THEN 0 ELSE First(s).delta + k[s \ {First(s)}]
      BY <2>5
    <2>7. k = [s \in SUBSET u |-> k[s]]
      OBVIOUS
    <2> HIDE DEF k
    <2>8. Solves(k, u)
      BY <2>6, <2>7 DEF Solves
    <2>9. QED
      BY <2>2, <2>8
  <1>2. Cardinality(S) \in Nat
    BY FS_CardinalityType
  <1>3. QED
    BY <1>1, <1>2

(* The sum of no rows, and of some.                                        *)
LEMMA SumStep ==
  ASSUME NEW S, IsFiniteSet(S)
  PROVE  /\ S = {} => Sum(S) = 0
         /\ S # {} => Sum(S) = First(S).delta + Sum(S \ {First(S)})
  <1> DEFINE g == CHOOSE f : Solves(f, S)
             T == S \ {First(S)}
             h == CHOOSE f : Solves(f, T)
  <1>1. IsFiniteSet(T)
    BY FS_Subset
  <1>2. Solves(g, S) /\ Solves(h, T)
    BY <1>1, SolutionExists
  <1>3. Sum(S) = g[S] /\ Sum(T) = h[T]
    BY DEF Sum
  <1> HIDE DEF g, h
  <1>4. g[T] = h[T]
    BY <1>1, <1>2, SolutionsAgree
  <1>5. QED
    BY <1>2, <1>3, <1>4, Unfold

Counted(S) == IsFiniteSet(S) /\ \A e \in S : e.delta \in Int

LEMMA SumTyped ==
  ASSUME NEW S, Counted(S)
  PROVE  Sum(S) \in Int
  <1> DEFINE Bad == {n \in Nat : \E u \in SUBSET S : Cardinality(u) = n /\ Sum(u) \notin Int}
  <1>1. Bad = {}
    <2> SUFFICES ASSUME Bad # {} PROVE FALSE
      OBVIOUS
    <2>1. PICK n \in Bad : \A m \in Bad : ~(m < n)
      BY Least
    <2>2. PICK u \in SUBSET S : Cardinality(u) = n /\ Sum(u) \notin Int
      OBVIOUS
    <2>3. IsFiniteSet(u)
      BY FS_Subset DEF Counted
    <2>4. u # {}
      BY <2>2, <2>3, SumStep
    <2> DEFINE v == u \ {First(u)}
    <2>5. First(u) \in u /\ v \in SUBSET S /\ v # u /\ v \subseteq u
      BY <2>4, FirstIn
    <2>6. Cardinality(v) \in Nat /\ Cardinality(v) < n
      BY <2>2, <2>3, <2>5, SmallerSet
    <2>7. Sum(v) \in Int
      BY <2>1, <2>5, <2>6
    <2>8. Sum(u) = First(u).delta + Sum(v)
      BY <2>3, <2>4, SumStep
    <2>9. First(u).delta \in Int
      BY <2>5 DEF Counted
    <2>10. QED
      BY <2>2, <2>7, <2>8, <2>9
  <1>2. Cardinality(S) \in Nat
    BY FS_CardinalityType DEF Counted
  <1>3. QED
    BY <1>1, <1>2

(* Any row of a set may be the one that is taken first.                    *)
LEMMA SumWithout ==
  ASSUME NEW S, Counted(S), NEW e \in S
  PROVE  Sum(S) = e.delta + Sum(S \ {e})
  <1> DEFINE Bad == {n \in Nat : \E u \in SUBSET S : Cardinality(u) = n
                                   /\ \E x \in u : Sum(u) # x.delta + Sum(u \ {x})}
  <1>1. Bad = {}
    <2> SUFFICES ASSUME Bad # {} PROVE FALSE
      OBVIOUS
    <2>1. PICK n \in Bad : \A m \in Bad : ~(m < n)
      BY Least
    <2>2. PICK u \in SUBSET S : Cardinality(u) = n /\ \E x \in u : Sum(u) # x.delta + Sum(u \ {x})
      OBVIOUS
    <2>3. PICK x \in u : Sum(u) # x.delta + Sum(u \ {x})
      BY <2>2
    <2> DEFINE y == First(u)
               v == u \ {y}
               w == u \ {x}
               z == v \ {x}
    <2>4. IsFiniteSet(u) /\ \A t \in SUBSET u : Counted(t)
      BY FS_Subset DEF Counted
    <2>5. y \in u /\ x.delta \in Int /\ y.delta \in Int
      BY FirstIn DEF Counted
    <2>6. Sum(u) = y.delta + Sum(v)
      BY <2>4, SumStep
    <2>7. x # y
      BY <2>3, <2>6
    <2>8. \A t : t \subseteq u /\ t # u => \A q \in t : Sum(t) = q.delta + Sum(t \ {q})
      <3> SUFFICES ASSUME NEW t, t \subseteq u, t # u, NEW q \in t
                   PROVE  Sum(t) = q.delta + Sum(t \ {q})
        OBVIOUS
      <3>1. Cardinality(t) \in Nat /\ Cardinality(t) < n /\ t \in SUBSET S
        BY <2>2, <2>4, SmallerSet
      <3>2. QED
        BY <2>1, <3>1
    <2>9. v \subseteq u /\ v # u /\ w \subseteq u /\ w # u /\ x \in v /\ y \in w /\ z = w \ {y}
      BY <2>5, <2>7
    <2>10. Sum(v) = x.delta + Sum(z) /\ Sum(w) = y.delta + Sum(z)
      BY <2>8, <2>9
    <2>11. Sum(z) \in Int
      BY <2>4, SumTyped
    <2> HIDE DEF y, v, w, z
    <2>12. Sum(u) = x.delta + Sum(w)
      BY <2>5, <2>6, <2>10, <2>11
    <2>13. QED
      BY <2>3, <2>12 DEF w
  <1>2. Cardinality(S) \in Nat /\ S \in SUBSET S
    BY FS_CardinalityType DEF Counted
  <1>3. QED
    BY <1>1, <1>2

(* A new row adds its minutes.                                             *)
LEMMA MinutesAdd ==
  ASSUME NEW S, Counted(S), NEW e, e \notin S, e.delta \in Int
  PROVE  /\ Book!Minutes({}) = 0
         /\ Book!Minutes(S) \in Int
         /\ Book!Minutes(S \cup {e}) = Book!Minutes(S) + e.delta
  <1> DEFINE T == S \cup {e}
  <1>1. Counted(T) /\ e \in T /\ T \ {e} = S
    BY FS_AddElement DEF Counted
  <1>2. Sum(T) = e.delta + Sum(S)
    <2>1. Sum(T) = e.delta + Sum(T \ {e})
      BY <1>1, SumWithout
    <2>2. QED
      BY <1>1, <2>1
  <1>3. Sum(S) \in Int /\ Sum({}) = 0
    BY SumTyped, SumStep, FS_EmptySet
  <1>4. Book!Minutes(T) = Sum(T) /\ Book!Minutes(S) = Sum(S) /\ Book!Minutes({}) = Sum({})
    BY MinutesIsSum
  <1> HIDE DEF T
  <1>5. QED
    BY <1>2, <1>3, <1>4 DEF T

-----------------------------------------------------------------------------
(* The ledger implements the book.  What a step of the book asks for is    *)
(* known to a request before its commit, and kept by the task's row.       *)

SumsTrue ==
    /\ \A t \in Tasks : taskSum[t] = Book!Minutes(Book!OfTask(t))
    /\ \A u \in Users, d \in Days : daySum[<<u, d>>] = Book!Minutes(Book!OfDay(u, d))

IdsCounted == \A e \in entries : e.id <= Cardinality(entries)

(* Only a completed task has a completion date. *)
EndOfCompleted == \A t \in Tasks : status[t] \notin {"done", "closed"} => endDay[t] = 0

(* The row to be inserted is a work entry, or corrects one of its owner. *)
RowChecked(r) ==
    /\ pc[r] \in {"append_day", "append_sums", "append_commit"} => SameOwner(cmd[r])
    /\ pc[r] = "append_commit" =>
         cmd[r].delta \in -DayLimit..DayLimit /\ ValidDelta(cmd[r], cmd[r].delta)

(* The move to be committed is still one of the task's status. *)
MoveChecked(r) ==
    pc[r] = "move_commit" =>
        /\ cmd[r].target \in Transitions[status[cmd[r].task]]
        /\ cmd[r].end \in Book!CompletionDay(cmd[r].task, cmd[r].target)

BookInv ==
    /\ SumsTrue /\ IdsCounted /\ EndOfCompleted
    /\ \A r \in Requests : RowChecked(r) /\ MoveChecked(r)

(* A step that changes no table keeps BookInv if it does so for the        *)
(* request that moves.                                                     *)
LEMMA BookQuiet ==
  ASSUME BookInv, NEW r \in Requests,
         UNCHANGED <<today, status, endDay, entries, taskSum, daySum>>,
         \A q \in Requests \ {r} : pc'[q] = pc[q] /\ cmd'[q] = cmd[q],
         RowChecked(r)', MoveChecked(r)'
  PROVE  BookInv' /\ UNCHANGED Book!vars
  <1>1. SumsTrue' /\ IdsCounted' /\ EndOfCompleted'
    BY DEF BookInv, SumsTrue, IdsCounted, EndOfCompleted, Book!OfTask, Book!OfDay
  <1>2. ASSUME NEW q \in Requests, q # r PROVE RowChecked(q)' /\ MoveChecked(q)'
    <2>1. pc'[q] = pc[q] /\ cmd'[q] = cmd[q] /\ RowChecked(q) /\ MoveChecked(q)
      BY <1>2 DEF BookInv
    <2>2. RowChecked(q)'
      BY <2>1 DEF RowChecked, SameOwner, ValidDelta
    <2>3. MoveChecked(q)'
      BY <2>1 DEF MoveChecked, Book!CompletionDay
    <2>4. QED
      BY <2>2, <2>3
  <1>3. UNCHANGED Book!vars
    BY DEF Book!vars
  <1>4. QED
    BY <1>1, <1>2, <1>3 DEF BookInv

LEMMA EndedBook ==
  ASSUME Inv, BookInv, NEW r \in Requests, EndTransaction(r),
         UNCHANGED <<today, status, endDay, entries, taskSum, daySum>>
  PROVE  BookInv' /\ UNCHANGED Book!vars
  <1>1. pc'[r] = "idle" /\ \A q \in Requests \ {r} : pc'[q] = pc[q] /\ cmd'[q] = cmd[q]
    BY EndTransactionType DEF Inv
  <1>2. RowChecked(r)' /\ MoveChecked(r)'
    BY <1>1 DEF RowChecked, MoveChecked
  <1>3. QED
    BY <1>1, <1>2, BookQuiet

LEMMA SubmitBook ==
  ASSUME Inv, BookInv, NEW r \in Requests, NEW t \in Tasks,
         SubmitWorklog(r, t) \/ SubmitTransition(r, t)
  PROVE  BookInv' /\ UNCHANGED Book!vars
  <1>1. pc \in [Requests -> Places] /\ cmd \in [Requests -> Command]
    BY DEF Inv, TypeOK
  <1>2. /\ \E p \in {"append_task", "move_task"} : pc' = [pc EXCEPT ![r] = p]
        /\ cmd' = [cmd EXCEPT ![r] = Blank(t)]
        /\ UNCHANGED <<today, status, endDay, entries, taskSum, daySum>>
    BY DEF SubmitWorklog, SubmitTransition
  <1>3. /\ pc'[r] \in {"append_task", "move_task"}
        /\ \A q \in Requests \ {r} : pc'[q] = pc[q] /\ cmd'[q] = cmd[q]
    BY <1>1, <1>2
  <1>4. RowChecked(r)' /\ MoveChecked(r)'
    BY <1>3 DEF RowChecked, MoveChecked
  <1>5. QED
    BY <1>2, <1>3, <1>4, BookQuiet

LEMMA LockTaskBook ==
  ASSUME Inv, BookInv, NEW r \in Requests, LockTask(r)
  PROVE  BookInv' /\ UNCHANGED Book!vars
  <1>1. pc \in [Requests -> Places] /\ cmd \in [Requests -> Command]
    BY DEF Inv, TypeOK
  <1>2. UNCHANGED <<today, status, endDay, entries, taskSum, daySum>>
    BY DEF LockTask
  <1>3. PICK actor \in Users, user \in Users, date \in Days, corrects \in 0..MaxEntries :
          LET c == [cmd[r] EXCEPT !.user = user, !.date = date, !.corrects = corrects]
          IN  \/ /\ Accepts(actor, c)
                 /\ taskLock' = [taskLock EXCEPT ![c.task] = r]
                 /\ pc' = [pc EXCEPT ![r] = "append_day"]
                 /\ cmd' = [cmd EXCEPT ![r] = c]
                 /\ UNCHANGED dayLock
              \/ ~Accepts(actor, c) /\ EndTransaction(r)
    BY DEF LockTask
  <1> DEFINE c == [cmd[r] EXCEPT !.user = user, !.date = date, !.corrects = corrects]
  <1>4. CASE EndTransaction(r)
    BY <1>2, <1>4, EndedBook
  <1>5. CASE /\ Accepts(actor, c)
             /\ pc' = [pc EXCEPT ![r] = "append_day"]
             /\ cmd' = [cmd EXCEPT ![r] = c]
    <2> HIDE DEF c
    <2>1. SameOwner(c)
      BY <1>5 DEF Accepts
    <2>2. /\ pc'[r] = "append_day" /\ cmd'[r] = c
          /\ \A q \in Requests \ {r} : pc'[q] = pc[q] /\ cmd'[q] = cmd[q]
      BY <1>1, <1>5
    <2>3. RowChecked(r)' /\ MoveChecked(r)'
      BY <1>2, <2>1, <2>2 DEF RowChecked, MoveChecked, SameOwner
    <2>4. QED
      BY <1>2, <2>2, <2>3, BookQuiet
  <1>6. QED
    BY <1>3, <1>4, <1>5

LEMMA LockDayBook ==
  ASSUME Inv, BookInv, NEW r \in Requests, LockDay(r)
  PROVE  BookInv' /\ UNCHANGED Book!vars
  <1>1. pc \in [Requests -> Places] /\ RowChecked(r)
    BY DEF Inv, TypeOK, BookInv
  <1>2. /\ pc[r] = "append_day" /\ pc' = [pc EXCEPT ![r] = "append_sums"]
        /\ UNCHANGED <<today, status, endDay, entries, taskSum, daySum, cmd>>
    BY DEF LockDay
  <1>3. /\ pc'[r] = "append_sums"
        /\ \A q \in Requests \ {r} : pc'[q] = pc[q] /\ cmd'[q] = cmd[q]
    BY <1>1, <1>2
  <1>4. RowChecked(r)' /\ MoveChecked(r)'
    BY <1>1, <1>2, <1>3 DEF RowChecked, MoveChecked, SameOwner
  <1>5. QED
    BY <1>2, <1>3, <1>4, BookQuiet

LEMMA CheckSumsBook ==
  ASSUME Inv, BookInv, NEW r \in Requests, CheckSums(r)
  PROVE  BookInv' /\ UNCHANGED Book!vars
  <1>1. pc \in [Requests -> Places] /\ cmd \in [Requests -> Command] /\ RowChecked(r)
    BY DEF Inv, TypeOK, BookInv
  <1>2. pc[r] = "append_sums" /\ UNCHANGED <<today, status, endDay, entries, taskSum, daySum>>
    BY DEF CheckSums
  <1>3. CASE EndTransaction(r)
    BY <1>2, <1>3, EndedBook
  <1>4. CASE ~EndTransaction(r)
    <2>1. PICK delta \in -DayLimit..DayLimit :
             /\ ValidDelta(cmd[r], delta)
             /\ pc' = [pc EXCEPT ![r] = "append_commit"]
             /\ cmd' = [cmd EXCEPT ![r].delta = delta]
      BY <1>4 DEF CheckSums
    <2>2. /\ pc'[r] = "append_commit" /\ cmd'[r].delta = delta /\ cmd'[r].corrects = cmd[r].corrects
          /\ cmd'[r].task = cmd[r].task /\ cmd'[r].user = cmd[r].user
          /\ \A q \in Requests \ {r} : pc'[q] = pc[q] /\ cmd'[q] = cmd[q]
      BY <1>1, <2>1 DEF Command
    <2>3. RowChecked(r)' /\ MoveChecked(r)'
      BY <1>1, <1>2, <2>1, <2>2 DEF RowChecked, MoveChecked, SameOwner, ValidDelta
    <2>4. QED
      BY <1>2, <2>2, <2>3, BookQuiet
  <1>5. QED
    BY <1>3, <1>4

(* The completion date an allowed move gives is one of those of the book.  *)
LEMMA EndAfterLegal ==
  ASSUME Inv, BookInv, NEW t \in Tasks, NEW target \in Transitions[status[t]]
  PROVE  EndAfter(t, target) \in Book!CompletionDay(t, target)
  <1>1. status[t] \in TaskStatuses /\ today \in Days
    BY DEF Inv, TypeOK
  <1>2. target \in {"in_progress", "canceled", "done", "closed"}
    BY <1>1 DEF Transitions, TaskStatuses
  <1>3. target = "canceled" => endDay[t] = 0
    BY <1>1 DEF BookInv, EndOfCompleted, Transitions, TaskStatuses
  <1>4. today \in 1..today
    BY <1>1, BoundAssumption DEF Days
  <1>5. QED
    BY <1>2, <1>3, <1>4 DEF EndAfter, Book!CompletionDay

LEMMA LockTransitionBook ==
  ASSUME Inv, BookInv, NEW r \in Requests, LockTransition(r)
  PROVE  BookInv' /\ UNCHANGED Book!vars
  <1> DEFINE t == cmd[r].task
  <1>1. pc \in [Requests -> Places] /\ cmd \in [Requests -> Command] /\ t \in Tasks
    BY DEF Inv, TypeOK, Command
  <1>2. UNCHANGED <<today, status, endDay, entries, taskSum, daySum>>
    BY DEF LockTransition
  <1>3. CASE EndTransaction(r)
    BY <1>2, <1>3, EndedBook
  <1>4. CASE ~EndTransaction(r)
    <2>1. PICK target \in TaskStatuses :
             /\ target \in Transitions[status[t]]
             /\ pc' = [pc EXCEPT ![r] = "move_commit"]
             /\ cmd' = [cmd EXCEPT ![r].target = target, ![r].end = EndAfter(t, target)]
      BY <1>4 DEF LockTransition, AllowedTargets
    <2>2. /\ pc'[r] = "move_commit" /\ cmd'[r].target = target /\ cmd'[r].task = t
          /\ cmd'[r].end = EndAfter(t, target)
          /\ \A q \in Requests \ {r} : pc'[q] = pc[q] /\ cmd'[q] = cmd[q]
      BY <1>1, <2>1 DEF Command
    <2>3. EndAfter(t, target) \in Book!CompletionDay(t, target)
      BY <1>1, <2>1, EndAfterLegal
    <2>4. RowChecked(r)' /\ MoveChecked(r)'
      BY <1>2, <2>1, <2>2, <2>3 DEF RowChecked, MoveChecked, Book!CompletionDay
    <2>5. QED
      BY <1>2, <2>2, <2>4, BookQuiet
  <1>5. QED
    BY <1>3, <1>4

(* The row that becomes visible is legal against the rows and tasks of     *)
(* that moment.                                                            *)
LEMMA CommitWorklogBook ==
  ASSUME Inv, BookInv, NEW r \in Requests, CommitWorklog(r)
  PROVE  BookInv' /\ Book!Append
  <1> DEFINE c == cmd[r]
             t == c.task
             d == c.delta
             row == Row(c, Cardinality(entries) + 1)
  <1>1. /\ pc[r] = "append_commit" /\ entries' = entries \cup {row}
        /\ taskSum' = [taskSum EXCEPT ![t] = @ + d]
        /\ daySum' = [daySum EXCEPT ![<<c.user, c.date>>] = @ + d]
        /\ EndTransaction(r) /\ UNCHANGED <<today, status, endDay>>
    BY DEF CommitWorklog, Scope
  <1>2. /\ TypeOK /\ c \in Command /\ t \in Tasks /\ d \in Int
        /\ c.user \in Users /\ c.date \in Days
        /\ WithinLimits(c, d) /\ status[t] \notin {"closed", "canceled"} /\ DateOpen(c)
        /\ SameOwner(c) /\ d \in -DayLimit..DayLimit /\ ValidDelta(c, d)
    BY <1>1 DEF Inv, TypeOK, Command, Checked, SumsChecked, DateChecked, BookInv, RowChecked
  <1>3. /\ row.id = Cardinality(entries) + 1 /\ row.task = t /\ row.user = c.user
        /\ row.date = c.date /\ row.delta = d /\ row.corrects = c.corrects
    BY DEF Row
  <1>4. Cardinality(entries) \in Nat /\ IsFiniteSet(entries)
    BY <1>2, FS_CardinalityType DEF TypeOK
  <1>5. \A e \in entries : e.id \in Nat /\ e.delta \in Int /\ e.id # row.id
    BY <1>2, <1>3, <1>4 DEF TypeOK, BookInv, IdsCounted
  <1>6. row \notin entries
    BY <1>5
  <1> HIDE DEF row, c
  <1>7. /\ Counted(Book!OfTask(t)) /\ row \notin Book!OfTask(t)
        /\ \A u, y : Counted(Book!OfDay(u, y)) /\ row \notin Book!OfDay(u, y)
    BY <1>4, <1>5, <1>6, FS_Subset DEF Counted, Book!OfTask, Book!OfDay
  <1>8. /\ Book!Minutes(Book!OfTask(t)) = taskSum[t]
        /\ Book!Minutes(Book!OfDay(c.user, c.date)) = daySum[<<c.user, c.date>>]
    BY <1>2 DEF BookInv, SumsTrue
  <1>9. Book!Append
    <2>1. Book!LegalCorrection(row)
      BY <1>2, <1>3 DEF Book!LegalCorrection, SameOwner, ValidDelta
    <2>2. Book!Legal(row)
      BY <1>2, <1>3, <1>5, <1>8, <2>1 DEF Book!Legal, WithinLimits, ValidDelta, DateOpen
    <2>3. row \in entries'
      BY <1>1
    <2>4. QED
      BY <1>1, <1>6, <2>2, <2>3 DEF Book!Append
  <1>10. SumsTrue'
    <2>1. ASSUME NEW s \in Tasks PROVE taskSum'[s] = Book!Minutes(Book!OfTask(s)')
      <3>1. CASE s = t
        <4>1. Book!OfTask(s)' = Book!OfTask(s) \cup {row}
          BY <1>1, <1>3, <3>1 DEF Book!OfTask
        <4>2. Book!Minutes(Book!OfTask(t) \cup {row}) = Book!Minutes(Book!OfTask(t)) + d
          BY <1>2, <1>3, <1>7, MinutesAdd
        <4>3. taskSum'[t] = taskSum[t] + d
          BY <1>1, <1>2 DEF TypeOK
        <4>4. QED
          BY <1>8, <3>1, <4>1, <4>2, <4>3
      <3>2. CASE s # t
        <4>1. Book!OfTask(s)' = Book!OfTask(s)
          BY <1>1, <1>3, <3>2 DEF Book!OfTask
        <4>2. taskSum'[s] = taskSum[s]
          BY <1>1, <1>2, <3>2 DEF TypeOK
        <4>3. QED
          BY <4>1, <4>2 DEF BookInv, SumsTrue
      <3>3. QED
        BY <3>1, <3>2
    <2>2. ASSUME NEW u \in Users, NEW y \in Days
          PROVE  daySum'[<<u, y>>] = Book!Minutes(Book!OfDay(u, y)')
      <3>1. <<u, y>> \in Scopes /\ <<c.user, c.date>> \in Scopes
        BY <1>2 DEF Scopes
      <3>2. CASE u = c.user /\ y = c.date
        <4>1. Book!OfDay(u, y)' = Book!OfDay(u, y) \cup {row}
          BY <1>1, <1>3, <3>2 DEF Book!OfDay
        <4>2. Book!Minutes(Book!OfDay(u, y) \cup {row}) = Book!Minutes(Book!OfDay(u, y)) + d
          BY <1>2, <1>3, <1>7, MinutesAdd
        <4>3. daySum'[<<u, y>>] = daySum[<<u, y>>] + d
          BY <1>1, <1>2, <3>1, <3>2 DEF TypeOK
        <4>4. QED
          BY <1>8, <3>2, <4>1, <4>2, <4>3
      <3>3. CASE ~(u = c.user /\ y = c.date)
        <4>1. Book!OfDay(u, y)' = Book!OfDay(u, y)
          BY <1>1, <1>3, <3>3 DEF Book!OfDay
        <4>2. daySum'[<<u, y>>] = daySum[<<u, y>>]
          BY <1>1, <1>2, <3>1, <3>3 DEF TypeOK
        <4>3. QED
          BY <4>1, <4>2 DEF BookInv, SumsTrue
      <3>4. QED
        BY <3>2, <3>3
    <2>3. QED
      BY <2>1, <2>2 DEF SumsTrue
  <1>11. IdsCounted'
    <2>1. Cardinality(entries') = Cardinality(entries) + 1
      BY <1>1, <1>4, <1>6, FS_AddElement
    <2>2. QED
      BY <1>1, <1>3, <1>4, <1>5, <2>1 DEF BookInv, IdsCounted
  <1>12. EndOfCompleted'
    BY <1>1 DEF BookInv, EndOfCompleted
  <1>13. ASSUME NEW q \in Requests PROVE RowChecked(q)' /\ MoveChecked(q)'
    <2>1. CASE q = r
      <3>1. pc'[q] = "idle"
        BY <1>1, <1>2, <2>1, EndTransactionType
      <3>2. QED
        BY <3>1 DEF RowChecked, MoveChecked
    <2>2. CASE q # r
      <3>1. pc'[q] = pc[q] /\ cmd'[q] = cmd[q] /\ RowChecked(q) /\ MoveChecked(q)
        BY <1>1, <1>2, <2>2, EndTransactionType DEF BookInv
      <3>2. RowChecked(q)'
        BY <1>1, <3>1 DEF RowChecked, SameOwner, ValidDelta
      <3>3. MoveChecked(q)'
        BY <1>1, <3>1 DEF MoveChecked, Book!CompletionDay
      <3>4. QED
        BY <3>2, <3>3
    <2>3. QED
      BY <2>1, <2>2
  <1>14. QED
    BY <1>9, <1>10, <1>11, <1>12, <1>13 DEF BookInv

LEMMA CommitTransitionBook ==
  ASSUME Inv, BookInv, NEW r \in Requests, CommitTransition(r)
  PROVE  BookInv' /\ \E t \in Tasks, target \in TaskStatuses : Book!Move(t, target)
  <1> DEFINE t == cmd[r].task
             target == cmd[r].target
             end == cmd[r].end
  <1>1. /\ pc[r] = "move_commit" /\ EndTransaction(r)
        /\ status' = [status EXCEPT ![t] = target] /\ endDay' = [endDay EXCEPT ![t] = end]
        /\ UNCHANGED <<today, entries, taskSum, daySum>>
    BY DEF CommitTransition
  <1>2. /\ TypeOK /\ t \in Tasks /\ target \in TaskStatuses /\ taskLock[t] = r
        /\ target \in Transitions[status[t]] /\ end \in Book!CompletionDay(t, target)
    BY <1>1 DEF Inv, TypeOK, Command, Checked, HoldsTask, BookInv, MoveChecked
  <1>3. Book!Move(t, target)
    BY <1>1, <1>2 DEF Book!Move, Book!Transitions, Book!TaskStatuses, Transitions, TaskStatuses
  <1>4. SumsTrue' /\ IdsCounted'
    BY <1>1 DEF BookInv, SumsTrue, IdsCounted, Book!OfTask, Book!OfDay
  <1>5. EndOfCompleted'
    <2>1. target \notin {"done", "closed"} => end = 0
      BY <1>2 DEF Book!CompletionDay
    <2>2. QED
      BY <1>1, <1>2, <2>1 DEF BookInv, EndOfCompleted, TypeOK
  <1>6. ASSUME NEW q \in Requests PROVE RowChecked(q)' /\ MoveChecked(q)'
    <2>1. CASE q = r
      <3>1. pc'[q] = "idle"
        BY <1>1, <1>2, <2>1, EndTransactionType
      <3>2. QED
        BY <3>1 DEF RowChecked, MoveChecked
    <2>2. CASE q # r
      <3>1. pc'[q] = pc[q] /\ cmd'[q] = cmd[q] /\ RowChecked(q) /\ MoveChecked(q)
        BY <1>1, <1>2, <2>2, EndTransactionType DEF BookInv
      <3>2. RowChecked(q)'
        BY <1>1, <3>1 DEF RowChecked, SameOwner, ValidDelta
      <3>3. MoveChecked(q)'
        <4>1. SUFFICES ASSUME pc[q] = "move_commit"
                       PROVE  /\ cmd[q].target \in Transitions[status'[cmd[q].task]]
                              /\ cmd[q].end \in Book!CompletionDay(cmd[q].task, cmd[q].target)'
          BY <3>1 DEF MoveChecked, Book!CompletionDay
        <4>2. cmd[q].task \in Tasks /\ cmd[q].task # t
          BY <1>2, <2>2, <4>1 DEF Inv, TypeOK, Command, Checked, HoldsTask
        <4>3. status'[cmd[q].task] = status[cmd[q].task] /\ endDay'[cmd[q].task] = endDay[cmd[q].task]
          BY <1>1, <1>2, <4>2 DEF TypeOK
        <4>4. QED
          BY <1>1, <3>1, <4>1, <4>3 DEF MoveChecked, Book!CompletionDay
      <3>4. QED
        BY <3>2, <3>3
    <2>3. QED
      BY <2>1, <2>2
  <1>7. QED
    BY <1>2, <1>3, <1>4, <1>5, <1>6 DEF BookInv

LEMMA TickBook ==
  ASSUME Inv, BookInv, Tick
  PROVE  BookInv' /\ Book!Tick
  <1>1. /\ today' = today + 1
        /\ UNCHANGED <<status, endDay, entries, taskSum, daySum, taskLock, dayLock, pc, cmd>>
    BY DEF Tick
  <1>2. today \in Int
    BY BoundAssumption DEF Inv, TypeOK, Days
  <1>3. SumsTrue' /\ IdsCounted' /\ EndOfCompleted'
    BY <1>1 DEF BookInv, SumsTrue, IdsCounted, EndOfCompleted, Book!OfTask, Book!OfDay
  <1>4. ASSUME NEW q \in Requests PROVE RowChecked(q)' /\ MoveChecked(q)'
    <2>1. RowChecked(q) /\ MoveChecked(q)
      BY DEF BookInv
    <2>2. \A t, target : Book!CompletionDay(t, target) \subseteq Book!CompletionDay(t, target)'
      BY <1>1, <1>2 DEF Book!CompletionDay
    <2>3. RowChecked(q)'
      BY <1>1, <2>1 DEF RowChecked, SameOwner, ValidDelta
    <2>4. MoveChecked(q)'
      BY <1>1, <2>1, <2>2 DEF MoveChecked
    <2>5. QED
      BY <2>3, <2>4
  <1>5. QED
    BY <1>1, <1>3, <1>4 DEF BookInv, Book!Tick

LEMMA InitBook == Init => BookInv /\ Book!Init
  <1> SUFFICES ASSUME Init PROVE BookInv /\ Book!Init
    OBVIOUS
  <1>1. Book!Minutes({}) = 0
    BY MinutesIsSum, SumStep, FS_EmptySet
  <1>2. \A t, u, d : Book!OfTask(t) = {} /\ Book!OfDay(u, d) = {}
    BY DEF Init, Book!OfTask, Book!OfDay
  <1>3. SumsTrue
    BY <1>1, <1>2 DEF Init, SumsTrue, Scopes
  <1>4. IdsCounted /\ EndOfCompleted /\ \A r \in Requests : RowChecked(r) /\ MoveChecked(r)
    BY DEF Init, IdsCounted, EndOfCompleted, RowChecked, MoveChecked
  <1>5. Book!Init
    BY DEF Init, Book!Init
  <1>6. QED
    BY <1>3, <1>4, <1>5 DEF BookInv

LEMMA StepBook ==
  ASSUME Inv, BookInv, [Next]_vars
  PROVE  BookInv' /\ [Book!Next]_Book!vars
  <1>1. CASE Tick
    BY <1>1, TickBook DEF Book!Next
  <1>2. ASSUME NEW r \in Requests, NEW t \in Tasks, SubmitWorklog(r, t) \/ SubmitTransition(r, t)
        PROVE  BookInv' /\ UNCHANGED Book!vars
    BY <1>2, SubmitBook
  <1>3. ASSUME NEW r \in Requests, Acquire(r)
        PROVE  BookInv' /\ UNCHANGED Book!vars
    BY <1>3, LockTaskBook, LockDayBook, LockTransitionBook DEF Acquire
  <1>4. ASSUME NEW r \in Requests, Proceed(r)
        PROVE  BookInv' /\ [Book!Next]_Book!vars
    <2>1. CASE CheckSums(r)
      BY <2>1, CheckSumsBook
    <2>2. CASE CommitWorklog(r)
      BY <2>2, CommitWorklogBook DEF Book!Next
    <2>3. CASE CommitTransition(r)
      <3>1. BookInv' /\ \E t \in Tasks, target \in TaskStatuses : Book!Move(t, target)
        BY <2>3, CommitTransitionBook
      <3>2. QED
        BY <3>1 DEF Book!Next, Book!TaskStatuses, TaskStatuses
    <2>4. QED
      BY <1>4, <2>1, <2>2, <2>3 DEF Proceed
  <1>5. ASSUME NEW r \in Requests, Crash(r)
        PROVE  BookInv' /\ UNCHANGED Book!vars
    BY <1>5, EndedBook DEF Crash
  <1>6. CASE UNCHANGED vars
    <2>1. UNCHANGED <<today, status, endDay, entries, taskSum, daySum, pc, cmd>>
      BY <1>6 DEF vars
    <2>2. SumsTrue' /\ IdsCounted' /\ EndOfCompleted'
      BY <2>1 DEF BookInv, SumsTrue, IdsCounted, EndOfCompleted, Book!OfTask, Book!OfDay
    <2>3. \A r \in Requests : RowChecked(r)' /\ MoveChecked(r)'
      BY <2>1 DEF BookInv, RowChecked, MoveChecked, SameOwner, ValidDelta, Book!CompletionDay
    <2>4. QED
      BY <2>1, <2>2, <2>3 DEF BookInv, Book!vars
  <1>7. QED
    BY <1>1, <1>2, <1>3, <1>4, <1>5, <1>6 DEF Next

(* Every commit of the ledger is one legal step of the book: the row that  *)
(* _append_worklog inserts meets every rule against the rows and tasks of  *)
(* that moment, the sums it compared are those of the visible rows.        *)
THEOREM Implements == Spec => ImplementsBook
  <1> DEFINE Both == Inv /\ BookInv
  <1>1. Init => Both /\ Book!Init
    BY InitInv, InitBook
  <1>2. Both /\ [Next]_vars => Both'
    BY StepInv, StepBook
  <1>3. Both /\ [Next]_vars => [Book!Next]_Book!vars
    BY StepBook
  <1> HIDE DEF Both
  <1>4. QED
    BY <1>1, <1>2, <1>3, PTL DEF Spec, ImplementsBook, Book!Spec

=============================================================================
