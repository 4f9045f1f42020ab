----------------------------- MODULE WorklogBook -----------------------------
(***************************************************************************)
(* What the Worklog ledger promises, without requests, locks or kept sums: *)
(* rows are only ever added, one at a time, and each row is legal against  *)
(* the book and the tasks as they stand at the moment it is added.         *)
(***************************************************************************)
EXTENDS Integers, FiniteSetsExt, TaskWorkflow

CONSTANTS Tasks, DayLimit

VARIABLES today, status, endDay, entries

vars == <<today, status, endDay, entries>>

Minutes(rows) == MapThenSumSet(LAMBDA e : e.delta, rows)

OfTask(t) == {e \in entries : e.task = t}

OfDay(user, date) == {e \in entries : e.user = user /\ e.date = date}

Init ==
    /\ today = 1
    /\ status = [t \in Tasks |-> "todo"]
    /\ endDay = [t \in Tasks |-> 0]
    /\ entries = {}

LegalCorrection(row) ==
    IF row.corrects = 0
    THEN row.delta >= 1
    ELSE \E e \in entries : e.id = row.corrects /\ e.task = row.task /\ e.user = row.user

Legal(row) ==
    /\ row.delta # 0
    /\ row.delta \in -DayLimit..DayLimit
    /\ \A e \in entries : e.id # row.id
    /\ status[row.task] \notin {"closed", "canceled"}
    /\ row.date <= today
    /\ status[row.task] = "done" => row.date <= endDay[row.task]
    /\ LegalCorrection(row)
    /\ Minutes(OfTask(row.task)) + row.delta >= 0
    /\ Minutes(OfDay(row.user, row.date)) + row.delta <= DayLimit

Append ==
    /\ \E row \in entries' : row \notin entries /\ Legal(row) /\ entries' = entries \cup {row}
    /\ UNCHANGED <<today, status, endDay>>

(* The completion day is set when the task is done, kept when it is closed  *)
(* and absent otherwise.                                                   *)
CompletionDay(t, target) ==
    CASE target = "done"   -> 1..today
      [] target = "closed" -> {endDay[t]}
      [] OTHER             -> {0}

Move(t, target) ==
    /\ target \in Transitions[status[t]]
    /\ status' = [status EXCEPT ![t] = target]
    /\ \E day \in CompletionDay(t, target) : endDay' = [endDay EXCEPT ![t] = day]
    /\ UNCHANGED <<today, entries>>

Tick == today' = today + 1 /\ UNCHANGED <<status, endDay, entries>>

Next == Append \/ (\E t \in Tasks, target \in TaskStatuses : Move(t, target)) \/ Tick

Spec == Init /\ [][Next]_vars

=============================================================================
