---------------------- MODULE WorkflowInstancesProofs ----------------------
(***************************************************************************)
(* The safety of WorkflowInstances for any number of instances, keys and   *)
(* requests and for any template.  A request may save what it read long    *)
(* ago; what is true of a copy for good is that its state was reached by   *)
(* moves that are recorded, or are recorded with it, and that its version  *)
(* counts no more than those.  Histories and commands only grow.           *)
(***************************************************************************)
EXTENDS WorkflowInstances, Functions, FiniteSetTheorems, TLAPS

Saving(r) == req[r].pc \in {"save", "flush", "commit"}

OfInstance(r) == ~OfTemplate(r)

(* A request that is answered is done, and asked for something.            *)
Answered(r) ==
    /\ req[r].pc = "done" <=> req[r].answer # "none"
    /\ req[r].pc # "idle" => req[r].ask \in Ask
    /\ req[r].pc = "act" => OfInstance(r)

(* Nothing is selected before the save, and no move made before the act.   *)
Untouched(r) ==
    /\ req[r].pc \in {"idle", "check", "act", "save"} => req[r].base = None
    /\ req[r].pc \in {"idle", "check", "act"} => req[r].entry = None

(* What is saved has the columns of the row it is saved to.                *)
Fits(r) ==
    Saving(r) =>
        IF OfTemplate(r)
        THEN req[r].copy \in Template /\ (req[r].base # None => req[r].base \in Template /\ template # None)
        ELSE /\ req[r].on \in Instances /\ req[r].copy \in Row
             /\ req[r].base # None => req[r].base \in Row /\ row[req[r].on] # None

Reached(i) == {Initial} \cup {e.move.to : e \in history[i]}

(* A state and a version that the recorded moves of an instance account    *)
(* for, not counting the last more moves.                                  *)
Accounted(i, state, version, more) ==
    state \in Reached(i) /\ version <= Cardinality(history[i]) + more

(* What a transition has read of its instance was reached.                 *)
SeenReached(r) ==
    req[r].pc \notin {"idle", "done"} /\ req[r].ask.kind = "transition" =>
        /\ req[r].seen \in Row
        /\ req[r].on \in Instances /\ Accounted(req[r].on, req[r].seen.state, req[r].seen.version, 1)

(* What is saved is reached by the move recorded with it, if any.          *)
CopyReached(r) ==
    Saving(r) /\ OfInstance(r) =>
        LET i == req[r].on IN
        IF req[r].entry = None
        THEN Accounted(i, req[r].copy.state, req[r].copy.version, 1)
        ELSE /\ req[r].entry \in Entry /\ req[r].entry.by = r
             /\ Accounted(i, req[r].entry.move.from, req[r].copy.version, 2)
             /\ req[r].copy.state = req[r].entry.move.to

(* Nothing is recorded of a request before it commits.                     *)
Unrecorded(r) == req[r].pc # "done" => \A i \in Instances : \A e \in history[i] : e.by # r

(* An answer has its command.                                              *)
Commanded(r) ==
    req[r].answer \in {"ok", "replayed"} /\ OfInstance(r) =>
        \E c \in commands :
            /\ c.key = req[r].ask.key /\ c.ask = req[r].ask /\ c.on = req[r].on
            /\ req[r].answer = "ok" => c.by = r

Checked(r) ==
    /\ Answered(r)
    /\ Untouched(r)
    /\ Fits(r)
    /\ SeenReached(r)
    /\ CopyReached(r)
    /\ Unrecorded(r)
    /\ Commanded(r)

OneCommandPerKey == \A c, d \in commands : c.key = d.key => c = d

(* Histories are finite, and every move in them starts where one has led.  *)
HistoryReached ==
    \A i \in Instances : IsFiniteSet(history[i]) /\ \A e \in history[i] : e.move.from \in Reached(i)

Inv ==
    /\ TypeOK
    /\ HistoryReached
    /\ \A r \in Requests : Checked(r)
    /\ OneCommandPerKey
    /\ StatesAreReached

-----------------------------------------------------------------------------
(* UPDATE of the columns that differ: each is the one there was or the one *)
(* of the copy.                                                            *)
LEMMA MergedRow ==
  ASSUME NEW now \in Row, NEW base \in Row, NEW copy \in Row
  PROVE  LET m == Merged(now, base, copy)
         IN  m \in Row /\ m.state \in {now.state, copy.state} /\ m.version \in {now.version, copy.version}
  <1>1. base # None
    BY NoneAssumption
  <1> DEFINE m == [c \in DOMAIN copy |-> IF copy[c] # base[c] THEN copy[c] ELSE now[c]]
  <1>2. Merged(now, base, copy) = m
    BY <1>1 DEF Merged
  <1>3. m \in Row /\ m.state \in {now.state, copy.state} /\ m.version \in {now.version, copy.version}
    BY DEF Row
  <1>4. QED
    BY <1>2, <1>3

LEMMA MergedTemplate ==
  ASSUME NEW now \in Template, NEW base \in Template, NEW copy \in Template
  PROVE  Merged(now, base, copy) \in Template
  <1>1. base # None
    BY NoneAssumption
  <1> DEFINE m == [c \in DOMAIN copy |-> IF copy[c] # base[c] THEN copy[c] ELSE now[c]]
  <1>2. Merged(now, base, copy) = m
    BY <1>1 DEF Merged
  <1>3. m \in Template
    BY DEF Template
  <1>4. QED
    BY <1>2, <1>3

LEMMA StatusType ==
  ASSUME NEW state, NEW status \in {"active", "completed", "canceled"}
  PROVE  StatusIn(state, status) \in {"active", "completed", "canceled"}
  BY DEF StatusIn

LEMMA AskFacts ==
  ASSUME NEW ask \in Ask
  PROVE  /\ ask.kind \in TemplateKinds \/ ask.kind = "start" \/ ask.kind = "transition"
         /\ ask.kind \notin TemplateKinds => ask.key \in Keys
         /\ ask.kind = "transition" => ask.on \in Instances
         /\ "start" \notin TemplateKinds /\ "transition" \notin TemplateKinds
  BY DEF Ask, TemplateKinds

(* What was accounted for stays so while the history grows.                *)
LEMMA AccountedKept ==
  ASSUME NEW i \in Instances, NEW state, NEW version \in Nat, NEW more \in Nat,
         history[i] \subseteq history'[i], IsFiniteSet(history'[i]), Accounted(i, state, version, more)
  PROVE  Accounted(i, state, version, more)'
  <1>1. Cardinality(history[i]) <= Cardinality(history'[i])
        /\ IsFiniteSet(history[i])
    BY FS_Subset
  <1>2. Cardinality(history[i]) \in Nat /\ Cardinality(history'[i]) \in Nat
    BY <1>1, FS_CardinalityType
  <1>3. QED
    BY <1>1, <1>2 DEF Accounted, Reached

(* What a step of r leaves to the others: nothing that is there is taken   *)
(* away, and only r's move is recorded.                                    *)
Grows(r) ==
    /\ template # None => template' # None
    /\ \A i \in Instances : /\ row[i] # None => row'[i] # None
                            /\ history[i] \subseteq history'[i] /\ IsFiniteSet(history'[i])
                            /\ \A e \in history'[i] : e \in history[i] \/ e.by = r
    /\ commands \subseteq commands'
    /\ \A q \in Requests \ {r} : req'[q] = req[q]

LEMMA CheckedKept ==
  ASSUME TypeOK, NEW r \in Requests, Grows(r), NEW q \in Requests \ {r}, Checked(q)
  PROVE  Checked(q)'
  <1>1. req'[q] = req[q] /\ req[q] \in Request
    BY DEF Grows, TypeOK
  <1>2. Answered(q)'
    BY <1>1 DEF Checked, Answered, OfInstance, OfTemplate
  <1>3. Untouched(q)' /\ Fits(q)'
    BY <1>1 DEF Checked, Untouched, Fits, Saving, OfTemplate, Grows
  <1>4. SeenReached(q)'
    <2> SUFFICES ASSUME req[q].pc \notin {"idle", "done"}, req[q].ask.kind = "transition"
                 PROVE  /\ req[q].seen \in Row
                        /\ req[q].on \in Instances
                        /\ Accounted(req[q].on, req[q].seen.state, req[q].seen.version, 1)'
      BY <1>1 DEF SeenReached
    <2>1. /\ req[q].seen \in Row /\ req[q].on \in Instances
          /\ Accounted(req[q].on, req[q].seen.state, req[q].seen.version, 1)
      BY DEF Checked, SeenReached
    <2>2. PICK i \in Instances, s \in Row : i = req[q].on /\ s = req[q].seen
      BY <2>1
    <2>3. s.version \in Nat
      BY DEF Row
    <2>4. Accounted(i, s.state, s.version, 1)'
      BY <2>1, <2>2, <2>3, AccountedKept DEF Grows
    <2>5. QED
      BY <1>1, <2>1, <2>2, <2>4
  <1>5. CopyReached(q)'
    <2> SUFFICES ASSUME Saving(q), OfInstance(q)
                 PROVE  CopyReached(q)'
      BY <1>1 DEF CopyReached, Saving, OfInstance, OfTemplate
    <2>1. PICK i \in Instances, x \in Row : i = req[q].on /\ x = req[q].copy
      BY DEF Checked, Fits, OfInstance
    <2>2. x.version \in Nat
      BY DEF Row
    <2>3. CASE req[q].entry = None
      <3>1. Accounted(i, x.state, x.version, 1)
        BY <2>1, <2>3 DEF Checked, CopyReached
      <3>2. Accounted(i, x.state, x.version, 1)'
        BY <2>2, <3>1, AccountedKept DEF Grows
      <3>3. QED
        BY <1>1, <2>1, <2>3, <3>2 DEF CopyReached
    <2>4. CASE req[q].entry # None
      <3>1. PICK m : m = req[q].entry.move.from
        OBVIOUS
      <3>2. /\ req[q].entry \in Entry /\ req[q].entry.by = q /\ Accounted(i, m, x.version, 2)
            /\ x.state = req[q].entry.move.to
        BY <2>1, <2>4, <3>1 DEF Checked, CopyReached
      <3>3. Accounted(i, m, x.version, 2)'
        BY <2>2, <3>2, AccountedKept DEF Grows
      <3>4. QED
        BY <1>1, <2>1, <2>4, <3>1, <3>2, <3>3 DEF CopyReached
    <2>5. QED
      BY <2>3, <2>4
  <1>6. Unrecorded(q)'
    BY <1>1 DEF Checked, Unrecorded, Grows
  <1>7. Commanded(q)'
    <2>1. commands \subseteq commands'
      BY DEF Grows
    <2>2. QED
      BY <1>1, <2>1 DEF Checked, Commanded, OfInstance, OfTemplate
  <1>8. QED
    BY <1>2, <1>3, <1>4, <1>5, <1>6, <1>7 DEF Checked

(* A step of r that changes no table.                                      *)
LEMMA RequestStepInv ==
  ASSUME Inv, NEW r \in Requests, NEW x \in Request, req' = [req EXCEPT ![r] = x],
         UNCHANGED <<template, row, history, commands>>, Checked(r)'
  PROVE  Inv'
  <1>1. TypeOK'
    BY DEF Inv, TypeOK
  <1>2. Grows(r)
    BY DEF Inv, HistoryReached, TypeOK, Grows
  <1>3. \A q \in Requests : Checked(q)'
    BY <1>2, CheckedKept DEF Inv
  <1>4. HistoryReached' /\ OneCommandPerKey' /\ StatesAreReached'
    BY DEF Inv, HistoryReached, Reached, OneCommandPerKey, StatesAreReached
  <1>5. QED
    BY <1>1, <1>3, <1>4 DEF Inv

-----------------------------------------------------------------------------
LEMMA IdleType == Idle \in Request
  BY DEF Idle, Request

(* Every action of r before its commit leaves it with another record.      *)
LEMMA SubmitInv ==
  ASSUME Inv, NEW r \in Requests, Submit(r)
  PROVE  Inv'
  <1>1. TypeOK /\ Checked(r) /\ req[r].pc = "idle" /\ UNCHANGED <<template, row, history, commands>>
    BY DEF Inv, Submit
  <1>2. PICK ask \in Ask :
          \/ /\ ask.kind = "transition" /\ row[ask.on] # None
             /\ req' = [req EXCEPT ![r] = [Idle EXCEPT !.pc = "check", !.ask = ask, !.on = ask.on,
                                                       !.seen = row[ask.on]]]
          \/ /\ ask.kind # "transition"
             /\ req' = [req EXCEPT ![r] = [Idle EXCEPT !.pc = "check", !.ask = ask]]
    BY DEF Submit
  <1>3. CASE /\ ask.kind = "transition" /\ row[ask.on] # None
             /\ req' = [req EXCEPT ![r] = [Idle EXCEPT !.pc = "check", !.ask = ask, !.on = ask.on,
                                                       !.seen = row[ask.on]]]
    <2> DEFINE x == [Idle EXCEPT !.pc = "check", !.ask = ask, !.on = ask.on, !.seen = row[ask.on]]
    <2>1. PICK i \in Instances, s \in Row : i = ask.on /\ s = row[i]
      BY <1>1, <1>3, AskFacts DEF TypeOK
    <2>2. /\ x \in Request /\ x.pc = "check" /\ x.answer = "none" /\ x.ask = ask /\ x.on = i /\ x.seen = s
          /\ x.base = None /\ x.entry = None
      BY <2>1 DEF Idle, Request
    <2>3. req'[r] = x
      BY <1>1, <1>3 DEF TypeOK
    <2> HIDE DEF x
    <2>4. Accounted(i, s.state, s.version, 1)
      BY <2>1, NoneAssumption DEF Inv, StatesAreReached, Accounted, Reached
    <2>5. Accounted(i, s.state, s.version, 1)'
      BY <1>1, <2>4 DEF Accounted, Reached
    <2>6. Checked(r)'
      BY <1>1, <2>2, <2>3, <2>5 DEF Checked, Answered, Untouched, Fits, Saving, SeenReached, CopyReached, Unrecorded, Commanded
    <2>7. QED
      BY <1>1, <1>3, <2>2, <2>6, RequestStepInv DEF x
  <1>4. CASE /\ ask.kind # "transition"
             /\ req' = [req EXCEPT ![r] = [Idle EXCEPT !.pc = "check", !.ask = ask]]
    <2> DEFINE x == [Idle EXCEPT !.pc = "check", !.ask = ask]
    <2>1. /\ x \in Request /\ x.pc = "check" /\ x.answer = "none" /\ x.ask = ask
          /\ x.base = None /\ x.entry = None
      BY DEF Idle, Request
    <2>2. req'[r] = x
      BY <1>1, <1>4 DEF TypeOK
    <2> HIDE DEF x
    <2>3. Checked(r)'
      BY <1>1, <1>4, <2>1, <2>2 DEF Checked, Answered, Untouched, Fits, Saving, SeenReached, CopyReached, Unrecorded, Commanded
    <2>4. QED
      BY <1>1, <1>4, <2>1, <2>3, RequestStepInv DEF x
  <1>5. QED
    BY <1>2, <1>3, <1>4

(* A refusal, at any place.                                                *)
LEMMA RefusedInv ==
  ASSUME Inv, NEW r \in Requests, req[r].pc # "idle", Answer(r, "refused"),
         UNCHANGED <<template, row, history, commands>>
  PROVE  Inv'
  <1>1. TypeOK /\ Checked(r) /\ req[r] \in Request
    BY DEF Inv, TypeOK
  <1> DEFINE x == [req[r] EXCEPT !.pc = "done", !.answer = "refused"]
  <1>2. x \in Request /\ x.pc = "done" /\ x.answer = "refused" /\ x.ask = req[r].ask
    BY <1>1, ZenonT(30) DEF Request
  <1>3. req' = [req EXCEPT ![r] = x] /\ req'[r] = x
    BY <1>1 DEF Answer, TypeOK
  <1> HIDE DEF x
  <1>4. Checked(r)'
    BY <1>1, <1>2, <1>3 DEF Checked, Answered, Untouched, Fits, Saving, SeenReached, CopyReached, Unrecorded, Commanded
  <1>5. QED
    BY <1>2, <1>3, <1>4, RequestStepInv

LEMMA RefuseInv ==
  ASSUME Inv, NEW r \in Requests, Refuse(r)
  PROVE  Inv'
  BY RefusedInv DEF Refuse

LEMMA CheckInv ==
  ASSUME Inv, NEW r \in Requests, Check(r)
  PROVE  Inv'
  <1>1. /\ TypeOK /\ Checked(r) /\ req[r].pc = "check" /\ UNCHANGED <<template, row, history, commands>>
        /\ req[r] \in Request /\ ~OfTemplate(r)
    BY DEF Inv, Check, TypeOK
  <1>2. CASE req' = [req EXCEPT ![r].pc = "act"]
    <2> DEFINE x == [req[r] EXCEPT !.pc = "act"]
    <2>1. /\ x \in Request /\ x.pc = "act" /\ x.answer = req[r].answer /\ x.ask = req[r].ask
          /\ x.on = req[r].on /\ x.seen = req[r].seen /\ x.base = req[r].base /\ x.entry = req[r].entry
      BY <1>1 DEF Request
    <2>2. req'[r] = x /\ req' = [req EXCEPT ![r] = x]
      BY <1>1, <1>2 DEF TypeOK
    <2> HIDE DEF x
    <2>3. Checked(r)'
      BY <1>1, <2>1, <2>2 DEF Checked, Answered, Untouched, OfInstance, OfTemplate, Fits, Saving, SeenReached, Accounted, Reached,
         CopyReached, Unrecorded, Commanded
    <2>4. QED
      BY <2>1, <2>2, <2>3, <1>1, RequestStepInv
  <1>3. ASSUME NEW c \in commands, c.key = req[r].ask.key, c.ask = req[r].ask,
               req' = [req EXCEPT ![r] = [@ EXCEPT !.pc = "done", !.answer = "replayed", !.on = c.on]]
        PROVE  Inv'
    <2> DEFINE x == [req[r] EXCEPT !.pc = "done", !.answer = "replayed", !.on = c.on]
    <2>1. c.on \in Instances
      BY <1>1, <1>3 DEF TypeOK, Command
    <2>2. x \in Request /\ x.pc = "done" /\ x.answer = "replayed" /\ x.ask = req[r].ask /\ x.on = c.on
      BY <1>1, <2>1 DEF Request
    <2>3. req'[r] = x /\ req' = [req EXCEPT ![r] = x]
      BY <1>1, <1>3 DEF TypeOK
    <2> HIDE DEF x
    <2>4. Checked(r)'
      BY <1>1, <1>3, <2>2, <2>3 DEF Checked, Answered, Untouched, Fits, Saving, SeenReached, CopyReached, Unrecorded, Commanded
    <2>5. QED
      BY <2>2, <2>3, <2>4, <1>1, RequestStepInv
  <1>4. CASE Answer(r, "refused")
    BY <1>1, <1>4, RefusedInv
  <1>5. QED
    BY <1>2, <1>3, <1>4 DEF Check

(* The move starts where the instance was seen.                            *)
LEMMA TransitionInv ==
  ASSUME Inv, NEW r \in Requests, Transition(r)
  PROVE  Inv'
  <1>1. /\ TypeOK /\ Checked(r) /\ req[r].pc = "act" /\ UNCHANGED <<template, row, history, commands>>
        /\ req[r] \in Request /\ req[r].ask.kind = "transition"
    BY DEF Inv, Transition, TypeOK
  <1>2. PICK m \in Candidates(r) :
          req' = [req EXCEPT ![r] = [@ EXCEPT !.pc = "save", !.copy = Moved(req[r].seen, m),
                                              !.entry = [by |-> r, move |-> m]]]
    BY DEF Transition
  <1>3. PICK i \in Instances, s \in Row : i = req[r].on /\ s = req[r].seen
    BY <1>1 DEF Checked, SeenReached
  <1>4. PICK e, y : e = [by |-> r, move |-> m] /\ y = Moved(s, m)
    OBVIOUS
  <1>5. m \in Moves /\ m.from = s.state
    BY <1>2, <1>3 DEF Candidates
  <1>6. e \in Entry /\ e.by = r /\ e.move = m
    BY <1>4, <1>5 DEF Entry
  <1>7. y \in Row /\ y.state = m.to /\ y.version = s.version + 1 /\ s.version \in Nat
    BY <1>4, <1>5, StatusType DEF Moved, Row, States
  <1> DEFINE x == [req[r] EXCEPT !.pc = "save", !.copy = y, !.entry = e]
  <1>8. /\ x \in Request /\ x.pc = "save" /\ x.answer = req[r].answer /\ x.ask = req[r].ask
        /\ x.on = req[r].on /\ x.seen = req[r].seen /\ x.copy = y /\ x.entry = e /\ x.base = req[r].base
    BY <1>1, <1>6, <1>7, ZenonT(30) DEF Request
  <1>9. req'[r] = x /\ req' = [req EXCEPT ![r] = x]
    BY <1>1, <1>2, <1>3, <1>4 DEF TypeOK
  <1> HIDE DEF x
  <1>10. Accounted(i, s.state, s.version, 1)
    BY <1>1, <1>3 DEF Checked, SeenReached
  <1>11. Accounted(i, s.state, s.version, 1)' /\ Accounted(i, s.state, y.version, 2)'
    <2>1. Cardinality(history[i]) \in Nat
      BY FS_CardinalityType DEF Inv, HistoryReached
    <2>2. QED
      BY <1>1, <1>7, <1>10, <2>1 DEF Accounted, Reached
  <1>12. Checked(r)'
    <2>1. Answered(r)' /\ Unrecorded(r)' /\ Commanded(r)'
      BY <1>1, <1>8, <1>9 DEF Checked, Answered, OfInstance, OfTemplate, Unrecorded, Commanded
    <2>2. ~OfTemplate(r)' /\ req[r].base = None
      BY <1>1, <1>8, <1>9 DEF Checked, Untouched, OfTemplate, TemplateKinds
    <2>3. Untouched(r)' /\ Fits(r)'
      BY <1>3, <1>7, <1>8, <1>9, <2>2 DEF Untouched, Fits
    <2>4. SeenReached(r)'
      BY <1>3, <1>8, <1>9, <1>11 DEF SeenReached
    <2>5. CopyReached(r)'
      BY <1>3, <1>5, <1>6, <1>7, <1>8, <1>9, <1>11, NoneAssumption DEF CopyReached
    <2>6. QED
      BY <2>1, <2>3, <2>4, <2>5 DEF Checked
  <1>13. QED
    BY <1>1, <1>8, <1>9, <1>12, RequestStepInv

LEMMA StartInv ==
  ASSUME Inv, NEW r \in Requests, Start(r)
  PROVE  Inv'
  <1>1. /\ TypeOK /\ Checked(r) /\ req[r].pc = "act" /\ UNCHANGED <<template, row, history, commands>>
        /\ req[r] \in Request /\ req[r].ask.kind = "start"
    BY DEF Inv, Start, TypeOK
  <1> DEFINE y == [state |-> Initial, status |-> "active", version |-> 1]
  <1>2. PICK i \in Instances :
          req' = [req EXCEPT ![r] = [@ EXCEPT !.pc = "save", !.on = i, !.copy = y]]
    BY DEF Start
  <1>3. y \in Row /\ y.state = Initial /\ y.version = 1
    BY DEF Row, States
  <1> HIDE DEF y
  <1> DEFINE x == [req[r] EXCEPT !.pc = "save", !.on = i, !.copy = y]
  <1>4. /\ x \in Request /\ x.pc = "save" /\ x.answer = req[r].answer /\ x.ask = req[r].ask
        /\ x.on = i /\ x.copy = y /\ x.entry = req[r].entry /\ x.base = req[r].base
    BY <1>1, <1>3 DEF Request
  <1>5. req'[r] = x /\ req' = [req EXCEPT ![r] = x]
    BY <1>1, <1>2 DEF TypeOK
  <1> HIDE DEF x
  <1>6. req[r].base = None /\ req[r].entry = None
    BY <1>1 DEF Checked, Untouched
  <1>7. Checked(r)'
    <2>1. Answered(r)' /\ Unrecorded(r)' /\ Commanded(r)' /\ Untouched(r)' /\ SeenReached(r)'
      BY <1>1, <1>4, <1>5, <1>6 DEF Checked, Answered, OfInstance, OfTemplate, Unrecorded, Commanded, Untouched, SeenReached
    <2>2. ~OfTemplate(r)'
      BY <1>1, <1>4, <1>5 DEF OfTemplate, TemplateKinds
    <2>3. Fits(r)'
      BY <1>3, <1>4, <1>5, <1>6, <2>2 DEF Fits
    <2>4. 1 <= Cardinality(history[i]) + 1
      BY FS_CardinalityType DEF Inv, HistoryReached
    <2>5. Accounted(i, y.state, y.version, 1)'
      BY <1>1, <1>3, <2>4 DEF Accounted, Reached
    <2>6. CopyReached(r)'
      BY <1>4, <1>5, <1>6, <2>5 DEF CopyReached
    <2>7. QED
      BY <2>1, <2>3, <2>6 DEF Checked
  <1>8. QED
    BY <1>1, <1>4, <1>5, <1>7, RequestStepInv

LEMMA ChangeTemplateInv ==
  ASSUME Inv, NEW r \in Requests, ChangeTemplate(r)
  PROVE  Inv'
  <1>1. /\ TypeOK /\ Checked(r) /\ req[r].pc = "check" /\ UNCHANGED <<template, row, history, commands>>
        /\ req[r] \in Request /\ OfTemplate(r)
    BY DEF Inv, ChangeTemplate, TypeOK
  <1>2. PICK y : y = TemplateMove[req[r].ask.kind].to
    OBVIOUS
  <1>3. y \in Template
    BY <1>1, <1>2 DEF OfTemplate, TemplateKinds, TemplateMove, Template, Published
  <1> DEFINE x == [req[r] EXCEPT !.pc = "save", !.copy = y]
  <1>4. /\ x \in Request /\ x.pc = "save" /\ x.answer = req[r].answer /\ x.ask = req[r].ask
        /\ x.on = req[r].on /\ x.copy = y /\ x.entry = req[r].entry /\ x.base = req[r].base
    BY <1>1, <1>3 DEF Request
  <1>5. req'[r] = x /\ req' = [req EXCEPT ![r] = x]
    BY <1>1, <1>2 DEF ChangeTemplate, TypeOK
  <1> HIDE DEF x
  <1>6. OfTemplate(r)' /\ ~OfInstance(r)' /\ req[r].ask.kind # "transition"
    BY <1>1, <1>4, <1>5 DEF OfTemplate, OfInstance, TemplateKinds
  <1>7. Checked(r)'
    BY <1>1, <1>3, <1>4, <1>5, <1>6 DEF Checked, Answered, Untouched, Fits, SeenReached, CopyReached, Unrecorded, Commanded
  <1>8. QED
    BY <1>1, <1>4, <1>5, <1>7, RequestStepInv

LEMMA SaveInv ==
  ASSUME Inv, NEW r \in Requests, Save(r)
  PROVE  Inv'
  <1>1. /\ TypeOK /\ Checked(r) /\ req[r].pc = "save" /\ UNCHANGED <<template, row, history, commands>>
        /\ req[r] \in Request
    BY DEF Inv, Save, TypeOK
  <1>2. PICK b : b = Stored(r)
    OBVIOUS
  <1>3. Fits(r)
    BY <1>1 DEF Checked
  <1>4. IF OfTemplate(r) THEN b = template ELSE b = row[req[r].on] /\ req[r].on \in Instances
    BY <1>1, <1>2, <1>3 DEF Stored, Fits, Saving
  <1>5. b \in Row \cup Template \cup {None}
    BY <1>1, <1>4 DEF TypeOK
  <1> DEFINE x == [req[r] EXCEPT !.pc = "flush", !.base = b]
  <1>6. /\ x \in Request /\ x.pc = "flush" /\ x.answer = req[r].answer /\ x.ask = req[r].ask
        /\ x.on = req[r].on /\ x.copy = req[r].copy /\ x.entry = req[r].entry /\ x.base = b /\ x.seen = req[r].seen
    BY <1>1, <1>5, ZenonT(30) DEF Request
  <1>7. req'[r] = x /\ req' = [req EXCEPT ![r] = x]
    BY <1>1, <1>2 DEF Save, TypeOK
  <1> HIDE DEF x
  <1>8. OfTemplate(r)' = OfTemplate(r)
    BY <1>6, <1>7 DEF OfTemplate
  <1>9. Fits(r)'
    BY <1>1, <1>3, <1>4, <1>6, <1>7, <1>8 DEF Fits, Saving, TypeOK
  <1>10. Checked(r)'
    <2>1. CopyReached(r)'
      BY <1>1, <1>6, <1>7, <1>8 DEF Checked, CopyReached, Saving, OfInstance, Accounted, Reached
    <2>2. SeenReached(r)'
      BY <1>1, <1>6, <1>7 DEF Checked, SeenReached, Accounted, Reached
    <2>3. QED
      BY <1>1, <1>6, <1>7, <1>9, <2>1, <2>2 DEF Checked, Answered, Untouched, Unrecorded, Commanded
  <1>11. QED
    BY <1>1, <1>6, <1>7, <1>10, RequestStepInv

LEMMA FlushInv ==
  ASSUME Inv, NEW r \in Requests, Flush(r)
  PROVE  Inv'
  <1>1. /\ TypeOK /\ Checked(r) /\ req[r].pc = "flush" /\ UNCHANGED <<template, row, history, commands>>
        /\ req[r] \in Request
    BY DEF Inv, Flush, TypeOK
  <1> DEFINE x == [req[r] EXCEPT !.pc = "commit"]
  <1>2. /\ x \in Request /\ x.pc = "commit" /\ x.answer = req[r].answer /\ x.ask = req[r].ask
        /\ x.on = req[r].on /\ x.copy = req[r].copy /\ x.entry = req[r].entry /\ x.base = req[r].base
        /\ x.seen = req[r].seen
    BY <1>1 DEF Request
  <1>3. req'[r] = x /\ req' = [req EXCEPT ![r] = x]
    BY <1>1 DEF Flush, TypeOK
  <1> HIDE DEF x
  <1>4. OfTemplate(r)' = OfTemplate(r)
    BY <1>2, <1>3 DEF OfTemplate
  <1>5. Checked(r)'
    <2>1. CopyReached(r)' /\ Fits(r)'
      BY <1>1, <1>2, <1>3, <1>4 DEF Checked, CopyReached, Fits, Saving, OfInstance, Accounted, Reached
    <2>2. SeenReached(r)'
      BY <1>1, <1>2, <1>3 DEF Checked, SeenReached, Accounted, Reached
    <2>3. QED
      BY <1>1, <1>2, <1>3, <2>1, <2>2 DEF Checked, Answered, Untouched, Unrecorded, Commanded
  <1>6. QED
    BY <1>1, <1>2, <1>3, <1>5, RequestStepInv

LEMMA CommitTemplateInv ==
  ASSUME Inv, NEW r \in Requests, CommitTemplate(r)
  PROVE  Inv'
  <1>1. /\ TypeOK /\ Checked(r) /\ req[r].pc = "commit" /\ OfTemplate(r) /\ UNCHANGED <<row, history, commands>>
        /\ req[r] \in Request /\ Answer(r, "ok") /\ template' = Merged(template, req[r].base, req[r].copy)
    BY DEF Inv, CommitTemplate, TypeOK
  <1>2. template' \in Template
    <2>1. req[r].copy \in Template /\ (req[r].base # None => req[r].base \in Template /\ template \in Template)
      BY <1>1 DEF Checked, Fits, Saving, TypeOK
    <2>2. QED
      BY <1>1, <2>1, MergedTemplate DEF Merged
  <1> DEFINE x == [req[r] EXCEPT !.pc = "done", !.answer = "ok"]
  <1>3. x \in Request /\ x.pc = "done" /\ x.answer = "ok" /\ x.ask = req[r].ask
    BY <1>1 DEF Request
  <1>4. req' = [req EXCEPT ![r] = x] /\ req'[r] = x
    BY <1>1 DEF Answer, TypeOK
  <1> HIDE DEF x
  <1>5. TypeOK'
    BY <1>1, <1>2, <1>3, <1>4 DEF TypeOK
  <1>6. Grows(r)
    BY <1>1, <1>2, <1>4, NoneAssumption DEF Inv, HistoryReached, TypeOK, Grows
  <1>7. OfTemplate(r)'
    BY <1>1, <1>3, <1>4 DEF OfTemplate
  <1>8. Checked(r)'
    BY <1>1, <1>3, <1>4, <1>7 DEF Checked, Answered, Untouched, Fits, Saving, SeenReached, CopyReached, Unrecorded,
       Commanded, OfInstance
  <1>9. \A q \in Requests : Checked(q)'
    BY <1>1, <1>6, <1>8, CheckedKept DEF Inv
  <1>10. HistoryReached' /\ OneCommandPerKey' /\ StatesAreReached'
    BY <1>1 DEF Inv, HistoryReached, Reached, OneCommandPerKey, StatesAreReached
  <1>11. QED
    BY <1>5, <1>9, <1>10 DEF Inv

(* The row is what it was or what the copy is, column by column, and the   *)
(* move that leads to the copy is recorded in the same step.               *)
LEMMA CommitInstanceInv ==
  ASSUME Inv, NEW r \in Requests, CommitInstance(r)
  PROVE  Inv'
  <1>1. /\ TypeOK /\ Checked(r) /\ req[r].pc = "commit" /\ ~OfTemplate(r) /\ KeyFree(r) /\ UNCHANGED template
        /\ req[r] \in Request /\ Answer(r, "ok") /\ req[r].ask \in Ask
    BY DEF Inv, CommitInstance, TypeOK, Checked, Answered
  <1>2. PICK i \in Instances, x \in Row, b \in Row \cup {None}, e \in Entry \cup {None} :
          i = req[r].on /\ x = req[r].copy /\ b = req[r].base /\ e = req[r].entry
    BY <1>1 DEF Checked, Fits, Saving, Request
  <1> DEFINE c == [key |-> req[r].ask.key, ask |-> req[r].ask, on |-> i, by |-> r]
  <1>3. /\ row' = [row EXCEPT ![i] = Merged(row[i], b, x)]
        /\ history' = [history EXCEPT ![i] = history[i] \cup ({e} \ {None})]
        /\ commands' = commands \cup {c}
    BY <1>2 DEF CommitInstance
  <1>4. c \in Command /\ c.key = req[r].ask.key /\ c.ask = req[r].ask /\ c.on = i /\ c.by = r
    BY <1>1, AskFacts DEF Command, OfTemplate
  <1> HIDE DEF c
  <1>5. /\ b # None => b \in Row /\ row[i] \in Row
        /\ x.version \in Nat
        /\ e = None => Accounted(i, x.state, x.version, 1)
        /\ e # None => /\ e \in Entry /\ e.by = r /\ Accounted(i, e.move.from, x.version, 2)
                       /\ x.state = e.move.to
    BY <1>1, <1>2, NoneAssumption DEF TypeOK, Checked, Fits, Saving, CopyReached, OfInstance, Row
  <1>6. /\ history'[i] = history[i] \cup ({e} \ {None})
        /\ \A j \in Instances \ {i} : history'[j] = history[j] /\ row'[j] = row[j]
        /\ row'[i] = Merged(row[i], b, x)
    BY <1>1, <1>3 DEF TypeOK
  <1>7. /\ IsFiniteSet(history'[i]) /\ Cardinality(history'[i]) \in Nat
        /\ e # None => Cardinality(history'[i]) = Cardinality(history[i]) + 1
        /\ IsFiniteSet(history[i]) /\ Cardinality(history[i]) \in Nat
    <2>1. IsFiniteSet(history[i]) /\ Cardinality(history[i]) \in Nat
      BY FS_CardinalityType DEF Inv, HistoryReached
    <2>2. CASE e = None
      BY <1>6, <2>1, <2>2
    <2>3. CASE e # None
      <3>1. e \notin history[i]
        BY <1>1, <1>5, <2>3 DEF Checked, Unrecorded
      <3>2. history'[i] = history[i] \cup {e}
        BY <1>6, <2>3
      <3>3. /\ IsFiniteSet(history[i] \cup {e})
            /\ Cardinality(history[i] \cup {e}) = Cardinality(history[i]) + 1
        BY <2>1, <3>1, FS_AddElement
      <3>4. QED
        BY <2>1, <3>2, <3>3
    <2>4. QED
      BY <2>2, <2>3
  <1>8. row'[i] \in Row /\ (row'[i].state \in {x.state, row[i].state} /\ row'[i].version \in {x.version, row[i].version})
        /\ (row[i] = None => row'[i].state = x.state /\ row'[i].version = x.version)
    <2>1. CASE b = None
      BY <1>6, <2>1 DEF Merged
    <2>2. CASE b # None
      BY <1>5, <1>6, <2>2, MergedRow, NoneAssumption
    <2>3. QED
      BY <2>1, <2>2
  <1>9. Accounted(i, x.state, x.version, 1)'
    <2>1. CASE e = None
      BY <1>5, <1>6, <1>7, <2>1 DEF Accounted, Reached
    <2>2. CASE e # None
      <3>1. x.version <= Cardinality(history'[i]) + 1
        BY <1>5, <1>7, <2>2 DEF Accounted
      <3>2. x.state \in Reached(i)'
        BY <1>5, <1>6, <2>2 DEF Reached
      <3>3. QED
        BY <3>1, <3>2 DEF Accounted
    <2>3. QED
      BY <2>1, <2>2
  <1>10. PICK now : now = row[i]
    OBVIOUS
  <1>11. now # None => Accounted(i, now.state, now.version, 1)'
    <2> SUFFICES ASSUME now # None
                 PROVE  Accounted(i, now.state, now.version, 1)'
      OBVIOUS
    <2>1. now \in Row /\ now.version \in Nat
      BY <1>1, <1>10 DEF TypeOK, Row
    <2>2. Accounted(i, now.state, now.version, 1)
      BY <1>10 DEF Inv, StatesAreReached, Accounted, Reached
    <2>3. QED
      BY <1>6, <1>7, <2>1, <2>2, AccountedKept
  <1> DEFINE y == [req[r] EXCEPT !.pc = "done", !.answer = "ok"]
  <1>12. /\ y \in Request /\ y.pc = "done" /\ y.answer = "ok" /\ y.ask = req[r].ask /\ y.on = i
    BY <1>1, <1>2 DEF Request
  <1>13. req' = [req EXCEPT ![r] = y] /\ req'[r] = y
    BY <1>1 DEF Answer, TypeOK
  <1> HIDE DEF y
  <1>14. TypeOK'
    <2>1. row' \in [Instances -> Row \cup {None}]
      BY <1>1, <1>3, <1>6, <1>8 DEF TypeOK
    <2>2. history' \in [Instances -> SUBSET Entry]
      BY <1>1, <1>3, <1>5 DEF TypeOK
    <2>3. commands' \subseteq Command
      BY <1>1, <1>3, <1>4 DEF TypeOK
    <2>4. QED
      BY <1>1, <1>12, <1>13, <2>1, <2>2, <2>3 DEF TypeOK
  <1>15. Grows(r)
    <2>1. \A j \in Instances : row[j] # None => row'[j] # None
      BY <1>6, <1>8, NoneAssumption
    <2>2. \A j \in Instances : /\ history[j] \subseteq history'[j] /\ IsFiniteSet(history'[j])
                               /\ \A f \in history'[j] : f \in history[j] \/ f.by = r
      BY <1>5, <1>6, <1>7 DEF Inv, HistoryReached
    <2>3. commands \subseteq commands' /\ \A q \in Requests \ {r} : req'[q] = req[q]
      BY <1>1, <1>3, <1>13 DEF TypeOK
    <2>4. QED
      BY <1>1, <2>1, <2>2, <2>3 DEF Grows
  <1>16. Checked(r)'
    <2>1. Commanded(r)'
      BY <1>3, <1>4, <1>12, <1>13 DEF Commanded
    <2>2. QED
      BY <1>1, <1>12, <1>13, <2>1 DEF Checked, Answered, Untouched, Fits, Saving, SeenReached, CopyReached, Unrecorded
  <1>17. \A q \in Requests : Checked(q)'
    BY <1>1, <1>15, <1>16, CheckedKept DEF Inv
  <1>18. OneCommandPerKey'
    BY <1>1, <1>3, <1>4 DEF Inv, OneCommandPerKey, KeyFree
  <1>19. HistoryReached'
    <2>1. ASSUME NEW j \in Instances, NEW f \in history'[j] PROVE f.move.from \in Reached(j)'
      <3>1. f \in history[j] => f.move.from \in Reached(j)
        BY DEF Inv, HistoryReached
      <3>2. f \notin history[j] => j = i /\ f = e /\ e # None
        BY <1>6
      <3>3. Reached(j) \subseteq Reached(j)'
        BY <1>6 DEF Reached
      <3>4. QED
        BY <1>5, <3>1, <3>2, <3>3 DEF Accounted
    <2>2. QED
      BY <1>15, <2>1 DEF HistoryReached, Grows
  <1>20. StatesAreReached'
    <2> SUFFICES ASSUME NEW j \in Instances, row'[j] # None
                 PROVE  Accounted(j, row[j].state, row[j].version, 1)'
      BY <1>19 DEF HistoryReached, StatesAreReached, Accounted, Reached
    <2>1. CASE j # i
      <3>1. history'[j] = history[j] /\ row'[j] = row[j]
        BY <1>6, <2>1
      <3>2. QED
        BY <3>1 DEF Inv, StatesAreReached, Accounted, Reached
    <2>2. CASE j = i
      <3>1. Accounted(i, row[i].state, row[i].version, 1)'
        <4>1. row'[i].state \in Reached(i)'
          BY <1>8, <1>9, <1>10, <1>11 DEF Accounted
        <4>2. row'[i].version <= Cardinality(history'[i]) + 1
          BY <1>8, <1>9, <1>10, <1>11 DEF Accounted
        <4>3. QED
          BY <4>1, <4>2 DEF Accounted
      <3>2. QED
        BY <2>2, <3>1
    <2>3. QED
      BY <2>1, <2>2
  <1>21. QED
    BY <1>14, <1>17, <1>18, <1>19, <1>20 DEF Inv

-----------------------------------------------------------------------------
(* The entries for moves past are as many as the moves.                    *)
PastEntries(past) == {[by |-> None, move |-> m] : m \in past}

LEMMA PastFacts ==
  ASSUME NEW past \in Past
  PROVE  /\ EndedIn(past) \in States /\ Ends(past, EndedIn(past))
         /\ IsFiniteSet(past) /\ Cardinality(past) \in Nat
         /\ PastEntries(past) \subseteq Entry
         /\ IsFiniteSet(PastEntries(past)) /\ Cardinality(PastEntries(past)) = Cardinality(past)
  <1>1. EndedIn(past) \in States /\ Ends(past, EndedIn(past))
    BY PastAssumption DEF EndedIn
  <1>2. past \subseteq Moves /\ IsFiniteSet(past) /\ Cardinality(past) \in Nat
    BY PastAssumption, FS_CardinalityType
  <1>3. PastEntries(past) \subseteq Entry
    BY <1>2 DEF PastEntries, Entry
  <1> DEFINE f == [m \in past |-> [by |-> None, move |-> m]]
  <1>4. f \in Surjection(past, PastEntries(past)) /\ f \in Injection(past, PastEntries(past))
    BY DEF PastEntries, Surjection, Injection, IsInjective
  <1>5. IsFiniteSet(PastEntries(past)) /\ Cardinality(PastEntries(past)) = Cardinality(past)
    BY <1>2, <1>4, FS_Surjection
  <1>6. QED
    BY <1>1, <1>2, <1>3, <1>5

LEMMA InitInv == Init => Inv
  <1> SUFFICES ASSUME Init PROVE Inv
    OBVIOUS
  <1>1. PICK past \in [Instances -> Past \cup {None}] :
          /\ row = [i \in Instances |->
                       IF past[i] = None THEN None
                       ELSE [state |-> EndedIn(past[i]),
                             status |-> StatusIn(EndedIn(past[i]), "active"),
                             version |-> Cardinality(past[i]) + 1]]
          /\ history = [i \in Instances |->
                           {[by |-> None, move |-> m] : m \in IF past[i] = None THEN {} ELSE past[i]}]
    BY DEF Init
  <1>2. /\ commands = {} /\ req = [r \in Requests |-> Idle] /\ template \in Template \cup {None}
    BY DEF Init, Template, Published
  <1>3. ASSUME NEW i \in Instances
        PROVE  /\ row[i] \in Row \cup {None} /\ history[i] \subseteq Entry /\ IsFiniteSet(history[i])
               /\ \A e \in history[i] : e.by = None /\ e.move.from \in Reached(i)
               /\ row[i] # None => Accounted(i, row[i].state, row[i].version, 1)
    <2>1. CASE past[i] = None
      <3>1. row[i] = None /\ history[i] = {}
        BY <1>1, <2>1
      <3>2. QED
        BY <3>1, FS_EmptySet
    <2>2. CASE past[i] # None
      <3>1. past[i] \in Past
        BY <2>2
      <3>2. PICK p \in Past : p = past[i]
        BY <3>1
      <3>3. row[i] = [state |-> EndedIn(p), status |-> StatusIn(EndedIn(p), "active"), version |-> Cardinality(p) + 1]
        BY <1>1, <2>2, <3>2
      <3>4. history[i] = PastEntries(p)
        BY <1>1, <2>2, <3>2 DEF PastEntries
      <3>5. row[i] \in Row /\ row[i].state = EndedIn(p) /\ row[i].version = Cardinality(p) + 1
        BY <3>3, PastFacts, StatusType DEF Row
      <3>6. \A m \in p : [by |-> None, move |-> m] \in history[i] /\ m.to \in Reached(i)
        <4>1. \A m \in p : [by |-> None, move |-> m] \in history[i] /\ [by |-> None, move |-> m].move = m
          BY <3>4 DEF PastEntries
        <4>2. QED
          BY <4>1 DEF Reached
      <3>7. EndedIn(p) \in Reached(i)
        BY <3>6, PastFacts DEF Ends, Reached
      <3>8. \A e \in history[i] : e.by = None /\ e.move \in p
        BY <3>4 DEF PastEntries
      <3>9. \A e \in history[i] : e.move.from \in Reached(i)
        BY <3>6, <3>8, PastAssumption DEF Reached
      <3>10. QED
        BY <3>4, <3>5, <3>7, <3>8, <3>9, PastFacts DEF Accounted
    <2>3. QED
      BY <2>1, <2>2
  <1>4. TypeOK
    <2>1. row \in [Instances -> Row \cup {None}] /\ history \in [Instances -> SUBSET Entry]
      BY <1>1, <1>3
    <2>2. QED
      BY <1>2, <2>1, IdleType DEF TypeOK
  <1>5. ASSUME NEW r \in Requests PROVE Checked(r)
    <2>1. req[r] = Idle /\ Idle.pc = "idle" /\ Idle.answer = "none" /\ Idle.base = None /\ Idle.entry = None
      BY <1>2 DEF Idle
    <2>2. Unrecorded(r)
      BY <1>3, NoneAssumption DEF Unrecorded
    <2>3. QED
      BY <2>1, <2>2 DEF Checked, Answered, Untouched, Fits, Saving, SeenReached, CopyReached, Commanded
  <1>6. HistoryReached /\ OneCommandPerKey
    BY <1>2, <1>3 DEF HistoryReached, OneCommandPerKey
  <1>7. StatesAreReached
    BY <1>3 DEF StatesAreReached, Accounted, Reached
  <1>8. QED
    BY <1>4, <1>5, <1>6, <1>7 DEF Inv

LEMMA StepInv == Inv /\ [Next]_vars => Inv'
  <1> SUFFICES ASSUME Inv, [Next]_vars PROVE Inv'
    OBVIOUS
  <1>1. CASE Next
    <2>1. PICK r \in Requests :
             \/ Submit(r) \/ Check(r) \/ Transition(r) \/ Start(r) \/ ChangeTemplate(r)
             \/ Save(r) \/ Flush(r) \/ CommitInstance(r) \/ CommitTemplate(r) \/ Refuse(r)
      BY <1>1 DEF Next
    <2>2. QED
      BY <2>1, SubmitInv, CheckInv, TransitionInv, StartInv, ChangeTemplateInv, SaveInv, FlushInv,
         CommitInstanceInv, CommitTemplateInv, RefuseInv
  <1>2. CASE UNCHANGED vars
    <2>1. TypeOK' /\ HistoryReached' /\ OneCommandPerKey' /\ StatesAreReached'
      BY <1>2 DEF vars, Inv, TypeOK, HistoryReached, Reached, OneCommandPerKey, StatesAreReached, OfTemplate
    <2>2. \A q \in Requests : Checked(q)'
      BY <1>2 DEF vars, Inv, Checked, Answered, Untouched, Fits, Saving, OfInstance, OfTemplate, SeenReached,
         CopyReached, Accounted, Reached, Unrecorded, Commanded
    <2>3. QED
      BY <2>1, <2>2 DEF Inv
  <1>3. QED
    BY <1>1, <1>2

(* Two answers to one key go back to one command.                          *)
LEMMA KeyOnce == Inv => KeyTakesEffectOnce
  <1> SUFFICES ASSUME Inv, NEW q \in Requests, NEW r \in Requests,
                      req[q].answer \in {"ok", "replayed"}, req[r].answer \in {"ok", "replayed"},
                      ~OfTemplate(q), ~OfTemplate(r), req[q].ask.key = req[r].ask.key
               PROVE  /\ req[q].ask = req[r].ask /\ req[q].on = req[r].on
                      /\ q # r => "ok" \notin {req[q].answer} \cap {req[r].answer}
    BY DEF KeyTakesEffectOnce
  <1>1. Commanded(q) /\ Commanded(r)
    BY DEF Inv, Checked
  <1>2. PICK c \in commands : /\ c.key = req[q].ask.key /\ c.ask = req[q].ask /\ c.on = req[q].on
                              /\ req[q].answer = "ok" => c.by = q
    BY <1>1 DEF Commanded, OfInstance
  <1>3. PICK d \in commands : /\ d.key = req[r].ask.key /\ d.ask = req[r].ask /\ d.on = req[r].on
                              /\ req[r].answer = "ok" => d.by = r
    BY <1>1 DEF Commanded, OfInstance
  <1>4. c = d
    BY <1>2, <1>3 DEF Inv, OneCommandPerKey
  <1>5. QED
    BY <1>2, <1>3, <1>4

(* The inductive invariant: what a request saves was reached, whenever it  *)
(* was read (workflow-service, service.py and persistence.py).             *)
THEOREM Invariance == Spec => []Inv
  BY InitInv, StepInv, PTL DEF Spec

(* Rows, histories and commands keep their shape: what is merged from a    *)
(* copy and a later row is a row, with a status that is one.               *)
THEOREM TypeCorrect == Spec => []TypeOK
  <1>1. Inv => TypeOK
    BY DEF Inv
  <1>2. QED
    BY <1>1, Invariance, PTL

(* Requests that repeat a key are answered with one instance, and at most  *)
(* one of them has started or moved it (workflow_commands).                *)
THEOREM KeyTakesEffect == Spec => []KeyTakesEffectOnce
  BY KeyOnce, Invariance, PTL

(* No overtaking and no write-back leads an instance to a state or a       *)
(* version that its recorded moves do not account for.                     *)
THEOREM Reachability == Spec => []StatesAreReached
  <1>1. Inv => StatesAreReached
    BY DEF Inv
  <1>2. QED
    BY <1>1, Invariance, PTL

=============================================================================
