--------------------------- MODULE DefectsProofs ---------------------------
(***************************************************************************)
(* The safety of Defects for any number of defects and requests, and any   *)
(* legal histories before them.  A copy is put together from two reads,    *)
(* and what is written of it may join columns of two writers; what makes   *)
(* that harmless is that the tables behind the head only grow: what        *)
(* supported a status when the head was read is there when it is written,  *)
(* and rows that a commit appends to are the ones its copy starts with.    *)
(***************************************************************************)
EXTENDS Defects, SequenceTheorems, WellFoundedInduction, NaturalsInduction, TLAPS

Passed(checks) == \E n \in DOMAIN checks : checks[n].conclusion = "passed"

(* The head of y has its evidence in y or in the rows x.                   *)
Behind(x, y) ==
    /\ y.status \in {"fixed", "pending_verification", "closed"} =>
          y.fixes # <<>> \/ x.fixes # <<>>
    /\ y.status = "closed" => Passed(y.checks) \/ Passed(x.checks)
    /\ y.status = "duplicate" => y.master # None \/ x.master # None

Versioned(x) == x.status = "absent" <=> x.version = 0

Worked(r) == req[r].pc = "save"

(* What is asked for does not change, and names what it needs.             *)
Asked(r) ==
    /\ req[r].pc # "idle" =>
         /\ req[r].key \in Requests /\ req[r].ask \in Ask
         /\ (req[r].ask.action = "mark_duplicate") <=> (req[r].ask.master # None)
         /\ (req[r].ask.action = "create") <=> (req[r].ask.defect = None)
    /\ req[r].pc \in {"parts", "heads"} => req[r].on = req[r].ask.defect
    /\ Worked(r) \/ req[r].answer = "ok" => req[r].on \in Defects
    /\ req[r].pc # "done" => req[r].answer = "none"

(* A copy that was worked on can be written back.                          *)
CopyHolds(r) ==
    Worked(r) =>
        /\ \A d \in Defects : Versioned(image[r][d]) /\ Behind(db[d], image[r][d])
        /\ image[r][req[r].on].status # "absent"

(* Only a copy that was worked on is written back; of a defect that is not *)
(* there all columns are.                                                  *)
WritesFit(r) ==
    /\ req[r].pc # "save" => writes[r] = NoWrites
    /\ \A d \in Defects : writes[r][d] # None =>
         /\ image[r][d].status # "absent"
         /\ db[d].status = "absent" => {"status", "version"} \subseteq writes[r][d].head

(* What was compared with the rows when it was flushed still fits them.    *)
RowsHeld(r) == \A d \in Defects : Flushed(r, d) => AppendOnly(db[d], image[r][d])

Checked(r) == Asked(r) /\ CopyHolds(r) /\ WritesFit(r) /\ RowsHeld(r)

(* Nobody inserts rows behind a head that another has inserted rows behind.*)
OneWriter ==
    \A p, r \in Requests : \A d \in Defects :
        p # r /\ Flushed(p, d) /\ Flushed(r, d) => ~(Appends(p, d) /\ Appends(r, d))

Inv ==
    /\ TypeOK
    /\ \A r \in Requests : Checked(r)
    /\ OneWriter
    /\ AnsweredInHistory
    /\ EvidenceBehindStatus

-----------------------------------------------------------------------------
(* The rows behind a head *)

LEMMA StartTransitive ==
    ASSUME NEW S, NEW s \in Seq(S), NEW t \in Seq(S), NEW u \in Seq(S), IsStart(s, t), IsStart(t, u)
    PROVE  IsStart(s, u)
BY DEF IsStart

(* Rows that agree grow to a sequence that starts with both.               *)
LEMMA GrownStart ==
    ASSUME NEW S, NEW s \in Seq(S), NEW t \in Seq(S)
    PROVE  /\ Grown(s, t) \in Seq(S)
           /\ Agree(s, t) => IsStart(s, Grown(s, t)) /\ IsStart(t, Grown(s, t))
BY DEF Grown, Agree, IsStart

(* If only one of two copies has more than the rows, its rows do not       *)
(* disturb the other.                                                      *)
LEMMA AgreeKeeps ==
    ASSUME NEW S, NEW s \in Seq(S), NEW t \in Seq(S), NEW u \in Seq(S),
           Agree(s, t), Agree(s, u), ~(Len(t) > Len(s) /\ Len(u) > Len(s))
    PROVE  Agree(Grown(s, t), u)
<1>1. CASE Len(t) > Len(s)
    <2>1. \A n \in DOMAIN t \cap DOMAIN u : n \in DOMAIN s
        BY <1>1
    <2>2. QED
        BY <1>1, <2>1 DEF Agree, Grown
<1>2. CASE ~(Len(t) > Len(s))
    BY <1>2 DEF Grown
<1>3. QED
    BY <1>1, <1>2

LEMMA StartKeeps ==
    ASSUME NEW S, NEW s \in Seq(S), NEW t \in Seq(S), IsStart(s, t)
    PROVE  /\ s # <<>> => t # <<>>
           /\ Passed(s) => Passed(t)
           /\ Len(s) <= Len(t)
<1>1. DOMAIN s = 1..Len(s) /\ DOMAIN t = 1..Len(t) /\ Len(s) \in Nat /\ Len(t) \in Nat
    OBVIOUS
<1>2. ASSUME s # <<>> PROVE t # <<>>
    <2>1. Len(s) # 0
        BY <1>2, EmptySeq
    <2>2. Len(t) # 0
        BY <1>1, <2>1 DEF IsStart
    <2>3. QED
        BY <2>2, EmptySeq
<1>3. ASSUME Passed(s) PROVE Passed(t)
    BY <1>1, <1>3 DEF Passed, IsStart
<1>4. Len(s) <= Len(t)
    BY DEF IsStart
<1>5. QED
    BY <1>2, <1>3, <1>4

LEMMA RowsTyped ==
    ASSUME NEW x \in Defect
    PROVE  /\ x.status \in Statuses \cup {"absent"} /\ x.version \in Nat /\ x.fixVersion \in BOOLEAN
           /\ x.history \in Seq(Entry) /\ x.fixes \in Seq(Requests \cup {None})
           /\ x.checks \in Seq(Check) /\ x.master \in Defects \cup {None}
           /\ x.responded \in BOOLEAN /\ x.resolved \in BOOLEAN
BY DEF Defect

-----------------------------------------------------------------------------
(* Defects with a history *)

(* Every set of numbers has a least one; it stands for induction below: a  *)
(* statement that fails fails at a least number.                           *)
LEMMA Least ==
     ASSUME NEW T, T \subseteq Nat, T # {}
    PROVE  \E x \in T : \A y \in T : ~(y < x)
<1> DEFINE R == OpToRel(<, Nat)
<1>1. IsWellFoundedOn(R, Nat)
    BY NatLessThanWellFounded
<1>2. \A x, y \in Nat : y < x => <<y, x>> \in R
    BY DEF OpToRel
<1> HIDE DEF R
<1>3. PICK x \in T : \A y \in T : ~(<<y, x>> \in R)
    BY <1>1, WFMin
<1>4. QED
    BY <1>2, <1>3

(* The recursion of Replayed has a solution.                               *)
LEMMA ReplayExists ==
    ASSUME NEW h, NEW length \in Nat
    PROVE  \E x : x = [n \in 0..length |->
               IF n = 0 THEN Created
               ELSE Transitioned(x[n - 1], h[n], CHOOSE a \in Actors : TRUE, None, None)]
<1> DEFINE T(x, n) == Transitioned(x, h[n], CHOOSE a \in Actors : TRUE, None, None)
           Is(x, m) == x = [n \in 0..m |-> IF n = 0 THEN Created ELSE T(x[n - 1], n)]
           Bad == {m \in Nat : ~\E x : Is(x, m)}
<1> HIDE DEF T
<1>1. Bad = {}
    <2> SUFFICES ASSUME Bad # {} PROVE FALSE
        OBVIOUS
    <2>1. PICK m \in Bad : \A k \in Bad : ~(k < m)
        BY Least
    <2>2. m \in Nat
        OBVIOUS
    <2>3. CASE m = 0
        <3> DEFINE x == [n \in 0..0 |-> Created]
        <3>1. Is(x, 0)
            OBVIOUS
        <3>2. QED
            BY <2>3, <3>1
    <2>4. CASE m # 0
        <3>1. m - 1 \in Nat /\ m - 1 < m
            BY <2>2, <2>4
        <3>2. m - 1 \notin Bad
            BY <2>1, <3>1
        <3>3. PICK x : Is(x, m - 1)
            BY <3>1, <3>2
        <3> DEFINE y == [n \in 0..m |-> IF n = m THEN T(x[m - 1], m) ELSE x[n]]
        <3>4. \A n \in 0..m : n # m => n \in 0..(m - 1) /\ x[n] = IF n = 0 THEN Created ELSE T(x[n - 1], n)
            BY <2>2, <3>1, <3>3
        <3>5. \A n \in 0..m : n # 0 => n - 1 \in 0..m /\ n - 1 # m
            BY <2>2
        <3>6. \A n \in 0..m : y[n] = IF n = 0 THEN Created ELSE T(y[n - 1], n)
            BY <2>4, <3>4, <3>5
        <3>7. Is(y, m)
            <4> HIDE DEF y
            <4>1. y = [n \in 0..m |-> y[n]]
                BY DEF y
            <4>2. QED
                BY <3>6, <4>1
        <3>8. QED
            BY <3>7
    <2>5. QED
        BY <2>3, <2>4
<1>2. \E x : Is(x, length)
    BY <1>1
<1>3. QED
    BY <1>2 DEF T

(* What is replayed is the last of as many defects as there are actions.   *)
LEMMA ReplayedIs ==
    ASSUME NEW S, NEW h \in Seq(S)
    PROVE  \E x : /\ Replayed(h) = x[Len(h)]
                  /\ x[0] = Created
                  /\ \A n \in 1..Len(h) :
                        x[n] = Transitioned(x[n - 1], h[n], CHOOSE a \in Actors : TRUE, None, None)
<1> DEFINE T(x, n) == Transitioned(x, h[n], CHOOSE a \in Actors : TRUE, None, None)
           F == CHOOSE x : x = [n \in 0..Len(h) |->
                    IF n = 0 THEN Created
                    ELSE Transitioned(x[n - 1], h[n], CHOOSE a \in Actors : TRUE, None, None)]
<1>1. Replayed(h) = F[Len(h)]
    BY DEF Replayed
<1>2. Len(h) \in Nat
    OBVIOUS
<1>3. \E x : x = [n \in 0..Len(h) |->
                    IF n = 0 THEN Created
                    ELSE Transitioned(x[n - 1], h[n], CHOOSE a \in Actors : TRUE, None, None)]
    BY <1>2, ReplayExists, Zenon
<1>4. F = [n \in 0..Len(h) |-> IF n = 0 THEN Created ELSE T(F[n - 1], n)]
    BY <1>3, Zenon
<1> HIDE DEF F, T
<1>5. F[0] = Created
    BY <1>2, <1>4
<1>6. \A n \in 1..Len(h) : F[n] = T(F[n - 1], n)
    BY <1>2, <1>4
<1>7. QED
    BY <1>1, <1>5, <1>6, Zenon DEF T

-----------------------------------------------------------------------------
(* What the aggregate does *)

LEMMA EvidencedKeeps ==
    ASSUME NEW x \in Defect, NEW action \in DOMAIN Move, NEW key \in Requests \cup {None},
           NEW master \in Defects \cup {None}
    PROVE  LET y == Evidenced(x, action, key, master) IN
           /\ y \in Defect /\ y.status = x.status /\ y.version = x.version /\ y.history = x.history
           /\ x.fixVersion => y.fixVersion
           /\ x.fixes # <<>> => y.fixes # <<>>
           /\ Passed(x.checks) => Passed(y.checks)
           /\ action = "mark_fixed" => y.fixVersion /\ y.fixes # <<>>
           /\ action = "verify_close" => Passed(y.checks)
           /\ action = "mark_duplicate" => y.master = master
<1> DEFINE y == Evidenced(x, action, key, master)
<1>1. CASE action = "mark_fixed"
    <2> DEFINE fixes == Append(x.fixes, key)
    <2>1. fixes \in Seq(Requests \cup {None}) /\ fixes # <<>>
        BY RowsTyped, AppendProperties, SMTT(20)
    <2>2. y = [x EXCEPT !.fixVersion = TRUE, !.fixes = fixes]
        BY <1>1 DEF Evidenced
    <2> HIDE DEF fixes
    <2>3. QED
        BY <1>1, <2>1, <2>2 DEF Defect
<1>2. ASSUME NEW conclusion \in {"passed", "failed"}
      PROVE  LET z == Concluded(x, key, conclusion) IN
             /\ z \in Defect /\ z.status = x.status /\ z.version = x.version /\ z.history = x.history
             /\ z.fixVersion = x.fixVersion /\ z.fixes = x.fixes
             /\ Passed(x.checks) => Passed(z.checks)
             /\ conclusion = "passed" => Passed(z.checks)
    <2> DEFINE c == [key |-> key, conclusion |-> conclusion]
               checks == Append(x.checks, c)
    <2>1. c \in Check /\ x.checks \in Seq(Check)
        BY RowsTyped DEF Check
    <2>2. /\ checks \in Seq(Check) /\ Len(checks) = Len(x.checks) + 1 /\ checks[Len(checks)] = c
          /\ \A n \in 1..Len(x.checks) : checks[n] = x.checks[n]
        BY <2>1, AppendProperties
    <2>3. c.conclusion = conclusion
        OBVIOUS
    <2> HIDE DEF c, checks
    <2>4. Len(checks) \in DOMAIN checks /\ (\A n \in DOMAIN x.checks : n \in DOMAIN checks /\ checks[n] = x.checks[n])
        BY <2>1, <2>2
    <2>5. (Passed(x.checks) => Passed(checks)) /\ (conclusion = "passed" => Passed(checks))
        BY <2>2, <2>3, <2>4 DEF Passed
    <2>6. Concluded(x, key, conclusion) = [x EXCEPT !.checks = checks]
        BY DEF Concluded, checks, c
    <2>7. QED
        BY <2>2, <2>5, <2>6 DEF Defect
<1>3. CASE action = "verify_close"
    <2> DEFINE z == Concluded(x, key, "passed")
    <2>1. y = [z EXCEPT !.resolved = TRUE]
        BY <1>3 DEF Evidenced
    <2>2. /\ z \in Defect /\ z.status = x.status /\ z.version = x.version /\ z.history = x.history
          /\ z.fixVersion = x.fixVersion /\ z.fixes = x.fixes /\ Passed(z.checks)
        BY <1>2
    <2> HIDE DEF z
    <2>3. QED
        BY <1>3, <2>1, <2>2 DEF Defect
<1>4. CASE action = "verify_fail"
    <2>1. y = Concluded(x, key, "failed")
        BY <1>4 DEF Evidenced
    <2>2. QED
        BY <1>2, <1>4, <2>1
<1>5. CASE action = "start"
    <2>1. y = [x EXCEPT !.responded = TRUE]
        BY <1>5 DEF Evidenced
    <2>2. QED
        BY <1>5, <2>1 DEF Defect
<1>6. CASE action = "mark_duplicate"
    <2>1. y = [x EXCEPT !.master = master]
        BY <1>6 DEF Evidenced
    <2>2. QED
        BY <1>6, <2>1 DEF Defect
<1>7. CASE action \notin {"mark_fixed", "verify_close", "verify_fail", "start", "mark_duplicate"}
    <2>1. y = x
        BY <1>7 DEF Evidenced
    <2>2. QED
        BY <1>7, <2>1
<1>8. QED
    BY <1>1, <1>3, <1>4, <1>5, <1>6, <1>7

LEMMA RecordedKeeps ==
    ASSUME NEW x \in Defect, x.status \in Statuses, NEW action \in Actions, NEW actor \in Actors,
           NEW to \in Statuses
    PROVE  LET y == Recorded(x, action, actor, to) IN
           /\ y \in Defect /\ y.status = to /\ y.version = x.version + 1
           /\ y.fixVersion = x.fixVersion /\ y.fixes = x.fixes /\ y.checks = x.checks
           /\ y.master = x.master
<1> DEFINE e == [action |-> action, actor |-> actor, from |-> x.status, to |-> to]
           history == Append(x.history, e)
           n == x.version + 1
<1>1. e \in Entry
    BY DEF Entry
<1>2. history \in Seq(Entry)
    BY <1>1, RowsTyped, AppendProperties
<1>3. n \in Nat /\ n = x.version + 1
    BY RowsTyped
<1>4. Recorded(x, action, actor, to) = [x EXCEPT !.status = to, !.version = n, !.history = history]
    BY DEF Recorded
<1> HIDE DEF e, history, n
<1>5. QED
    BY <1>2, <1>3, <1>4 DEF Defect

(* A permitted action leaves the evidence for the status it leads to.      *)
LEMMA TransitionedBehind ==
    ASSUME NEW x \in Defect, NEW action \in DOMAIN Move, NEW actor \in Actors,
           NEW key \in Requests \cup {None}, NEW master \in Defects \cup {None},
           x.status \in Move[action].from,
           action = "mark_duplicate" => master # None,
           action = "submit_verification" => x.fixes # <<>>,
           NEW z, Behind(z, x)
    PROVE  LET y == Transitioned(x, action, actor, key, master) IN
           /\ y \in Defect /\ y.status = Move[action].to /\ y.version = x.version + 1
           /\ y.status # "absent"
           /\ Behind(z, y)
           /\ Behind(x, x) => Behind(y, y)
<1> DEFINE e == Evidenced(x, action, key, master)
           to == Move[action].to
           y == Recorded(e, action, actor, to)
<1>1. /\ e \in Defect /\ e.status = x.status /\ e.version = x.version
      /\ x.fixVersion => e.fixVersion
      /\ x.fixes # <<>> => e.fixes # <<>>
      /\ Passed(x.checks) => Passed(e.checks)
      /\ action = "mark_fixed" => e.fixVersion /\ e.fixes # <<>>
      /\ action = "verify_close" => Passed(e.checks)
      /\ action = "mark_duplicate" => e.master = master
    BY EvidencedKeeps
<1>2. x.status \in Statuses /\ to \in Statuses /\ action \in Actions
    BY DEF Move, Statuses, Actions
<1>3. /\ to = "fixed" => action = "mark_fixed"
      /\ to = "pending_verification" => action = "submit_verification"
      /\ to = "closed" => action = "verify_close" /\ x.status = "pending_verification"
      /\ to = "duplicate" => action = "mark_duplicate"
    BY DEF Move
<1> HIDE DEF e, to
<1>4. /\ y \in Defect /\ y.status = to /\ y.version = e.version + 1
      /\ y.fixVersion = e.fixVersion /\ y.fixes = e.fixes /\ y.checks = e.checks /\ y.master = e.master
    BY <1>1, <1>2, RecordedKeeps
<1>5. Transitioned(x, action, actor, key, master) = y
    BY DEF Transitioned, e, to
<1> HIDE DEF y
<1>6. Behind(z, y)
    BY <1>1, <1>3, <1>4 DEF Behind
<1>7. Behind(x, x) => Behind(y, y)
    BY <1>1, <1>3, <1>4 DEF Behind
<1>8. y.status # "absent"
    BY <1>2, <1>4 DEF Statuses
<1>9. QED
    BY <1>1, <1>4, <1>5, <1>6, <1>7, <1>8 DEF to

LEMMA AbsentTyped == Absent \in Defect
<1>1. <<>> \in Seq(Entry) /\ <<>> \in Seq(Requests \cup {None}) /\ <<>> \in Seq(Check)
    BY EmptySeq
<1>2. QED
    BY <1>1 DEF Absent, Defect

LEMMA CreatedBehind ==
    /\ Created \in Defect /\ Created.status = "new" /\ Created.version = 1
    /\ \A z : Behind(z, Created)
<1>1. /\ [Absent EXCEPT !.status = "new", !.version = 1] \in Defect
      /\ [Absent EXCEPT !.status = "new", !.version = 1].status = "new"
      /\ [Absent EXCEPT !.status = "new", !.version = 1].version = 1
    BY AbsentTyped DEF Defect, Statuses
<1>2. QED
    BY <1>1 DEF Created, Behind

(* One move of a history, made by the rules of transition_defect, is a     *)
(* legal step of a defect whose evidence was behind it.                    *)
LEMMA ReplayStep ==
    ASSUME NEW x \in Defect, NEW action \in DOMAIN Move \ {"mark_duplicate"}, NEW actor \in Actors,
           x.status \in Move[action].from, Behind(x, x)
    PROVE  LET y == Transitioned(x, action, actor, None, None) IN
           /\ y \in Defect /\ y.status = Move[action].to /\ y.version = x.version + 1
           /\ Behind(y, y)
<1>1. action = "submit_verification" => x.fixes # <<>>
    <2>1. action = "submit_verification" => x.status = "fixed"
        BY DEF Move
    <2>2. QED
        BY <2>1 DEF Behind
<1>2. action \in DOMAIN Move /\ action # "mark_duplicate"
    OBVIOUS
<1>3. \A key \in Requests \cup {None}, master \in Defects \cup {None} :
         LET y == Transitioned(x, action, actor, key, master) IN
           /\ y \in Defect /\ y.status = Move[action].to /\ y.version = x.version + 1
           /\ Behind(y, y)
    BY <1>1, <1>2, TransitionedBehind
<1>4. QED
    BY <1>3

(* A legal history leaves a defect with its evidence.                      *)
LEMMA ReplayedHolds ==
    ASSUME NEW h \in Histories
    PROVE  /\ Replayed(h) \in Defect /\ Versioned(Replayed(h)) /\ Behind(Replayed(h), Replayed(h))
<1> DEFINE who == CHOOSE a \in Actors : TRUE
           At(n) == IF n = 0 THEN "new" ELSE Move[h[n]].to
<1>1. h \in Seq(DOMAIN Move \ {"mark_duplicate"}) /\ Len(h) \in Nat
    BY HistoriesAssumption
<1>2. who \in Actors
    BY NamesAssumption
<1>3. PICK x : /\ Replayed(h) = x[Len(h)]
               /\ x[0] = Created
               /\ \A n \in 1..Len(h) : x[n] = Transitioned(x[n - 1], h[n], who, None, None)
    BY <1>1, ReplayedIs, Zenon
<1> DEFINE Holds(n) == /\ x[n] \in Defect /\ x[n].status = At(n) /\ x[n].version = n + 1
                       /\ Behind(x[n], x[n])
           Failing == {n \in 0..Len(h) : ~Holds(n)}
<1>4. ASSUME NEW n \in 1..Len(h)
      PROVE  /\ x[n] = Transitioned(x[n - 1], h[n], who, None, None)
             /\ h[n] \in DOMAIN Move \ {"mark_duplicate"}
             /\ At(n - 1) \in Move[h[n]].from
    <2>1. n \in 0..Len(h) /\ n # 0 /\ (n - 1 = 0 <=> n = 1)
        BY <1>1
    <2>2. x[n] = Transitioned(x[n - 1], h[n], who, None, None)
        BY <1>3, <2>1
    <2>3. (IF n = 1 THEN "new" ELSE Move[h[n - 1]].to) \in Move[h[n]].from
        BY HistoriesAssumption
    <2>4. QED
        BY <1>1, <2>1, <2>2, <2>3
<1> HIDE DEF who, At
<1>5. Failing = {}
    <2> SUFFICES ASSUME Failing # {} PROVE FALSE
        OBVIOUS
    <2>1. Failing \subseteq Nat
        BY <1>1
    <2>2. PICK n \in Failing : \A k \in Failing : ~(k < n)
        BY <2>1, Least
    <2>3. n \in 0..Len(h) /\ n \in Nat /\ ~Holds(n)
        BY <2>1
    <2>4. CASE n = 0
        BY <1>3, <2>3, <2>4, CreatedBehind DEF At
    <2>5. CASE n # 0
        <3>1. n \in 1..Len(h) /\ n - 1 \in 0..Len(h) /\ n - 1 < n
            BY <1>1, <2>3, <2>5
        <3>2. Holds(n - 1)
            BY <2>2, <3>1
        <3> DEFINE y == x[n - 1]  action == h[n]
        <3>3. /\ y \in Defect /\ y.status \in Move[action].from /\ y.version = n /\ Behind(y, y)
              /\ action \in DOMAIN Move /\ action # "mark_duplicate"
            BY <1>4, <3>1, <3>2
        <3>4. action \in DOMAIN Move \ {"mark_duplicate"}
            BY <3>3
        <3>5. x[n] = Transitioned(y, action, who, None, None)
            BY <1>4, <3>1
        <3> HIDE DEF y, action
        <3> DEFINE z == Transitioned(y, action, who, None, None)
        <3>6. /\ z \in Defect /\ z.status = Move[action].to /\ z.version = y.version + 1
              /\ Behind(z, z)
            BY <1>2, <3>3, <3>4, ReplayStep
        <3> HIDE DEF z
        <3>7. /\ z \in Defect /\ z.status = Move[action].to /\ z.version = n + 1
              /\ Behind(z, z)
            BY <3>3, <3>6
        <3>8. QED
            BY <2>3, <2>5, <3>5, <3>7 DEF At, action, z
    <2>6. QED
        BY <2>4, <2>5
<1>6. Holds(Len(h))
    BY <1>1, <1>5
<1>7. Versioned(x[Len(h)])
    <2>1. At(Len(h)) # "absent"
        <3>1. \A a \in DOMAIN Move : Move[a].to # "absent"
            BY DEF Move
        <3>2. Len(h) # 0 => h[Len(h)] \in DOMAIN Move
            BY <1>1, <1>4
        <3>3. QED
            BY <3>1, <3>2 DEF At
    <2>2. Len(h) + 1 # 0
        BY <1>1
    <2>3. QED
        BY <1>6, <2>1, <2>2 DEF Versioned
<1>8. QED
    BY <1>3, <1>6, <1>7

-----------------------------------------------------------------------------
(* The unit of work *)

LEMMA RequestTyped ==
    ASSUME TypeOK, NEW r \in Requests
    PROVE  /\ req[r] \in Request /\ image[r] \in Tables
           /\ writes[r] \in [Defects -> Write \cup {None}]
           /\ req[r].pc \in {"idle", "parts", "heads", "save", "done"}
BY DEF TypeOK, Request

LEMMA NothingWritten ==
    /\ NoWrites \in [Defects -> Write \cup {None}]
    /\ \A d \in Defects : NoWrites[d] = None
BY DEF NoWrites

LEMMA InitInv == ASSUME Init PROVE Inv
<1>1. \A d \in Defects : db[d] \in Defect /\ Versioned(db[d]) /\ Behind(db[d], db[d])
    <2>1. Absent.status = "absent" /\ Absent.version = 0
        BY DEF Absent
    <2>2. Absent \in Defect /\ Versioned(Absent) /\ Behind(Absent, Absent)
        BY <2>1, AbsentTyped DEF Versioned, Behind
    <2>3. \A h \in Histories : LET x == Replayed(h) IN x \in Defect /\ Versioned(x) /\ Behind(x, x)
        BY ReplayedHolds
    <2>4. QED
        BY <2>2, <2>3 DEF Init
<1>2. db \in Tables
    <2>1. db \in [Defects -> {Absent} \cup {Replayed(h) : h \in Histories}]
        BY DEF Init
    <2>2. QED
        BY <1>1, <2>1 DEF Tables
<1>3. Idle \in Request /\ NoImage \in Tables
    BY AbsentTyped DEF Idle, Request, NoImage, Tables
<1>4. /\ \A r \in Requests : req[r] = Idle /\ writes[r] = NoWrites
      /\ records = {} /\ req \in [Requests -> Request] /\ image \in [Requests -> Tables]
      /\ writes \in [Requests -> [Defects -> Write \cup {None}]]
    BY <1>3, NothingWritten DEF Init
<1>5. TypeOK
    BY <1>1, <1>2, <1>4 DEF TypeOK, Versioned
<1>6. \A r \in Requests, d \in Defects : ~Flushed(r, d)
    BY <1>4, NothingWritten DEF Flushed
<1>7. ASSUME NEW r \in Requests PROVE Checked(r)
    <2>1. Asked(r) /\ CopyHolds(r)
        BY <1>4 DEF Asked, CopyHolds, Worked, Idle
    <2>2. WritesFit(r) /\ RowsHeld(r)
        BY <1>4, <1>6, NothingWritten DEF WritesFit, RowsHeld
    <2>3. QED
        BY <2>1, <2>2 DEF Checked
<1>8. OneWriter /\ AnsweredInHistory
    BY <1>4, <1>6 DEF OneWriter, AnsweredInHistory, Idle
<1>9. EvidenceBehindStatus
    BY <1>1 DEF EvidenceBehindStatus, Behind, Passed
<1>10. QED
    BY <1>5, <1>7, <1>8, <1>9 DEF Inv

(* The tables stay as they are: it is enough to look at the request that   *)
(* moves.                                                                  *)
LEMMA Quiet ==
    ASSUME Inv, NEW r \in Requests, NEW y \in Request, NEW copy \in Tables,
           NEW w \in [Defects -> Write \cup {None}],
           req' = [req EXCEPT ![r] = y], image' = [image EXCEPT ![r] = copy],
           writes' = [writes EXCEPT ![r] = w], UNCHANGED <<db, records>>,
           Checked(r)', OneWriter', y.answer = "ok" => copy = image[r] /\ y.on = req[r].on /\ req[r].answer = "ok"
    PROVE  Inv'
<1> USE DEF Inv
<1>1. TypeOK'
    BY DEF TypeOK
<1>2. /\ req'[r] = y /\ image'[r] = copy
      /\ \A p \in Requests \ {r} : req'[p] = req[p] /\ image'[p] = image[p] /\ writes'[p] = writes[p]
    BY DEF TypeOK
<1>3. ASSUME NEW p \in Requests, p # r PROVE Checked(p)'
    <2>1. Checked(p) /\ req'[p] = req[p] /\ image'[p] = image[p] /\ writes'[p] = writes[p] /\ db' = db
        BY <1>2, <1>3
    <2>2. Asked(p)' /\ CopyHolds(p)' /\ WritesFit(p)'
        BY <2>1 DEF Checked, Asked, CopyHolds, WritesFit, Worked
    <2>3. RowsHeld(p)'
        BY <2>1 DEF Checked, RowsHeld, Flushed
    <2>4. QED
        BY <2>2, <2>3 DEF Checked
<1>4. AnsweredInHistory'
    BY <1>2 DEF AnsweredInHistory
<1>5. EvidenceBehindStatus'
    BY DEF EvidenceBehindStatus
<1>6. QED
    BY <1>1, <1>3, <1>4, <1>5

(* A request that does not write, or no longer.                            *)
LEMMA Unwritten ==
    ASSUME Inv, NEW r \in Requests, NEW y \in Request, NEW copy \in Tables,
           req' = [req EXCEPT ![r] = y], image' = [image EXCEPT ![r] = copy],
           writes' = [writes EXCEPT ![r] = NoWrites], UNCHANGED <<db, records>>,
           Asked(r)', CopyHolds(r)', y.answer # "ok"
    PROVE  Inv'
<1> USE DEF Inv
<1>1. /\ writes'[r] = NoWrites
      /\ \A p \in Requests \ {r} : image'[p] = image[p] /\ writes'[p] = writes[p]
    BY DEF TypeOK
<1>2. \A d \in Defects : ~Flushed(r, d)'
    BY <1>1, NothingWritten DEF Flushed
<1>3. WritesFit(r)' /\ RowsHeld(r)'
    BY <1>1, <1>2, NothingWritten DEF WritesFit, RowsHeld
<1>4. ASSUME NEW p \in Requests \ {r}, NEW d \in Defects
      PROVE  (Flushed(p, d)' <=> Flushed(p, d)) /\ (Appends(p, d)' <=> Appends(p, d))
    BY <1>1 DEF Flushed, Appends
<1>5. OneWriter'
    BY <1>2, <1>4 DEF OneWriter
<1>6. QED
    BY <1>3, <1>5, NothingWritten, Quiet DEF Checked

LEMMA SubmitKeeps == ASSUME Inv, NEW r \in Requests, Submit(r) PROVE Inv'
<1> USE DEF Inv
<1>1. PICK key \in Sent \cup {r}, ask \in Ask :
        /\ (ask.action = "mark_duplicate") <=> (ask.master # None)
        /\ (ask.action = "create") <=> (ask.defect = None)
        /\ req' = [req EXCEPT ![r] = [Idle EXCEPT !.pc = "parts", !.key = key, !.ask = ask,
                                             !.on = ask.defect]]
    BY DEF Submit
<1> DEFINE y == [Idle EXCEPT !.pc = "parts", !.key = key, !.ask = ask, !.on = ask.defect]
<1>2. key \in Requests /\ ask.defect \in Defects \cup {None}
    BY DEF Sent, Ask
<1>3. /\ y \in Request /\ y.pc = "parts" /\ y.key = key /\ y.ask = ask /\ y.on = ask.defect
      /\ y.answer = "none"
    BY <1>2 DEF Idle, Request
<1>4. req' = [req EXCEPT ![r] = y] /\ UNCHANGED <<db, records, image, writes>> /\ req[r].pc = "idle"
    BY <1>1 DEF Submit
<1> HIDE DEF y
<1>5. /\ req'[r] = y /\ image' = [image EXCEPT ![r] = image[r]]
      /\ writes' = [writes EXCEPT ![r] = NoWrites]
    BY <1>4 DEF TypeOK, Checked, WritesFit
<1>6. Asked(r)' /\ CopyHolds(r)'
    BY <1>1, <1>2, <1>3, <1>5 DEF Asked, CopyHolds, Worked
<1>7. QED
    BY <1>3, <1>4, <1>5, <1>6, RequestTyped, Unwritten

LEMMA LoadPartsKeeps == ASSUME Inv, NEW r \in Requests, LoadParts(r) PROVE Inv'
<1> USE DEF Inv
<1> DEFINE y == [req[r] EXCEPT !.pc = "heads"]
<1>1. /\ req' = [req EXCEPT ![r] = y] /\ image' = [image EXCEPT ![r] = db]
      /\ UNCHANGED <<db, records, writes>> /\ req[r].pc = "parts"
    BY DEF LoadParts, Goto
<1>2. /\ y \in Request /\ y.pc = "heads" /\ y.key = req[r].key /\ y.ask = req[r].ask
      /\ y.on = req[r].on /\ y.answer = req[r].answer
    BY RequestTyped DEF Request
<1> HIDE DEF y
<1>3. req'[r] = y /\ db \in Tables /\ writes' = [writes EXCEPT ![r] = NoWrites]
    BY <1>1 DEF TypeOK, Checked, WritesFit
<1>4. Asked(r) /\ req[r].answer = "none"
    BY <1>1 DEF Checked, Asked
<1>5. Asked(r)' /\ CopyHolds(r)'
    BY <1>1, <1>2, <1>3, <1>4 DEF Asked, CopyHolds, Worked
<1>6. QED
    BY <1>1, <1>2, <1>3, <1>4, <1>5, Unwritten

(* A request that ends without a commit was not answered to have worked.   *)
LEMMA FinishKeeps ==
    ASSUME Inv, NEW r \in Requests, NEW answer \in {"replayed", "refused"}, NEW copy \in Tables,
           req[r].pc # "idle", Finish(r, answer), image' = [image EXCEPT ![r] = copy],
           writes' = [writes EXCEPT ![r] = NoWrites], UNCHANGED <<db, records>>
    PROVE  Inv'
<1> USE DEF Inv
<1> DEFINE y == [req[r] EXCEPT !.pc = "done", !.answer = answer]
<1>1. y \in Request /\ y.pc = "done" /\ y.answer = answer /\ y.key = req[r].key /\ y.ask = req[r].ask
    BY RequestTyped DEF Request
<1>2. req' = [req EXCEPT ![r] = y]
    BY DEF Finish
<1> HIDE DEF y
<1>3. req'[r] = y
    BY <1>2 DEF TypeOK
<1>4. Asked(r)
    BY DEF Checked
<1>5. Asked(r)' /\ CopyHolds(r)'
    BY <1>1, <1>3, <1>4 DEF Asked, CopyHolds, Worked
<1>6. QED
    BY <1>1, <1>2, <1>5, Unwritten

LEMMA FailKeeps ==
    ASSUME Inv, NEW r \in Requests, req[r].pc # "idle", Fail(r), UNCHANGED <<db, records>>
    PROVE  Inv'
<1>1. NoImage \in Tables
    BY AbsentTyped DEF NoImage, Tables
<1>2. QED
    BY <1>1, FinishKeeps DEF Fail

LEMMA AbortKeeps == ASSUME Inv, NEW r \in Requests, Abort(r) PROVE Inv'
BY FailKeeps DEF Abort

(* The copy has the head of now, with the evidence that is in the tables.  *)
LEMMA LoadedHolds ==
    ASSUME Inv, NEW r \in Requests
    PROVE  /\ Loaded(r) \in Tables
           /\ \A d \in Defects : Versioned(Loaded(r)[d]) /\ Behind(db[d], Loaded(r)[d])
<1> SUFFICES ASSUME NEW d \in Defects
             PROVE  LET x == [db[d] EXCEPT !.history = image[r][d].history, !.fixes = image[r][d].fixes,
                                 !.checks = image[r][d].checks, !.master = image[r][d].master,
                                 !.responded = image[r][d].responded, !.resolved = image[r][d].resolved]
                    IN  x \in Defect /\ Versioned(x) /\ Behind(db[d], x)
    BY DEF Loaded, Tables
<1> DEFINE b == db[d]  i == image[r][d]
           x == [b EXCEPT !.history = i.history, !.fixes = i.fixes, !.checks = i.checks,
                          !.master = i.master, !.responded = i.responded, !.resolved = i.resolved]
<1>1. b \in Defect /\ i \in Defect /\ Versioned(b)
    BY DEF Inv, TypeOK, Tables, Versioned
<1>2. Behind(b, b)
    BY DEF Inv, EvidenceBehindStatus, Behind, Passed
<1> HIDE DEF b, i
<1>3. x \in Defect /\ x.status = b.status /\ x.version = b.version
    BY <1>1 DEF Defect
<1> HIDE DEF x
<1>4. Versioned(x) /\ Behind(b, x)
    BY <1>1, <1>2, <1>3 DEF Versioned, Behind
<1>5. QED
    BY <1>3, <1>4 DEF x, b, i

LEMMA ChangeKeeps ==
    ASSUME Inv, NEW r \in Requests, req[r].pc = "heads", NEW d \in Defects, NEW y \in Defect,
           Versioned(y), y.status # "absent", Behind(db[d], y),
           Change(r, d, y), UNCHANGED <<db, records, writes>>
    PROVE  Inv'
<1> USE DEF Inv
<1> DEFINE c == [req[r] EXCEPT !.pc = "save", !.on = d]
           copy == [Loaded(r) EXCEPT ![d] = y]
<1>1. req' = [req EXCEPT ![r] = c] /\ image' = [image EXCEPT ![r] = copy]
    BY DEF Change
<1>2. /\ c \in Request /\ c.pc = "save" /\ c.on = d /\ c.key = req[r].key /\ c.ask = req[r].ask
      /\ c.answer = req[r].answer
    BY RequestTyped DEF Request
<1>3. /\ copy \in Tables /\ copy[d].status # "absent"
      /\ \A e \in Defects : Versioned(copy[e]) /\ Behind(db[e], copy[e])
    <2> DEFINE l == Loaded(r)
    <2>1. l \in Tables /\ \A e \in Defects : Versioned(l[e]) /\ Behind(db[e], l[e])
        BY LoadedHolds
    <2> HIDE DEF l
    <2>2. /\ [l EXCEPT ![d] = y] \in Tables /\ [l EXCEPT ![d] = y][d] = y
          /\ \A e \in Defects : e # d => [l EXCEPT ![d] = y][e] = l[e]
        BY <2>1 DEF Tables
    <2>3. QED
        BY <2>1, <2>2 DEF l
<1> HIDE DEF c, copy
<1>4. /\ req'[r] = c /\ image'[r] = copy
      /\ writes' = [writes EXCEPT ![r] = NoWrites]
    BY <1>1 DEF TypeOK, Checked, WritesFit
<1>5. Asked(r) /\ req[r].answer = "none"
    BY DEF Checked, Asked
<1>6. Asked(r)'
    BY <1>2, <1>4, <1>5 DEF Asked, Worked
<1>7. CopyHolds(r)'
    BY <1>2, <1>3, <1>4 DEF CopyHolds, Worked
<1>8. QED
    BY <1>1, <1>2, <1>3, <1>4, <1>5, <1>6, <1>7, Unwritten

LEMMA HandleKeeps == ASSUME Inv, NEW r \in Requests, Handle(r) PROVE Inv'
<1> DEFINE x == Loaded(r)[req[r].on]
           ask == req[r].ask
<1>1. req[r].pc = "heads" /\ UNCHANGED <<db, records, writes>>
    BY DEF Handle
<1>2. /\ req[r].key \in Requests /\ ask \in Ask /\ req[r].on = ask.defect
      /\ (ask.action = "mark_duplicate") <=> (ask.master # None)
      /\ (ask.action = "create") <=> (ask.defect = None)
      /\ ask.actor \in Actors /\ ask.master \in Defects \cup {None}
      /\ ask.defect \in Defects \cup {None}
    BY <1>1 DEF Inv, Checked, Asked, Ask
<1>3. ASSUME req[r].on \in Defects
      PROVE  x \in Defect /\ Versioned(x) /\ Behind(db[req[r].on], x)
    BY <1>3, LoadedHolds DEF Tables
<1>4. CASE \E answer \in {"replayed", "refused"} :
              Finish(r, answer) /\ image' = [image EXCEPT ![r] = NoImage]
    <2>1. NoImage \in Tables
        BY AbsentTyped DEF NoImage, Tables
    <2>2. writes' = [writes EXCEPT ![r] = NoWrites]
        BY <1>1 DEF Inv, TypeOK, Checked, WritesFit
    <2>3. QED
        BY <1>1, <1>4, <2>1, <2>2, FinishKeeps
<1>5. CASE Create(r)
    <2>1. PICK d \in Defects : Change(r, d, Created)
        BY <1>5 DEF Create
    <2>2. /\ Created \in Defect /\ Versioned(Created) /\ Created.status # "absent"
          /\ Behind(db[d], Created)
        BY CreatedBehind DEF Versioned
    <2>3. QED
        BY <1>1, <2>1, <2>2, ChangeKeeps
<1>6. CASE Patch(r, x)
    <2> DEFINE y == Patched(x, ask.actor)
    <2>1. ask.action = "patch" /\ x.status # "absent" /\ Change(r, req[r].on, y)
        BY <1>6 DEF Patch
    <2>2. req[r].on \in Defects
        BY <1>2, <2>1
    <2>3. x \in Defect /\ x.status \in Statuses /\ x.version \in Nat /\ Behind(db[req[r].on], x)
        BY <1>3, <2>1, <2>2 DEF Defect
    <2> HIDE DEF x
    <2>4. /\ y \in Defect /\ y.status = x.status /\ y.version = x.version + 1
          /\ y.fixes = x.fixes /\ y.checks = x.checks
          /\ y.master = x.master
        <3>1. "patch" \in Actions
            BY DEF Actions
        <3>2. QED
            BY <1>2, <2>3, <3>1, RecordedKeeps DEF Patched
    <2> HIDE DEF y
    <2>5. Versioned(y) /\ y.status # "absent" /\ Behind(db[req[r].on], y)
        BY <2>1, <2>3, <2>4 DEF Versioned, Behind
    <2>6. QED
        BY <1>1, <2>1, <2>2, <2>4, <2>5, ChangeKeeps
<1>7. CASE Transition(r, x)
    <2> DEFINE y == Transitioned(x, ask.action, ask.actor, req[r].key, ask.master)
    <2>1. /\ ask.action \in DOMAIN Move /\ Permitted(x, ask.action)
          /\ Change(r, ask.defect, y)
        BY <1>7 DEF Transition
    <2>2. req[r].on \in Defects /\ req[r].on = ask.defect
        <3>1. ask.action # "create"
            BY <2>1 DEF Move
        <3>2. QED
            BY <1>2, <3>1
    <2>3. x \in Defect /\ x.version \in Nat /\ Behind(db[req[r].on], x)
        BY <1>3, <2>2 DEF Defect
    <2> HIDE DEF x
    <2>4. /\ x.status \in Move[ask.action].from
          /\ ask.action = "submit_verification" => x.fixes # <<>>
          /\ ask.action = "mark_duplicate" => ask.master # None
        BY <1>2, <2>1 DEF Permitted
    <2>5. /\ y \in Defect /\ y.version = x.version + 1
          /\ y.status # "absent" /\ Behind(db[req[r].on], y)
        BY <1>2, <2>1, <2>3, <2>4, TransitionedBehind
    <2> HIDE DEF y
    <2>6. Versioned(y)
        BY <2>3, <2>5 DEF Versioned
    <2>7. QED
        BY <1>1, <2>1, <2>2, <2>5, <2>6, ChangeKeeps
<1>8. QED
    BY <1>4, <1>5, <1>6, <1>7 DEF Handle

(* The columns that are to be written of a defect that is not there are    *)
(* all the copy has.                                                       *)
LEMMA SelectKeeps == ASSUME Inv, NEW r \in Requests, Select(r) PROVE Inv'
<1> USE DEF Inv
<1>1. PICK d \in Copied(r) :
        /\ writes[r][d] = None
        /\ writes' = [writes EXCEPT ![r][d] =
               [flushed |-> FALSE, head |-> Differing(HeadColumns, db[d], image[r][d]), sla |-> {}]]
    BY DEF Select
<1> DEFINE head == Differing(HeadColumns, db[d], image[r][d])
           c == [flushed |-> FALSE, head |-> head, sla |-> {}]
           w == [writes[r] EXCEPT ![d] = c]
<1>2. req[r].pc = "save" /\ UNCHANGED <<db, records, req, image>> /\ d \in Defects
      /\ image[r][d].status # "absent"
    BY <1>1 DEF Select, Copied
<1>3. head \subseteq HeadColumns
    BY DEF Differing
<1>4. db[d].status = "absent" => {"status", "version"} \subseteq head
    <2>1. db[d] \in Defect /\ image[r][d] \in Defect
        BY <1>2 DEF TypeOK, Tables
    <2>2. Versioned(db[d]) /\ Versioned(image[r][d])
        BY <1>2 DEF TypeOK, Versioned, Checked, CopyHolds, Worked
    <2>3. db[d].status = "absent" =>
              image[r][d].status # db[d].status /\ image[r][d].version # db[d].version
        BY <1>2, <2>2 DEF Versioned
    <2>4. /\ image[r][d]["status"] = image[r][d].status /\ db[d]["status"] = db[d].status
          /\ image[r][d]["version"] = image[r][d].version /\ db[d]["version"] = db[d].version
        OBVIOUS
    <2>5. QED
        BY <2>3, <2>4 DEF Differing, HeadColumns
<1> HIDE DEF head
<1>5. c \in Write /\ c.head = head /\ c.flushed = FALSE
    BY <1>3 DEF Write
<1>6. /\ writes' = [writes EXCEPT ![r] = w]
      /\ req' = [req EXCEPT ![r] = req[r]] /\ image' = [image EXCEPT ![r] = image[r]]
    BY <1>1, <1>2 DEF TypeOK, head
<1> HIDE DEF c
<1>7. /\ w \in [Defects -> Write \cup {None}] /\ w[d] = c
      /\ \A e \in Defects : e # d => w[e] = writes[r][e]
    BY <1>2, <1>5, RequestTyped
<1> HIDE DEF w
<1>8. writes'[r] = w /\ \A p \in Requests \ {r} : writes'[p] = writes[p]
    BY <1>6 DEF TypeOK
<1>9. \A p \in Requests, e \in Defects : Flushed(p, e)' => Flushed(p, e)
    BY <1>5, <1>7, <1>8 DEF Flushed
<1>10. Asked(r)' /\ CopyHolds(r)'
    BY <1>2 DEF Checked, Asked, CopyHolds, Worked
<1>11. WritesFit(r)'
    <2>1. WritesFit(r)
        BY DEF Checked
    <2>2. QED
        BY <1>2, <1>4, <1>5, <1>7, <1>8, <2>1 DEF WritesFit
<1>12. RowsHeld(r)'
    BY <1>2, <1>9 DEF Checked, RowsHeld
<1>13. OneWriter'
    <2>1. \A p \in Requests, e \in Defects : Appends(p, e)' <=> Appends(p, e)
        BY <1>2 DEF Appends
    <2>2. QED
        BY <1>9, <2>1 DEF OneWriter
<1>14. \/ req[r].answer # "ok"
       \/ image[r] = image[r] /\ req[r].on = req[r].on /\ req[r].answer = "ok"
    OBVIOUS
<1>15. QED
    BY <1>2, <1>6, <1>7, <1>10, <1>11, <1>12, <1>13, <1>14, RequestTyped, Quiet DEF Checked

(* What is flushed fits the rows, and only one inserts behind a head.      *)
LEMMA FlushKeeps == ASSUME Inv, NEW r \in Requests, Flush(r) PROVE Inv'
<1> USE DEF Inv
<1>1. req[r].pc = "save" /\ UNCHANGED <<db, records>>
    BY DEF Flush
<1>2. CASE Fail(r)
    BY <1>1, <1>2, FailKeeps
<1>3. CASE ~Fail(r)
    <2>1. PICK d \in Copied(r) :
            /\ writes[r][d] # None /\ RowsFree(r, d) /\ Acceptable(r, d)
            /\ writes' = [writes EXCEPT ![r][d] =
                   [@ EXCEPT !.flushed = TRUE, !.sla = Differing(SlaColumns, db[d], image[r][d])]]
            /\ UNCHANGED <<req, image>>
        BY <1>3 DEF Flush
    <2> DEFINE sla == Differing(SlaColumns, db[d], image[r][d])
               c == [writes[r][d] EXCEPT !.flushed = TRUE, !.sla = sla]
               w == [writes[r] EXCEPT ![d] = c]
    <2>2. sla \subseteq SlaColumns
        BY DEF Differing
    <2> HIDE DEF sla
    <2>3. d \in Defects /\ writes[r][d] \in Write
        BY <2>1, RequestTyped DEF Copied
    <2>4. c \in Write /\ c.head = writes[r][d].head
        BY <2>2, <2>3 DEF Write
    <2>5. /\ writes' = [writes EXCEPT ![r] = w]
          /\ req' = [req EXCEPT ![r] = req[r]] /\ image' = [image EXCEPT ![r] = image[r]]
        BY <2>1 DEF TypeOK, sla
    <2> HIDE DEF c
    <2>6. /\ w \in [Defects -> Write \cup {None}] /\ w[d] = c
          /\ \A e \in Defects : e # d => w[e] = writes[r][e]
        BY <2>3, <2>4, RequestTyped
    <2> HIDE DEF w
    <2>7. writes'[r] = w /\ \A p \in Requests \ {r} : writes'[p] = writes[p]
        BY <2>5 DEF TypeOK
    <2>8. \A p \in Requests, e \in Defects : p # r \/ e # d => (Flushed(p, e)' <=> Flushed(p, e))
        BY <2>6, <2>7 DEF Flushed
    <2>9. Asked(r)' /\ CopyHolds(r)'
        BY <1>1, <2>1 DEF Checked, Asked, CopyHolds, Worked
    <2>10. WritesFit(r)'
        <3>1. WritesFit(r)
            BY DEF Checked
        <3>2. QED
            BY <1>1, <2>1, <2>3, <2>4, <2>6, <2>7, <3>1 DEF WritesFit
    <2>11. RowsHeld(r)'
        <3>1. AppendOnly(db[d], image[r][d])
            BY <2>1 DEF Acceptable
        <3>2. QED
            BY <1>1, <2>1, <2>8, <3>1 DEF Checked, RowsHeld
    <2>12. OneWriter'
        <3>1. \A p \in Requests, e \in Defects : Appends(p, e)' <=> Appends(p, e)
            BY <1>1, <2>1 DEF Appends
        <3>2. \A q \in Requests \ {r} : Flushed(q, d) => ~(Appends(q, d) /\ Appends(r, d))
            BY <2>1 DEF RowsFree
        <3>3. QED
            BY <2>8, <3>1, <3>2 DEF OneWriter
    <2>13. QED
        BY <1>1, <2>5, <2>6, <2>9, <2>10, <2>11, <2>12, RequestTyped, Quiet DEF Checked
<1>4. QED
    BY <1>2, <1>3

-----------------------------------------------------------------------------
(* The commit *)

LEMMA SavedIs ==
    ASSUME NEW x \in Defect, NEW y \in Defect, NEW columns
    PROVE  LET z == Saved(x, y, columns) IN
           /\ z.status = (IF "status" \in columns THEN y.status ELSE x.status)
           /\ z.version = (IF "version" \in columns THEN y.version ELSE x.version)
           /\ z.fixVersion = (IF "fixVersion" \in columns THEN y.fixVersion ELSE x.fixVersion)
           /\ z.responded = (IF "responded" \in columns THEN y.responded ELSE x.responded)
           /\ z.resolved = (IF "resolved" \in columns THEN y.resolved ELSE x.resolved)
           /\ z.history = Grown(x.history, y.history)
           /\ z.fixes = Grown(x.fixes, y.fixes)
           /\ z.checks = Grown(x.checks, y.checks)
           /\ z.master = (IF x.master = None THEN y.master ELSE x.master)
BY DEF Saved, Defect, Evidence

LEMMA SavedTyped ==
    ASSUME NEW x \in Defect, NEW y \in Defect, NEW columns
    PROVE  Saved(x, y, columns) \in Defect
<1> DEFINE z == Saved(x, y, columns)
<1>1. /\ z.status \in {x.status, y.status} /\ z.version \in {x.version, y.version}
      /\ z.fixVersion \in {x.fixVersion, y.fixVersion}
      /\ z.responded \in {x.responded, y.responded} /\ z.resolved \in {x.resolved, y.resolved}
      /\ z.master \in {x.master, y.master}
      /\ z.history = Grown(x.history, y.history)
      /\ z.fixes = Grown(x.fixes, y.fixes) /\ z.checks = Grown(x.checks, y.checks)
    BY SavedIs
<1> HIDE DEF z
<1>2. /\ z.history \in Seq(Entry) /\ z.fixes \in Seq(Requests \cup {None}) /\ z.checks \in Seq(Check)
    <2>1. Grown(x.history, y.history) \in Seq(Entry)
        BY RowsTyped, GrownStart
    <2>2. Grown(x.fixes, y.fixes) \in Seq(Requests \cup {None})
        BY RowsTyped, GrownStart
    <2>3. Grown(x.checks, y.checks) \in Seq(Check)
        BY RowsTyped, GrownStart
    <2>4. QED
        BY <1>1, <2>1, <2>2, <2>3
<1>3. /\ z.status \in Statuses \cup {"absent"} /\ z.version \in Nat /\ z.fixVersion \in BOOLEAN
      /\ z.responded \in BOOLEAN /\ z.resolved \in BOOLEAN /\ z.master \in Defects \cup {None}
    BY <1>1, RowsTyped
<1>4. QED
    BY <1>2, <1>3 DEF z, Saved, Defect

(* Rows that are appended to keep what they start with, and whichever      *)
(* status stands over them has its evidence there.                         *)
LEMMA SavedHolds ==
    ASSUME NEW x \in Defect, NEW y \in Defect, NEW columns, AppendOnly(x, y), y.status # "absent",
           x.status = "absent" => {"status", "version"} \subseteq columns,
           Versioned(x), Versioned(y), Behind(x, x), Behind(x, y)
    PROVE  LET z == Saved(x, y, columns) IN
           /\ z \in Defect /\ Versioned(z) /\ Behind(z, z) /\ z.status # "absent"
           /\ IsStart(x.history, z.history) /\ IsStart(x.fixes, z.fixes) /\ IsStart(x.checks, z.checks)
           /\ x.master # None => z.master # None
           /\ IsStart(y.history, z.history)
<1> DEFINE z == Saved(x, y, columns)
<1>1. /\ z.status = (IF "status" \in columns THEN y.status ELSE x.status)
      /\ z.version = (IF "version" \in columns THEN y.version ELSE x.version)
      /\ z.history = Grown(x.history, y.history)
      /\ z.fixes = Grown(x.fixes, y.fixes) /\ z.checks = Grown(x.checks, y.checks)
      /\ z.master = (IF x.master = None THEN y.master ELSE x.master)
      /\ z \in Defect
    BY SavedIs, SavedTyped
<1> HIDE DEF z
<1>2. /\ IsStart(x.history, z.history) /\ IsStart(y.history, z.history)
      /\ IsStart(x.fixes, z.fixes) /\ IsStart(y.fixes, z.fixes)
      /\ IsStart(x.checks, z.checks) /\ IsStart(y.checks, z.checks)
    <2>1. Agree(x.history, y.history) /\ Agree(x.fixes, y.fixes) /\ Agree(x.checks, y.checks)
        BY DEF AppendOnly
    <2>2. IsStart(x.history, z.history) /\ IsStart(y.history, z.history)
        BY <1>1, <2>1, RowsTyped, GrownStart
    <2>3. IsStart(x.fixes, z.fixes) /\ IsStart(y.fixes, z.fixes)
        BY <1>1, <2>1, RowsTyped, GrownStart
    <2>4. IsStart(x.checks, z.checks) /\ IsStart(y.checks, z.checks)
        BY <1>1, <2>1, RowsTyped, GrownStart
    <2>5. QED
        BY <2>2, <2>3, <2>4
<1>3. /\ x.fixes # <<>> \/ y.fixes # <<>> => z.fixes # <<>>
      /\ Passed(x.checks) \/ Passed(y.checks) => Passed(z.checks)
    BY <1>1, <1>2, RowsTyped, StartKeeps
<1>4. x.master # None \/ y.master # None => z.master # None
    BY <1>1
<1>5. Versioned(z) /\ z.status # "absent"
    BY <1>1 DEF Versioned
<1>6. Behind(z, z)
    BY <1>1, <1>3, <1>4 DEF Behind
<1>7. QED
    BY <1>1, <1>2, <1>4, <1>5, <1>6 DEF z

(* What supported a head that was read still supports it.                  *)
LEMMA BehindKeeps ==
    ASSUME NEW x \in Defect, NEW z \in Defect, NEW y, Behind(x, y),
           IsStart(x.fixes, z.fixes), IsStart(x.checks, z.checks), x.master # None => z.master # None
    PROVE  Behind(z, y)
<1>1. (x.fixes # <<>> => z.fixes # <<>>) /\ (Passed(x.checks) => Passed(z.checks))
    BY RowsTyped, StartKeeps
<1>2. QED
    BY <1>1 DEF Behind

LEMMA CommitGrows ==
    ASSUME Inv, NEW r \in Requests, Commit(r), NEW d \in Defects
    PROVE  /\ db'[d] \in Defect /\ Versioned(db'[d]) /\ Behind(db'[d], db'[d])
           /\ IsStart(db[d].history, db'[d].history)
           /\ IsStart(db[d].fixes, db'[d].fixes) /\ IsStart(db[d].checks, db'[d].checks)
           /\ db[d].master # None => db'[d].master # None
           /\ db[d].status # "absent" => db'[d].status # "absent"
           /\ d = req[r].on => IsStart(image[r][d].history, db'[d].history)
           /\ \/ db'[d] = db[d]
              \/ /\ Flushed(r, d)
                 /\ db'[d].history = Grown(db[d].history, image[r][d].history)
                 /\ db'[d].fixes = Grown(db[d].fixes, image[r][d].fixes)
                 /\ db'[d].checks = Grown(db[d].checks, image[r][d].checks)
<1> USE DEF Inv
<1>1. db[d] \in Defect /\ image[r][d] \in Defect /\ Versioned(db[d])
    BY DEF TypeOK, Tables, Versioned
<1>2. Behind(db[d], db[d])
    BY DEF EvidenceBehindStatus, Behind, Passed
<1>3. /\ Versioned(image[r][d]) /\ Behind(db[d], image[r][d])
      /\ d = req[r].on => image[r][d].status # "absent"
    BY DEF Commit, Checked, CopyHolds, Worked
<1>4. CASE d \in Copied(r)
    <2> DEFINE columns == writes[r][d].head \cup writes[r][d].sla
    <2>1. db'[d] = Saved(db[d], image[r][d], columns) /\ Flushed(r, d)
        BY <1>4 DEF Commit
    <2>2. AppendOnly(db[d], image[r][d]) /\ image[r][d].status # "absent"
        BY <1>4, <2>1 DEF Checked, RowsHeld, Copied
    <2>3. db[d].status = "absent" => {"status", "version"} \subseteq columns
        BY <2>1 DEF Checked, WritesFit, Flushed
    <2> HIDE DEF columns
    <2>4. /\ db'[d].history = Grown(db[d].history, image[r][d].history)
          /\ db'[d].fixes = Grown(db[d].fixes, image[r][d].fixes)
          /\ db'[d].checks = Grown(db[d].checks, image[r][d].checks)
        BY <1>1, <2>1, SavedIs
    <2>5. QED
        BY <1>1, <1>2, <1>3, <2>1, <2>2, <2>3, <2>4, SavedHolds
<1>5. CASE d \notin Copied(r)
    <2>1. db'[d] = db[d]
        BY <1>5 DEF Commit
    <2>2. IsStart(db[d].history, db[d].history) /\ IsStart(db[d].fixes, db[d].fixes) /\ IsStart(db[d].checks, db[d].checks)
        BY <1>1, RowsTyped DEF IsStart
    <2>3. d # req[r].on
        BY <1>3, <1>5 DEF Copied
    <2>4. QED
        BY <1>1, <1>2, <2>1, <2>2, <2>3
<1>6. QED
    BY <1>4, <1>5

(* To the copy of another the rows are as they were, or have the rows that *)
(* only the one who commits had to insert.                                 *)
LEMMA OthersHeld ==
    ASSUME Inv, NEW r \in Requests, Commit(r), NEW p \in Requests, p # r,
           NEW d \in Defects, Flushed(p, d)
    PROVE  AppendOnly(db'[d], image[p][d])
<1> USE DEF Inv
<1>1. AppendOnly(db[d], image[p][d])
    BY DEF Checked, RowsHeld
<1>2. CASE db'[d] = db[d]
    BY <1>1, <1>2
<1>3. CASE /\ Flushed(r, d)
           /\ db'[d].history = Grown(db[d].history, image[r][d].history)
           /\ db'[d].fixes = Grown(db[d].fixes, image[r][d].fixes)
           /\ db'[d].checks = Grown(db[d].checks, image[r][d].checks)
    <2>1. AppendOnly(db[d], image[r][d])
        BY <1>3 DEF Checked, RowsHeld
    <2>2. ~(Appends(p, d) /\ Appends(r, d))
        BY <1>3 DEF OneWriter
    <2>3. /\ db[d] \in Defect /\ image[r][d] \in Defect /\ image[p][d] \in Defect
        BY DEF TypeOK, Tables
    <2>4. Agree(db'[d].history, image[p][d].history)
        BY <1>1, <1>3, <2>1, <2>2, <2>3, RowsTyped, AgreeKeeps DEF AppendOnly, Appends
    <2>5. Agree(db'[d].fixes, image[p][d].fixes)
        BY <1>1, <1>3, <2>1, <2>2, <2>3, RowsTyped, AgreeKeeps DEF AppendOnly, Appends
    <2>6. Agree(db'[d].checks, image[p][d].checks)
        BY <1>1, <1>3, <2>1, <2>2, <2>3, RowsTyped, AgreeKeeps DEF AppendOnly, Appends
    <2>7. QED
        BY <2>4, <2>5, <2>6 DEF AppendOnly
<1>4. QED
    BY <1>2, <1>3, CommitGrows

LEMMA CommitKeeps == ASSUME Inv, NEW r \in Requests, Commit(r) PROVE Inv'
<1> USE DEF Inv
<1> DEFINE y == [req[r] EXCEPT !.pc = "done", !.answer = "ok"]
<1>1. /\ req' = [req EXCEPT ![r] = y] /\ image' = image /\ req[r].pc = "save"
      /\ writes' = [writes EXCEPT ![r] = NoWrites]
    BY DEF Commit, Finish
<1>2. /\ y \in Request /\ y.pc = "done" /\ y.answer = "ok" /\ y.on = req[r].on
      /\ y.key = req[r].key /\ y.ask = req[r].ask
    BY RequestTyped DEF Request
<1> HIDE DEF y
<1>3. /\ req'[r] = y /\ writes'[r] = NoWrites
      /\ \A p \in Requests \ {r} : req'[p] = req[p] /\ writes'[p] = writes[p]
    BY <1>1 DEF TypeOK
<1>4. Asked(r) /\ req[r].on \in Defects
    BY <1>1 DEF Checked, Asked, Worked
<1>5. db' \in Tables
    <2>1. db' = [d \in Defects |-> db'[d]]
        BY DEF Commit
    <2>2. QED
        BY <2>1, CommitGrows DEF Tables
<1>6. records' \subseteq Record
    <2>1. req[r].key \in Requests /\ req[r].ask \in Ask
        BY <1>1, <1>4 DEF Asked
    <2>2. [key |-> req[r].key, ask |-> req[r].ask] \in Record
        BY <2>1 DEF Record
    <2>3. QED
        BY <2>2 DEF Commit, TypeOK
<1>7. TypeOK'
    <2>1. \A d \in Defects : db'[d].status = "absent" <=> db'[d].version = 0
        BY CommitGrows DEF Versioned
    <2>2. QED
        BY <1>1, <1>2, <1>5, <1>6, <2>1, NothingWritten DEF TypeOK
<1>8. /\ \A d \in Defects : ~Flushed(r, d)'
      /\ \A p \in Requests \ {r}, d \in Defects : Flushed(p, d)' <=> Flushed(p, d)
    BY <1>3, NothingWritten DEF Flushed
<1>9. ASSUME NEW p \in Requests PROVE Checked(p)'
    <2>1. CASE p = r
        <3>1. Asked(r)'
            BY <1>1, <1>2, <1>3, <1>4 DEF Asked, Worked
        <3>2. CopyHolds(r)'
            BY <1>2, <1>3 DEF CopyHolds, Worked
        <3>3. WritesFit(r)' /\ RowsHeld(r)'
            BY <1>3, <1>8, NothingWritten DEF WritesFit, RowsHeld
        <3>4. QED
            BY <2>1, <3>1, <3>2, <3>3 DEF Checked
    <2>2. CASE p # r
        <3>1. req'[p] = req[p] /\ image'[p] = image[p] /\ writes'[p] = writes[p]
            BY <1>1, <1>3, <2>2
        <3>2. Asked(p) /\ CopyHolds(p) /\ WritesFit(p)
            BY DEF Checked
        <3>3. Asked(p)'
            BY <3>1, <3>2 DEF Asked, Worked
        <3>4. CopyHolds(p)'
            <4>1. \A d \in Defects : Behind(db[d], image[p][d]) => Behind(db'[d], image[p][d])
                BY CommitGrows, BehindKeeps DEF TypeOK, Tables
            <4>2. QED
                BY <3>1, <3>2, <4>1 DEF CopyHolds, Worked
        <3>5. WritesFit(p)'
            BY <3>1, <3>2, CommitGrows DEF WritesFit
        <3>6. RowsHeld(p)'
            BY <1>8, <2>2, <3>1, OthersHeld DEF RowsHeld
        <3>7. QED
            BY <3>3, <3>4, <3>5, <3>6 DEF Checked
    <2>3. QED
        BY <2>1, <2>2
<1>10. OneWriter'
    <2>1. ASSUME NEW p \in Requests, NEW d \in Defects, Appends(p, d)' PROVE Appends(p, d)
        <3>1. db[d] \in Defect /\ image[p][d] \in Defect /\ db'[d] \in Defect
            BY <1>5 DEF TypeOK, Tables
        <3>2. /\ IsStart(db[d].history, db'[d].history)
              /\ IsStart(db[d].fixes, db'[d].fixes) /\ IsStart(db[d].checks, db'[d].checks)
              /\ db[d].master # None => db'[d].master # None
            BY CommitGrows
        <3>3. /\ Len(db[d].history) <= Len(db'[d].history) /\ Len(db[d].fixes) <= Len(db'[d].fixes)
              /\ Len(db[d].checks) <= Len(db'[d].checks)
            BY <3>2 DEF IsStart
        <3> DEFINE Longer(x, t) == \/ Len(t.history) > Len(x.history) \/ Len(t.fixes) > Len(x.fixes)
                                   \/ Len(t.checks) > Len(x.checks) \/ (x.master = None /\ t.master # None)
        <3>4. \A x \in Defect : Len(x.history) \in Nat /\ Len(x.fixes) \in Nat /\ Len(x.checks) \in Nat
            BY RowsTyped
        <3>5. ASSUME NEW x \in Defect, NEW z \in Defect, NEW t \in Defect, Longer(z, t),
                     Len(x.history) <= Len(z.history), Len(x.fixes) <= Len(z.fixes),
                     Len(x.checks) <= Len(z.checks), x.master # None => z.master # None
              PROVE  Longer(x, t)
            <4>1. \A k, m, n \in Nat : k <= m /\ n > m => n > k
                OBVIOUS
            <4>2. CASE z.master = None /\ t.master # None
                BY <3>5, <4>2
            <4>3. CASE ~(z.master = None /\ t.master # None)
                BY <3>4, <3>5, <4>1, <4>3
            <4>4. QED
                BY <4>2, <4>3
        <3>6. Longer(db'[d], image[p][d])
            BY <1>1, <2>1 DEF Appends
        <3> HIDE DEF Longer
        <3>7. Longer(db[d], image[p][d])
            BY <3>1, <3>2, <3>3, <3>5, <3>6
        <3>8. QED
            BY <3>7 DEF Appends, Longer
    <2>2. QED
        BY <1>8, <2>1 DEF OneWriter
<1>11. AnsweredInHistory'
    <2> SUFFICES ASSUME NEW p \in Requests, req'[p].answer = "ok"
                 PROVE  IsStart(image[p][req'[p].on].history, db'[req'[p].on].history)
        BY <1>1 DEF AnsweredInHistory
    <2>1. CASE p = r
        BY <1>2, <1>3, <1>4, <2>1, CommitGrows
    <2>2. CASE p # r
        <3>1. req'[p] = req[p] /\ req[p].on \in Defects
            BY <1>3, <2>2 DEF Checked, Asked
        <3> DEFINE d == req[p].on
        <3>2. /\ image[p][d].history \in Seq(Entry) /\ db[d].history \in Seq(Entry)
              /\ db'[d].history \in Seq(Entry)
            BY <1>5, <3>1, RowsTyped DEF TypeOK, Tables
        <3>3. IsStart(image[p][d].history, db[d].history) /\ IsStart(db[d].history, db'[d].history)
            BY <3>1, CommitGrows DEF AnsweredInHistory
        <3>4. IsStart(image[p][d].history, db'[d].history)
            BY <3>2, <3>3, StartTransitive
        <3>5. QED
            BY <3>1, <3>4
    <2>3. QED
        BY <2>1, <2>2
<1>12. EvidenceBehindStatus'
    BY CommitGrows DEF EvidenceBehindStatus, Behind, Passed
<1>13. QED
    BY <1>7, <1>9, <1>10, <1>11, <1>12

-----------------------------------------------------------------------------
(* The theorems *)

LEMMA StepInv == ASSUME Inv, [Next]_vars PROVE Inv'
<1>1. ASSUME NEW r \in Requests,
             Submit(r) \/ LoadParts(r) \/ Handle(r) \/ Select(r) \/ Flush(r) \/ Commit(r) \/ Abort(r)
      PROVE  Inv'
    BY <1>1, SubmitKeeps, LoadPartsKeeps, HandleKeeps, SelectKeeps, FlushKeeps, CommitKeeps, AbortKeeps
<1>2. CASE UNCHANGED vars
    <2>1. UNCHANGED <<db, records, req, image, writes>>
        BY <1>2 DEF vars
    <2>2. TypeOK' = TypeOK /\ OneWriter' = OneWriter
        BY <2>1 DEF TypeOK, OneWriter, Flushed, Appends
    <2>3. AnsweredInHistory' = AnsweredInHistory /\ EvidenceBehindStatus' = EvidenceBehindStatus
        BY <2>1 DEF AnsweredInHistory, EvidenceBehindStatus
    <2>4. ASSUME NEW r \in Requests, Checked(r) PROVE Checked(r)'
        BY <2>1, <2>4 DEF Checked, Asked, CopyHolds, WritesFit, RowsHeld, Flushed, Worked
    <2>5. QED
        BY <2>2, <2>3, <2>4 DEF Inv
<1>3. QED
    BY <1>1, <1>2 DEF Next

(* The invariant holds whatever copies requests write back, after any      *)
(* legal history and for any number of defects.                            *)
THEOREM Invariance == Spec => []Inv
<1>1. Init => Inv
    BY InitInv
<1>2. Inv /\ [Next]_vars => Inv'
    BY StepInv
<1>3. QED
    BY <1>1, <1>2, PTL DEF Spec

(* Heads, histories and evidence that are put together from copies of      *)
(* different times are still those of a defect.                            *)
THEOREM TypeCorrect == Spec => []TypeOK
<1>1. Inv => TypeOK
    BY DEF Inv
<1>2. QED
    BY <1>1, Invariance, PTL

(* A request that was answered worked on what is in the history for good.  *)
THEOREM Answered == Spec => []AnsweredInHistory
<1>1. Inv => AnsweredInHistory
    BY DEF Inv
<1>2. QED
    BY <1>1, Invariance, PTL

(* Whatever columns of an old head are written, the rows that led to the   *)
(* status that stands then are there.                                      *)
THEOREM Evident == Spec => []EvidenceBehindStatus
<1>1. Inv => EvidenceBehindStatus
    BY DEF Inv
<1>2. QED
    BY <1>1, Invariance, PTL

=============================================================================
