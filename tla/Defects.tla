------------------------------ MODULE Defects ------------------------------
(***************************************************************************)
(* The defects of td-service.  Every request loads all defects, works on   *)
(* its copy, and writes all of them back one by one: of heads and SLA rows *)
(* the columns in which the copy differs from the row that is selected for *)
(* it, while history, evidence and duplicate edges only grow.              *)
(***************************************************************************)
EXTENDS Naturals, Sequences, FiniteSets

CONSTANTS
    Defects,      \* ids of one project
    Requests,     \* HTTP requests; the name is also its Idempotency-Key
    Actors,
    Histories,    \* sequences of actions that defects have behind them at first
    Contested,    \* the actions requests ask for
    None

ASSUME NamesAssumption ==
    /\ None \notin Defects \cup Requests \cup Actors
    /\ Actors # {}

VARIABLES
    db,           \* the tables, by defect
    records,      \* idempotency_records
    req,          \* where each request is, and what it asks for
    image,        \* the aggregates in the unit of work of each request
    writes        \* what the commit of each request has done to each defect

vars == <<db, records, req, image, writes>>

-----------------------------------------------------------------------------
(* The aggregate *)

Statuses == {"new", "assigned", "in_progress", "fixed", "pending_verification",
             "closed", "reopened", "rejected", "duplicate"}

(* From which status an action leads to which.                             *)
Move ==
    [assign |-> [from |-> {"new", "reopened"}, to |-> "assigned"],
     start |-> [from |-> {"assigned"}, to |-> "in_progress"],
     reject |-> [from |-> {"new"}, to |-> "rejected"],
     mark_fixed |-> [from |-> {"in_progress"}, to |-> "fixed"],
     submit_verification |-> [from |-> {"fixed"}, to |-> "pending_verification"],
     verify_close |-> [from |-> {"pending_verification"}, to |-> "closed"],
     verify_fail |-> [from |-> {"pending_verification"}, to |-> "reopened"],
     manual_reopen |-> [from |-> {"closed"}, to |-> "reopened"],
     mark_duplicate |-> [from |-> {"new", "assigned", "in_progress"}, to |-> "duplicate"]]

Actions == DOMAIN Move \cup {"create", "patch"}

Entry == [action: Actions, actor: Actors, from: Statuses, to: Statuses]

Check == [key: Requests \cup {None}, conclusion: {"passed", "failed"}]

Defect == [status: Statuses \cup {"absent"}, version: Nat, fixVersion: BOOLEAN,
           history: Seq(Entry), fixes: Seq(Requests \cup {None}), checks: Seq(Check),
           master: Defects \cup {None}, responded: BOOLEAN, resolved: BOOLEAN]

Absent == [status |-> "absent", version |-> 0, fixVersion |-> FALSE, history |-> <<>>,
           fixes |-> <<>>, checks |-> <<>>, master |-> None,
           responded |-> FALSE, resolved |-> FALSE]

CreatedUnversioned == [Absent EXCEPT !.status = "new"]   \* mutated: versions start at zero

Created == [Absent EXCEPT !.status = "new", !.version = 1]

(* What is asked for; a defect that is to be created has no id yet.        *)
Ask == [action: Actions, defect: Defects \cup {None}, master: Defects \cup {None}, actor: Actors]

Record == [key: Requests, ask: Ask]

(* Defect._record                                                          *)
Recorded(x, action, actor, to) ==
    [x EXCEPT !.status = to, !.version = @ + 1,
              !.history = Append(@, [action |-> action, actor |-> actor,
                                     from |-> x.status, to |-> to])]

Concluded(x, key, conclusion) ==
    [x EXCEPT !.checks = Append(@, [key |-> key, conclusion |-> conclusion])]

(* What an action leaves behind besides the status.                        *)
Evidenced(x, action, key, master) ==
    CASE action = "start" -> [x EXCEPT !.responded = TRUE]
      [] action = "mark_fixed" -> [x EXCEPT !.fixVersion = TRUE, !.fixes = Append(@, key)]
      [] action = "verify_close" -> [Concluded(x, key, "passed") EXCEPT !.resolved = TRUE]
      [] action = "verify_fail" -> Concluded(x, key, "failed")
      [] action = "mark_duplicate" -> [x EXCEPT !.master = master]
      [] OTHER -> x

Permitted(x, action) ==
    /\ x.status \in Move[action].from
    /\ action = "submit_verification" => x.fixVersion /\ x.fixes # <<>>

Transitioned(x, action, actor, key, master) ==
    Recorded(Evidenced(x, action, key, master), action, actor, Move[action].to)

Patched(x, actor) == Recorded(x, "patch", actor, x.status)

(* Every action of a history starts where the one before it leads; a mark  *)
(* as duplicate is left to the requests, which name the master.            *)
ASSUME HistoriesAssumption ==
    /\ Histories \subseteq Seq(DOMAIN Move \ {"mark_duplicate"})
    /\ \A h \in Histories : \A n \in 1..Len(h) :
          (IF n = 1 THEN "new" ELSE Move[h[n - 1]].to) \in Move[h[n]].from

(* A defect to which the actions of h have been applied one by one.        *)
Replayed(h) ==
    LET x[n \in 0..Len(h)] ==
            IF n = 0 THEN Created
            ELSE Transitioned(x[n - 1], h[n], CHOOSE a \in Actors : TRUE, None, None)
    IN  x[Len(h)]

-----------------------------------------------------------------------------

Tables == [Defects -> Defect]

NoImage == [d \in Defects |-> Absent]

Request == [pc: {"idle", "parts", "heads", "save", "done"},
            key: Requests \cup {None}, ask: Ask \cup {None}, on: Defects \cup {None},
            answer: {"none", "ok", "replayed", "refused"}]

Idle == [pc |-> "idle", key |-> None, ask |-> None, on |-> None, answer |-> "none"]

(* The columns of a defect's own row and of its SLA row.                   *)
HeadColumns == {"status", "version", "fixVersion"}

SlaColumns == {"responded", "resolved"}

(* The columns to be updated; flushed: the statements are sent.            *)
Write == [flushed: BOOLEAN, head: SUBSET HeadColumns, sla: SUBSET SlaColumns]

NoWrites == [d \in Defects |-> None]

(* Every variable has its type, and every defect there is has a version    *)
(* that an If-Match can name.                                              *)
TypeOK ==
    /\ db \in Tables
    /\ \A d \in Defects : db[d].status = "absent" <=> db[d].version = 0
    /\ records \subseteq Record
    /\ req \in [Requests -> Request]
    /\ image \in [Requests -> Tables]
    /\ writes \in [Requests -> [Defects -> Write \cup {None}]]

Init ==
    /\ db \in [Defects -> {Absent} \cup {Replayed(h) : h \in Histories}]
    /\ records = {}
    /\ req = [r \in Requests |-> Idle]
    /\ image = [r \in Requests |-> NoImage]
    /\ writes = [r \in Requests |-> NoWrites]

Goto(r, pc) == req' = [req EXCEPT ![r].pc = pc]

Finish(r, answer) == req' = [req EXCEPT ![r].pc = "done", ![r].answer = answer]

Fail(r) ==
    /\ Finish(r, "refused")
    /\ image' = [image EXCEPT ![r] = NoImage]
    /\ writes' = [writes EXCEPT ![r] = NoWrites]

-----------------------------------------------------------------------------
(* A client sends a new command, or one whose key it has used before. *)

Sent == {r \in Requests : req[r].pc # "idle"}

Submit(r) ==
    /\ req[r].pc = "idle"
    /\ \E key \in Sent \cup {r}, ask \in Ask :
          /\ ask.action \in Contested
          /\ (ask.action = "mark_duplicate") <=> (ask.master # None)
          /\ (ask.action = "create") <=> (ask.defect = None)
          /\ key # r => ask.actor = req[key].ask.actor
          /\ req' = [req EXCEPT ![r] = [Idle EXCEPT !.pc = "parts", !.key = key, !.ask = ask,
                                                !.on = ask.defect]]
    /\ UNCHANGED <<db, records, image, writes>>

(* The unit of work reads edges, history, evidence and SLA first ...       *)
LoadParts(r) ==
    /\ req[r].pc = "parts"
    /\ image' = [image EXCEPT ![r] = db]
    /\ Goto(r, "heads")
    /\ UNCHANGED <<db, records, writes>>

(* ... and the heads last; each statement sees what is committed by then.  *)
Loaded(r) ==
    [d \in Defects |->
        [db[d] EXCEPT !.history = image[r][d].history, !.fixes = image[r][d].fixes,
                      !.checks = image[r][d].checks, !.master = image[r][d].master,
                      !.responded = image[r][d].responded, !.resolved = image[r][d].resolved]]

(* What a defect leads to along the stored duplicate edges, itself first.  *)
Chain(d) ==
    {e \in Defects : \A S \in SUBSET Defects :
        d \in S /\ (\A f \in S : db[f].master \in S \cup {None}) => e \in S}

EdgeAllowed(d, master) == d \notin Chain(master)

Stored(r) == {rec \in records : rec.key = req[r].key /\ rec.ask.actor = req[r].ask.actor}

Change(r, d, y) ==
    /\ image' = [image EXCEPT ![r] = [Loaded(r) EXCEPT ![d] = y]]
    /\ req' = [req EXCEPT ![r].pc = "save", ![r].on = d]

(* The id is new, also to the requests that are creating another defect.   *)
Create(r) ==
    /\ req[r].ask.action = "create"
    /\ \E d \in Defects :
          /\ db[d].status = "absent"
          /\ \A q \in Requests : req[q].pc = "save" => req[q].on # d
          /\ Change(r, d, Created)

Patch(r, x) ==
    /\ req[r].ask.action = "patch" /\ x.status # "absent"
    /\ Change(r, req[r].on, Patched(x, req[r].ask.actor))

Transition(r, x) ==
    LET ask == req[r].ask IN
    /\ ask.action \in DOMAIN Move /\ x.status # "absent"
    /\ Permitted(x, ask.action)
    /\ ask.master # None =>
         Loaded(r)[ask.master].status # "absent" /\ EdgeAllowed(ask.defect, ask.master)
    /\ Change(r, ask.defect, Transitioned(x, ask.action, ask.actor, req[r].key, ask.master))

(* The handler: replay or refuse a known key (a patch has none), else work *)
(* on the copy.  If-Match, where it fits, names the version just loaded.   *)
Handle(r) ==
    LET known == req[r].ask.action # "patch" /\ Stored(r) # {}
        x == Loaded(r)[req[r].on]
    IN
    /\ req[r].pc = "heads"
    /\ \/ /\ known
          /\ Finish(r, IF \E rec \in Stored(r) : rec.ask = req[r].ask THEN "replayed" ELSE "refused")
          /\ image' = [image EXCEPT ![r] = NoImage]
       \/ /\ ~known
          /\ Create(r) \/ Patch(r, x) \/ Transition(r, x)
    /\ UNCHANGED <<db, records, writes>>

-----------------------------------------------------------------------------
(* SqlAlchemyUnitOfWork.commit: _save_defect for one defect after another *)

AgreeOnLengthOnly(s, t) == TRUE   \* mutated: rows that exist are skipped unread

(* Rows that exist must be the ones the copy holds.                        *)
Agree(s, t) == \A n \in DOMAIN s \cap DOMAIN t : s[n] = t[n]

(* Only the rows of t that s does not have are inserted.                   *)
Grown(s, t) == IF Len(t) > Len(s) THEN t ELSE s

EvidenceAfterFirst(s, t) == IF Len(t) > Len(s) + 1 THEN t ELSE s   \* mutated: enumerate from 0

Evidence(s, t) == Grown(s, t)

(* What becomes of the rows x of a defect, given the copy y and the        *)
(* columns to be updated.                                                  *)
Saved(x, y, columns) ==
    [k \in DOMAIN y |->
        CASE k = "history" -> Grown(x.history, y.history)
          [] k = "fixes" -> Evidence(x.fixes, y.fixes)
          [] k = "checks" -> Evidence(x.checks, y.checks)
          [] k = "master" -> IF x.master = None THEN y.master ELSE x.master
          [] OTHER -> IF k \in columns THEN y[k] ELSE x[k]]

AppendOnly(x, y) == Agree(x.history, y.history) /\ Agree(x.fixes, y.fixes) /\ Agree(x.checks, y.checks)

Acceptable(r, d) ==
    LET x == db[d]  y == image[r][d] IN
    /\ AppendOnly(x, y)
    /\ x.master = None /\ y.master # None => EdgeAllowed(d, y.master)

(* Rows are inserted behind the head.                                      *)
Appends(r, d) ==
    LET x == db[d]  y == image[r][d] IN
    \/ Len(y.history) > Len(x.history) \/ Len(y.fixes) > Len(x.fixes)
    \/ Len(y.checks) > Len(x.checks) \/ (x.master = None /\ y.master # None)

Flushed(r, d) == writes[r][d] # None /\ writes[r][d].flushed

(* A row that another transaction has updated is waited for, and a key     *)
(* that it has inserted.                                                   *)
RowsFree(r, d) ==
    \A q \in Requests \ {r} : Flushed(q, d) =>
        /\ writes[q][d].head = {} \/ writes[r][d].head = {}
        /\ ~(Appends(q, d) /\ Appends(r, d))

Differing(columns, x, y) == {k \in columns : y[k] # x[k]}

Copied(r) == {d \in Defects : image[r][d].status # "absent"}

(* session.get finds the row as it is committed by now.                    *)
Select(r) ==
    /\ req[r].pc = "save"
    /\ \A d \in Defects : writes[r][d] # None => Flushed(r, d)
    /\ \E d \in Copied(r) :
          /\ writes[r][d] = None
          /\ writes' = [writes EXCEPT ![r][d] =
                 [flushed |-> FALSE, head |-> Differing(HeadColumns, db[d], image[r][d]), sla |-> {}]]
    /\ UNCHANGED <<db, records, req, image>>

(* The head is updated, the rows behind it are compared and inserted, and  *)
(* the SLA row is selected.                                                *)
Flush(r) ==
    /\ req[r].pc = "save"
    /\ \E d \in Copied(r) :
          /\ writes[r][d] # None /\ ~Flushed(r, d) /\ RowsFree(r, d)
          /\ \/ /\ Acceptable(r, d)
                /\ writes' = [writes EXCEPT ![r][d] =
                       [@ EXCEPT !.flushed = TRUE, !.sla = Differing(SlaColumns, db[d], image[r][d])]]
                /\ UNCHANGED <<req, image>>
             \/ ~Acceptable(r, d) /\ Fail(r)
    /\ UNCHANGED <<db, records>>

Commit(r) ==
    /\ req[r].pc = "save" /\ \A d \in Copied(r) : Flushed(r, d)
    /\ db' = [d \in Defects |->
                 IF d \in Copied(r) THEN Saved(db[d], image[r][d], writes[r][d].head \cup writes[r][d].sla)
                 ELSE db[d]]
    /\ records' = IF req[r].ask.action = "patch" \/ Stored(r) # {} THEN records
                  ELSE records \cup {[key |-> req[r].key, ask |-> req[r].ask]}
    /\ Finish(r, "ok")
    /\ writes' = [writes EXCEPT ![r] = NoWrites]
    /\ UNCHANGED image

(* An If-Match that does not fit, an action that is not allowed, a payload *)
(* that lacks something, a deadlock, the loss of the worker.               *)
Abort(r) ==
    /\ req[r].pc \in {"heads", "save"} /\ Fail(r)
    /\ UNCHANGED <<db, records>>

Next ==
    \E r \in Requests :
        Submit(r) \/ LoadParts(r) \/ Handle(r) \/ Select(r) \/ Flush(r) \/ Commit(r) \/ Abort(r)

Spec == Init /\ [][Next]_vars

-----------------------------------------------------------------------------
(* Properties *)

IsStart(s, t) == Len(s) <= Len(t) /\ \A n \in DOMAIN s : s[n] = t[n]

(* What a request was answered to have done is in the history for good,    *)
(* after exactly the entries it worked on: of two requests that met the    *)
(* same version only one is answered, unless they did the very same.       *)
AnsweredInHistory ==
    \A r \in Requests : req[r].answer = "ok" =>
        IsStart(image[r][req[r].on].history, db[req[r].on].history)

(* However old the head that is written back: what led to its status is in *)
(* the append-only tables, a fix before it is verified, a passed check     *)
(* before it is closed, an edge before it is a duplicate.                  *)
EvidenceBehindStatus ==
    \A d \in Defects :
        LET x == db[d] IN
        /\ x.status \in {"fixed", "pending_verification", "closed"} => x.fixes # <<>>
        /\ x.status = "closed" => \E n \in DOMAIN x.checks : x.checks[n].conclusion = "passed"
        /\ x.status = "duplicate" => x.master # None

(* "TD cannot enter fixed or pending_verification without fix version and  *)
(* evidence" (the product requirements).  The code lets a head come from   *)
(* two writers: the status from one and the fix version from another.      *)
FixVersionBehindStatus ==
    \A d \in Defects : db[d].status \in {"fixed", "pending_verification"} => db[d].fixVersion

=============================================================================
