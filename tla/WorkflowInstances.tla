------------------------- MODULE WorkflowInstances -------------------------
(***************************************************************************)
(* The template versions and instances of workflow-service.  A request     *)
(* works on a copy, checks If-Match against the copy, selects the row once *)
(* more and updates the columns in which the copy differs from it.         *)
(***************************************************************************)
EXTENDS Naturals, FiniteSets

CONSTANTS
    Instances,
    Requests,     \* HTTP requests
    Keys,         \* pairs of an actor and an Idempotency-Key
    Versions,     \* what an If-Match may name
    Moves,        \* the transitions of the template: action, from, to
    Initial,      \* its initial state
    Terminal,     \* its terminal states
    Past,         \* sets of moves that instances have behind them at first
    None

VARIABLES
    template,     \* workflow_template_versions: the one version, None before it is created
    row,          \* workflow_instances
    history,      \* workflow_transitions, by instance
    commands,     \* workflow_commands
    req

vars == <<template, row, history, commands, req>>

-----------------------------------------------------------------------------

Template == [status: {"draft", "published", "deprecated"}]

Published == [status |-> "published"]

States == {Initial} \cup {m.from : m \in Moves} \cup {m.to : m \in Moves}

Row == [state: States, status: {"active", "completed", "canceled"}, version: Nat]

Entry == [by: Requests \cup {None}, move: Moves]

TemplateKinds == {"create", "publish", "deprecate"}

Ask == [kind: TemplateKinds, on: {None}]
       \cup [kind: {"start"}, key: Keys]
       \cup [kind: {"transition"}, key: Keys, on: Instances,
             action: {m.action : m \in Moves}, version: Versions]

(* base is the row as selected before it is saved, copy what is saved.     *)
Request == [pc: {"idle", "check", "act", "save", "flush", "commit", "done"},
            ask: Ask \cup {None}, on: Instances \cup {None}, seen: Row \cup {None},
            entry: Entry \cup {None},
            copy: Row \cup Template \cup {None},
            base: Row \cup Template \cup {None},
            answer: {"none", "ok", "replayed", "refused"}]

Idle == [pc |-> "idle", ask |-> None, on |-> None, seen |-> None, entry |-> None,
         copy |-> None, base |-> None, answer |-> "none"]

Command == [key: Keys, ask: Ask, on: Instances, by: Requests]

ASSUME NoneAssumption ==
    None \notin Instances \cup Requests \cup Row \cup Template \cup Ask \cup Entry

OfTemplate(r) == req[r].ask.kind \in TemplateKinds

(* Every variable has its type.                                            *)
TypeOK ==
    /\ template \in Template \cup {None}
    /\ row \in [Instances -> Row \cup {None}]
    /\ history \in [Instances -> SUBSET Entry]
    /\ commands \subseteq Command
    /\ req \in [Requests -> Request]

Ends(moves, s) ==
    /\ s = Initial \/ \E m \in moves : m.to = s
    /\ ~\E m \in moves : m.from = s

EndedIn(moves) == CHOOSE s \in States : Ends(moves, s)

(* Moves that follow each other from the initial state, up to some end.    *)
ASSUME PastAssumption ==
    \A past \in Past :
        /\ past \subseteq Moves /\ IsFiniteSet(past)
        /\ \A m \in past : m.from = Initial \/ \E n \in past : n.to = m.from
        /\ \E s \in States : Ends(past, s)

StatusAsState(state, status) ==   \* mutated: an end is taken for a status
    IF state \notin Terminal THEN status ELSE state

StatusIn(state, status) ==
    IF state \notin Terminal THEN status
    ELSE IF state = "closed" THEN "completed" ELSE "canceled"

Init ==
    /\ template \in {None, Published}
    /\ \E past \in [Instances -> Past \cup {None}] :
          /\ row = [i \in Instances |->
                       IF past[i] = None THEN None
                       ELSE [state |-> EndedIn(past[i]),
                             status |-> StatusIn(EndedIn(past[i]), "active"),
                             version |-> Cardinality(past[i]) + 1]]
          /\ history = [i \in Instances |->
                           {[by |-> None, move |-> m] : m \in IF past[i] = None THEN {} ELSE past[i]}]
          /\ template = None => past = [i \in Instances |-> None]
    /\ commands = {}
    /\ req = [r \in Requests |-> Idle]

Answer(r, answer) == req' = [req EXCEPT ![r] = [@ EXCEPT !.pc = "done", !.answer = answer]]

-----------------------------------------------------------------------------

(* The handler is entered; a transition selects its instance.              *)
Submit(r) ==
    /\ req[r].pc = "idle"
    /\ \E ask \in Ask :
          \/ /\ ask.kind = "transition" /\ row[ask.on] # None
             /\ req' = [req EXCEPT ![r] = [Idle EXCEPT !.pc = "check", !.ask = ask, !.on = ask.on,
                                                       !.seen = row[ask.on]]]
          \/ /\ ask.kind # "transition"
             /\ req' = [req EXCEPT ![r] = [Idle EXCEPT !.pc = "check", !.ask = ask]]
    /\ UNCHANGED <<template, row, history, commands>>

(* The command is looked up: the stored one is answered with its instance. *)
Check(r) ==
    LET known == {c \in commands : c.key = req[r].ask.key} IN
    /\ req[r].pc = "check" /\ ~OfTemplate(r)
    /\ \/ /\ known = {}
          /\ req' = [req EXCEPT ![r].pc = "act"]
       \/ \E c \in known :
             IF c.ask = req[r].ask
             THEN req' = [req EXCEPT ![r] = [@ EXCEPT !.pc = "done", !.answer = "replayed", !.on = c.on]]
             ELSE Answer(r, "refused")
    /\ UNCHANGED <<template, row, history, commands>>

(* WorkflowInstance.transition on the copy.                                *)
CandidatesAnywhere(r) ==   \* mutated: the action is looked up without the state
    {m \in Moves : m.action = req[r].ask.action}

Candidates(r) ==
    {m \in Moves : m.action = req[r].ask.action /\ m.from = req[r].seen.state}

Moved(x, m) == [state |-> m.to, status |-> StatusIn(m.to, x.status), version |-> x.version + 1]

Transition(r) ==
    /\ req[r].pc = "act" /\ req[r].ask.kind = "transition"
    /\ req[r].seen.version = req[r].ask.version
    /\ \E m \in Candidates(r) :
          req' = [req EXCEPT ![r] = [@ EXCEPT !.pc = "save", !.copy = Moved(req[r].seen, m),
                                              !.entry = [by |-> r, move |-> m]]]
    /\ UNCHANGED <<template, row, history, commands>>

Start(r) ==
    /\ req[r].pc = "act" /\ req[r].ask.kind = "start"
    /\ template = Published
    /\ \E i \in Instances :
          /\ row[i] = None /\ \A q \in Requests : req[q].pc # "done" => req[q].on # i
          /\ req' = [req EXCEPT ![r] = [@ EXCEPT !.pc = "save", !.on = i,
                        !.copy = [state |-> Initial, status |-> "active", version |-> 1]]]
    /\ UNCHANGED <<template, row, history, commands>>

(* create_template, publish_template, deprecate_template                   *)
TemplateMove == [create |-> [from |-> None, to |-> [status |-> "draft"]],
                 publish |-> [from |-> [status |-> "draft"], to |-> Published],
                 deprecate |-> [from |-> Published, to |-> [status |-> "deprecated"]]]

ChangeTemplate(r) ==
    /\ req[r].pc = "check" /\ OfTemplate(r)
    /\ template = TemplateMove[req[r].ask.kind].from
    /\ req' = [req EXCEPT ![r] = [@ EXCEPT !.pc = "save",
                                           !.copy = TemplateMove[req[r].ask.kind].to]]
    /\ UNCHANGED <<template, row, history, commands>>

(* A version that does not fit, no such move, no published template, ...   *)
Refuse(r) ==
    /\ req[r].pc \in {"check", "act", "save", "flush", "commit"}
    /\ Answer(r, "refused")
    /\ UNCHANGED <<template, row, history, commands>>

-----------------------------------------------------------------------------
(* save_instance, save_template and the commit *)

Stored(r) == IF OfTemplate(r) THEN template ELSE row[req[r].on]

(* The row is selected once more.                                          *)
Save(r) ==
    /\ req[r].pc = "save"
    /\ req' = [req EXCEPT ![r] = [@ EXCEPT !.pc = "flush", !.base = Stored(r)]]
    /\ UNCHANGED <<template, row, history, commands>>

SameRow(q, r) == OfTemplate(q) = OfTemplate(r) /\ req[q].on = req[r].on

(* A row that is to be updated is waited for while another one holds it.   *)
Flush(r) ==
    /\ req[r].pc = "flush"
    /\ req[r].base # None /\ req[r].base # req[r].copy =>
         \A q \in Requests \ {r} : req[q].pc = "commit" => ~SameRow(q, r)
    /\ req' = [req EXCEPT ![r].pc = "commit"]
    /\ UNCHANGED <<template, row, history, commands>>

(* Only the columns that differ from the row selected are updated.         *)
Merged(now, base, copy) ==
    IF base = None THEN copy
    ELSE [c \in DOMAIN copy |-> IF copy[c] # base[c] THEN copy[c] ELSE now[c]]

KeyUncontested(r) == TRUE   \* mutated: workflow_commands has no primary key

KeyFree(r) == \A c \in commands : c.key # req[r].ask.key

CommitInstance(r) ==
    /\ req[r].pc = "commit" /\ ~OfTemplate(r)
    /\ KeyFree(r)
    /\ LET i == req[r].on IN
       /\ row' = [row EXCEPT ![i] = Merged(@, req[r].base, req[r].copy)]
       /\ history' = [history EXCEPT ![i] = @ \cup ({req[r].entry} \ {None})]
       /\ commands' = commands \cup {[key |-> req[r].ask.key, ask |-> req[r].ask, on |-> i, by |-> r]}
    /\ Answer(r, "ok")
    /\ UNCHANGED template

CommitTemplate(r) ==
    /\ req[r].pc = "commit" /\ OfTemplate(r)
    /\ req[r].base = None => template = None
    /\ template' = Merged(template, req[r].base, req[r].copy)
    /\ Answer(r, "ok")
    /\ UNCHANGED <<row, history, commands>>

Next ==
    \E r \in Requests :
        \/ Submit(r) \/ Check(r) \/ Transition(r) \/ Start(r) \/ ChangeTemplate(r)
        \/ Save(r) \/ Flush(r) \/ CommitInstance(r) \/ CommitTemplate(r) \/ Refuse(r)

Spec == Init /\ [][Next]_vars

-----------------------------------------------------------------------------
(* Properties *)

(* A key takes effect once: requests that repeat it, at the same time or   *)
(* after the instance has moved on, are all answered with one instance,    *)
(* which at most one of them has started or moved.                         *)
KeyTakesEffectOnce ==
    \A q, r \in Requests :
        /\ req[q].answer \in {"ok", "replayed"} /\ req[r].answer \in {"ok", "replayed"}
        /\ ~OfTemplate(q) /\ ~OfTemplate(r) /\ req[q].ask.key = req[r].ask.key
        => /\ req[q].ask = req[r].ask /\ req[q].on = req[r].on
           /\ q # r => "ok" \notin {req[q].answer} \cap {req[r].answer}

(* However requests overtake each other, the state of an instance is one   *)
(* that a recorded move has led to, and every recorded move starts where   *)
(* another one has led; a version, too, counts recorded moves only.        *)
StatesAreReached ==
    \A i \in Instances : row[i] # None =>
        LET reached == {Initial} \cup {e.move.to : e \in history[i]} IN
        /\ row[i].state \in reached
        /\ \A e \in history[i] : e.move.from \in reached
        /\ row[i].version <= Cardinality(history[i]) + 1

=============================================================================
