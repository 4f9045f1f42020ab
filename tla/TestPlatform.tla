---------------------------- MODULE TestPlatform ----------------------------
(***************************************************************************)
(* tp-service: folders, cases and their versions, design sessions with     *)
(* stage runs and gates, plans with their scope, executions with their     *)
(* attempts, ingested results.  Each request loads all of them and writes  *)
(* all of them back: heads with what the copy holds, while versions, runs, *)
(* gates, scope, attempts and results are only inserted.                   *)
(***************************************************************************)
EXTENDS Naturals, FiniteSets, Sequences

CONSTANTS
    Folders, Cases, Sessions, Plans, Executions,   \* ids
    Ingestions,   \* sources with their external run reference
    Items,        \* what an item of a plan's scope may say
    Version,      \* the case version an item names
    Scopes,       \* the lists of items that a plan may be frozen with
    Writers,      \* the requests that change something
    Keys,
    Seed,         \* the author of what is there at first
    Initially,    \* the aggregates there may be at first, by id
    None

Things == Folders \cup Cases \cup Sessions \cup Plans \cup Executions \cup Ingestions

VARIABLES
    db,           \* the tables, by aggregate
    records,      \* the idempotency keys recorded
    req           \* the requests in progress

platformVars == <<db, records, req>>

-----------------------------------------------------------------------------
(* The aggregates *)

Authors == Writers \cup {Seed}

(* _STAGE_FLOW, with a stage run to its end within one request.            *)
Flow == [analysis |-> [from |-> "draft", to |-> "analysis_review"],
         design |-> [from |-> "analysis_review", to |-> "design_review"],
         cases |-> [from |-> "design_review", to |-> "cases_review"]]

Stages == DOMAIN Flow

Statuses == {"active", "draft", "running", "ingested", "ready", "in_progress", "completed",
             "closed", "canceled"} \cup {Flow[stage].to : stage \in Stages}

(* ManagedPlan.transition                                                  *)
Lifecycle == {<<"ready", "in_progress">>, <<"in_progress", "completed">>, <<"completed", "closed">>}
             \cup ({"draft", "ready", "in_progress"} \X {"canceled"})

(* A child row: its sequence number or attempt in its table, who made it,  *)
(* and what it is about: the run of a gate, the case version of an         *)
(* attempt, all that a scope item says.                                    *)
Child == [table: {"versions", "gates", "scope", "attempts", "results"} \cup Stages,
          no: Nat, by: Authors \cup {None},
          of: Authors \cup Items \cup {Version[item] : item \in Items} \cup {None}]

(* ref: the parent of a folder, the current version of a case, the scope   *)
(* that a plan has the hash of, the plan of an execution.                  *)
Thing == [status: Statuses, version: Nat, ref: Things \cup Authors \cup Scopes \cup {None},
          rows: SUBSET Child]

ASSUME PlatformNames ==
    /\ None \notin Things \cup Writers \cup {Seed} \cup Thing \cup Scopes
    /\ Seed \notin Writers

(* ManagedPlan.freeze wants items; nothing keeps two from being equal or   *)
(* from naming one case version.                                           *)
ASSUME ItemsInScope == Scopes \subseteq Seq(Items) \ {<<>>}

(* Each kind has a table of its own.                                       *)
ASSUME KindsApart ==
    /\ Folders \cap (Cases \cup Sessions \cup Plans \cup Executions \cup Ingestions) = {}
    /\ Cases \cap (Sessions \cup Plans \cup Executions \cup Ingestions) = {}
    /\ Sessions \cap (Plans \cup Executions \cup Ingestions) = {}
    /\ Plans \cap (Executions \cup Ingestions) = {}
    /\ Executions \cap Ingestions = {}

New(status, ref) == [status |-> status, version |-> 1, ref |-> ref, rows |-> {}]

Moved(x, status, ref, rows) == [status |-> status, version |-> x.version + 1, ref |-> ref, rows |-> rows]

Of(x, table) == {w \in x.rows : w.table = table}

NextRow(x, table, r) ==
    [table |-> table, no |-> Cardinality(Of(x, table)) + 1, by |-> r, of |-> None]

(* A scope row has no id of its own: it is what it says.                   *)
Scope(items) ==
    {[table |-> "scope", no |-> n, by |-> None, of |-> items[n]] : n \in DOMAIN items}

(* The case versions that the rows of a scope name, each of them once.     *)
Named(rows) == {Version[w.of] : w \in rows}

Attempt(r, version) == [table |-> "attempts", no |-> 1, by |-> r, of |-> version]

(* The run that is last in the order of _load_sessions, by stage name.     *)
LastLoaded(x) ==
    LET named == [analysis |-> 100, cases |-> 200, design |-> 300]   \* under 100 attempts
        place(w) == named[w.table] + w.no
        runs == {w \in x.rows : w.table \in Stages}
    IN  CHOOSE w \in runs : \A v \in runs : place(v) <= place(w)

Tables == [Things -> Thing \cup {None}]

NoImage == [x \in Things |-> None]

(* image: the aggregates loaded, with the request's own change; base: what *)
(* the commit has selected of each row before setting its columns.         *)
Idle == [pc |-> "idle", key |-> None, image |-> NoImage, base |-> NoImage]

(* Versions of a case and runs of a stage are numbered from 1 without a    *)
(* gap or a double; a stage in review has a run.                           *)
Numbered(x) ==
    \A table \in Stages \cup {"versions"} :
        /\ {w.no : w \in Of(x, table)} = 1..Cardinality(Of(x, table))
        /\ table \in Stages /\ x.status = Flow[table].to => Of(x, table) # {}

(* An aggregate as earlier requests have left it, all of them Seed.        *)
ASSUME InitiallyWhole ==
    \A x \in Things : \A a \in Initially[x] \ {None} :
        /\ a \in Thing
        /\ x \in Cases \cup Sessions => IsFiniteSet(a.rows) /\ Numbered(a)
        /\ x \in Plans =>
             \/ a.status \in {"draft", "canceled"} /\ a.ref = None /\ a.rows = {}
             \/ a.status # "draft" /\ a.ref \in Scopes /\ a.rows = Scope(a.ref)
        /\ x \in Executions => a.ref \in Plans /\ (a.status = "running" => a.rows # {})

PlatformInit ==
    /\ db \in {f \in [Things -> UNION {Initially[x] : x \in Things}] :
                 \A x \in Things :
                    /\ f[x] \in Initially[x]
                    /\ x \in Executions /\ f[x] # None =>
                         /\ f[f[x].ref] # None /\ f[f[x].ref].rows # {}
                         /\ f[x].rows \in {{}, {Attempt(Seed, v) : v \in Named(f[f[x].ref].rows)}}}
    /\ records = {}
    /\ req = [r \in Writers |-> Idle]

-----------------------------------------------------------------------------
(* The unit of work is loaded: child rows first, then heads and keys.      *)

Enter(r) ==
    /\ req[r].pc = "idle"
    /\ \E key \in Keys :
          req' = [req EXCEPT ![r] = [Idle EXCEPT !.pc = "act", !.key = key, !.image = db]]
    /\ UNCHANGED <<db, records>>

Loaded(r) ==
    [x \in Things |->
        IF db[x] = None THEN None
        ELSE [db[x] EXCEPT !.rows = IF req[r].image[x] = None THEN {} ELSE req[r].image[x].rows]]

Done(r) == req' = [req EXCEPT ![r] = [Idle EXCEPT !.pc = "done"]]

(* The service has changed x into y; a key that is recorded is replayed.   *)
Change(r, x, y) ==
    /\ req[r].pc = "act" /\ req[r].key \notin records
    /\ req' = [req EXCEPT ![r] = [@ EXCEPT !.pc = "save", !.image = [Loaded(r) EXCEPT ![x] = y]]]
    /\ UNCHANGED <<db, records>>

(* An id from uuid4: no request uses it for another aggregate.             *)
Fresh(x) == db[x] = None /\ \A q \in Writers : req[q].image[x] = None

At(r, ids) == {x \in ids : Loaded(r)[x] # None}

CreateFolder(r) ==
    \E x \in Folders, parent \in At(r, Folders) \cup {None} :
        Fresh(x) /\ Change(r, x, New("active", parent))

(* folder_descendants: what has f above it in the copy.                    *)
Below(image, f) ==
    {x \in Folders : \A S \in SUBSET Folders :
        f \in S /\ (\A y \in Folders : image[y] # None /\ image[y].ref \in S => y \in S) => x \in S}

MoveFolder(r) ==
    \E x \in At(r, Folders), target \in At(r, Folders) \cup {None} :
        /\ target \notin Below(Loaded(r), x)
        /\ LET f == Loaded(r)[x] IN Change(r, x, Moved(f, f.status, target, f.rows))

CreateCase(r) ==
    \E x \in Cases : Fresh(x) /\ At(r, Folders) # {} /\ Change(r, x, New("draft", None))

PatchCase(r) ==
    \E x \in At(r, Cases), status \in {"draft", "active"} :
        LET c == Loaded(r)[x] IN Change(r, x, Moved(c, status, c.ref, c.rows))

CreateVersion(r) ==
    \E x \in At(r, Cases) :
        LET c == Loaded(r)[x] IN
        Change(r, x, Moved(c, "active", r, c.rows \cup {NextRow(c, "versions", r)}))

CreateSession(r) ==
    \E x \in Sessions : Fresh(x) /\ At(r, Folders) # {} /\ Change(r, x, New("draft", None))

RunStage(r) ==
    \E x \in At(r, Sessions), stage \in Stages :
        LET s == Loaded(r)[x] IN
        /\ s.status = Flow[stage].from
        /\ Change(r, x, Moved(s, Flow[stage].to, None, s.rows \cup {NextRow(s, stage, r)}))

(* Only the last run may be approved, while its stage is in review; the    *)
(* status stays.  A cases run would lead to ready_to_import: it never is   *)
(* the last one loaded, so that nothing is ever imported.                  *)
ReviewGate(r) ==
    \E x \in At(r, Sessions) :
        LET s == Loaded(r)[x] IN
        /\ \E w \in s.rows : w.table \in Stages
        /\ LET run == LastLoaded(s) IN
           /\ s.status = Flow[run.table].to /\ run.table # "cases"
           /\ Change(r, x, Moved(s, s.status, None,
                                 s.rows \cup {[NextRow(s, "gates", r) EXCEPT !.of = run.by]}))

CreatePlan(r) == \E x \in Plans : Fresh(x) /\ Change(r, x, New("draft", None))

(* The freeze endpoint and the transition of that name.                    *)
FreezePlan(r) ==
    \E x \in At(r, Plans), items \in Scopes :
        LET p == Loaded(r)[x] IN
        p.status = "draft" /\ Change(r, x, Moved(p, "ready", items, Scope(items)))

TransitionPlan(r) ==
    \E x \in At(r, Plans), edge \in Lifecycle :
        LET p == Loaded(r)[x] IN
        p.status = edge[1] /\ Change(r, x, Moved(p, edge[2], p.ref, p.rows))

CreateExecution(r) ==
    \E x \in Executions, p \in At(r, Plans) :
        /\ Fresh(x) /\ Loaded(r)[p].status = "ready"
        /\ Change(r, x, New("draft", p))

Startable(e, p) == e.status = "draft" /\ p.status = "ready" /\ p.rows # {}

(* TestExecution.start replaces the attempts the copy has by a dictionary  *)
(* with the case versions as its keys.                                     *)
StartExecution(r) ==
    \E x \in At(r, Executions) :
        LET e == Loaded(r)[x]  p == Loaded(r)[e.ref] IN
        /\ Startable(e, p)
        /\ Change(r, x, Moved(e, "running", e.ref, {Attempt(r, v) : v \in Named(p.rows)}))

Result(r) == [table |-> "results", no |-> 1, by |-> r, of |-> None]

(* A reference that is known, with the same payload, changes nothing.      *)
Ingest(r) ==
    \E x \in Ingestions :
        LET known == Loaded(r)[x] IN
        Change(r, x, IF known # None THEN known
                     ELSE [New("ingested", None) EXCEPT !.rows = {Result(r)}])

-----------------------------------------------------------------------------
(* SqlAlchemyUnitOfWork.commit *)

(* Each row is selected by its id.  The path of a folder is followed to    *)
(* its root: a cycle is followed until the worker is killed.               *)
Select(r) ==
    /\ req[r].pc = "save"
    /\ \A x \in Folders : req[r].image[x] # None =>
         req[r].image[x].ref \notin Below(req[r].image, x)
    /\ req' = [req EXCEPT ![r] = [@ EXCEPT !.pc = "flush", !.base = db]]
    /\ UNCHANGED <<db, records>>

Heads(x) == [x EXCEPT !.rows = {}]

Updates(r) ==
    {x \in Things : /\ req[r].base[x] # None /\ req[r].image[x] # None
                    /\ Heads(req[r].base[x]) # Heads(req[r].image[x])}

RowsOf(x) == IF x = None THEN {} ELSE x.rows

(* What is unique besides the id: a gate has nothing, an attempt's number  *)
(* counts per case version.                                                *)
SameKey(v, w) ==
    /\ v.table = w.table /\ v.no = w.no /\ v.table # "gates"
    /\ v.table = "attempts" => v.of = w.of

UniqueIdsOnly(s, t) == TRUE   \* mutated: unique constraints left out

Unique(s, t) == \A v \in s, w \in t : SameKey(v, w) => v = w

Added(r, x) == RowsOf(req[r].image[x]) \ RowsOf(db[x])

ScopeUnread(r, x) == TRUE   \* mutated: a scope that is there is left as it is

(* "Persisted plan scope is immutable": read once the head is flushed.     *)
ScopeAgrees(r, x) == RowsOf(db[x]) \in {{}, RowsOf(req[r].image[x])}

Insertable(r) ==
    /\ \A x \in Things : Unique(RowsOf(db[x]), RowsOf(req[r].image[x]))
    /\ \A x \in Plans : req[r].image[x] # None => ScopeAgrees(r, x)

(* Rows that another transaction has updated, rows it has inserted under   *)
(* the same unique columns, and its key are waited for.                    *)
Free(r) ==
    \A q \in Writers \ {r} : req[q].pc = "commit" =>
        /\ Updates(q) \cap Updates(r) = {}
        /\ \A x \in Things : \A v \in Added(q, x), w \in Added(r, x) : ~SameKey(v, w)
        /\ req[q].key # req[r].key

Flush(r) ==
    /\ req[r].pc = "flush" /\ Free(r) /\ Insertable(r)
    /\ req' = [req EXCEPT ![r].pc = "commit"]
    /\ UNCHANGED <<db, records>>

(* Columns that differ from what was selected are set, rows inserted.      *)
Written(now, base, copy) ==
    IF copy = None THEN now
    ELSE IF base = None THEN copy
    ELSE [c \in DOMAIN copy |->
            IF c = "rows" THEN now.rows \cup copy.rows
            ELSE IF copy[c] # base[c] THEN copy[c] ELSE now[c]]

Commit(r) ==
    /\ req[r].pc = "commit"
    /\ db' = [x \in Things |-> Written(db[x], req[r].base[x], req[r].image[x])]
    /\ records' = records \cup {req[r].key}
    /\ Done(r)

(* A replay, an If-Match or a payload that does not fit, a row that is     *)
(* there already, the loss of the worker.                                  *)
Refuse(r) ==
    /\ req[r].pc \in {"act", "save", "flush", "commit"}
    /\ Done(r)
    /\ UNCHANGED <<db, records>>

(* The routes, by what they are about.                                     *)
FolderRoutes(r) == CreateFolder(r) \/ MoveFolder(r)

SessionRoutes(r) == CreateSession(r) \/ RunStage(r) \/ ReviewGate(r)

CaseRoutes(r) == CreateCase(r) \/ PatchCase(r) \/ CreateVersion(r)

PlanRoutes(r) == CreatePlan(r) \/ FreezePlan(r)

PlanTransitionRoute(r) == TransitionPlan(r)

ExecutionRoutes(r) == CreateExecution(r) \/ StartExecution(r) \/ Ingest(r)

PlatformNext ==
    \E r \in Writers :
        \/ Enter(r)
        \/ FolderRoutes(r) \/ SessionRoutes(r) \/ CaseRoutes(r)
        \/ PlanRoutes(r) \/ PlanTransitionRoute(r) \/ ExecutionRoutes(r)
        \/ Select(r) \/ Flush(r) \/ Commit(r) \/ Refuse(r)

PlatformSpec == PlatformInit /\ [][PlatformNext]_platformVars

-----------------------------------------------------------------------------
(* Properties *)

(* However old the head that is written back: a plan past draft has the    *)
(* items its hash was made of, all of them, a draft has none, and a        *)
(* running execution has one first attempt for each case version that the  *)
(* scope of its plan names, however many of the items name it.             *)
ScopeIsFrozen ==
    /\ \A x \in Plans : db[x] # None =>
         /\ db[x].status = "draft" => db[x].rows = {} /\ db[x].ref = None
         /\ db[x].status \notin {"draft", "canceled"} =>
              db[x].ref \in Scopes /\ db[x].rows = Scope(db[x].ref)
    /\ \A x \in Executions : db[x] # None /\ db[x].status = "running" =>
         LET versions == Named(db[db[x].ref].rows) IN
         {w.of : w \in db[x].rows} = versions /\ Cardinality(db[x].rows) = Cardinality(versions)

(* Versions of a case and attempts of a stage, numbered by how many the    *)
(* copy has, are numbered from 1 without a gap or a double; and a stage    *)
(* that is in review has a run to review.                                  *)
NumbersDense == \A x \in Cases \cup Sessions : db[x] # None => Numbered(db[x])

(* What "the latest successful run" of the gate says: a session whose      *)
(* cases are in review has its run of the cases as the last one.           *)
LatestRunIsLast ==
    \A x \in Sessions : db[x] # None /\ db[x].status = "cases_review" =>
        LastLoaded(db[x]).table = "cases"

=============================================================================
