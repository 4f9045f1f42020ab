# A verification of devopsworkbuddy in TLA+

The repository is a platform of Python services (Flask, SQLAlchemy, PostgreSQL),
an API gateway and a Vue portal. This directory holds TLA+ modules of the parts
whose correctness depends on concurrency, retries and crashes, TLC configurations
that check them on small instances, and proofs, checked by TLAPS, that the most
important properties hold for every instance.

## The system

| component | state | operations | interacts with | what is hard |
|---|---|---|---|---|
| project-service, idempotency | `idempotency_records`, one advisory lock per (actor, operation, key) | `IdempotencyExecutor.execute` around every write | every use case of the service | repeated and parallel requests, lost answers, crashes between record and commit |
| project-service, Worklog | `worklogs` (append only), `tasks.status/actual_end_at` | record, correct, transition | task rows and day locks shared by requests | two sums read under two different locks, completion racing logging |
| project-service, members | `project_memberships`, `projects.owner_id/version` | add, change role, remove, transfer owner | roles authorize everything else | unlocked reads before locked writes, two tables that must agree, unique indexes |
| project-service, plans and tasks | `release_versions`, `iterations`, `project_counters`, `tasks` | create, transition (force), attach, move | foreign keys tie tasks to plans | the gate of a release against tasks that are attached or moved meanwhile |
| iam-service | `sessions` (current and previous refresh hash, status), `users` | login, refresh with rotation and reuse detection, logout | the gateway, on every 401 | read, check and write in three transactions; `merge` of stale rows |
| devops-api-gateway | flights of refreshes in memory, dashboard cache | proxy with one refresh and one repetition, session endpoints, dashboard fan-out | all services | coalescing threads with timeouts, shared results, one deadline for many sources |
| td-service | defects with history, evidence, SLA flags, duplicate edges | create, patch, nine named transitions | project membership | a unit of work that loads and writes back every row |
| requirement-service | requirements, revisions, review rounds, baselines, change requests | edit, transition, review, freeze, change | versions of project-service, by id | check of If-Match without a conditional write, write-back of loaded rows |
| tp-service | folders, cases and versions, design sessions with runs and gates, plans, executions, automation | stages and gates, import, freeze, execute, ingest, publish | requirements, by reference | order of runs after a reload, numbers from counts, once-only ingestion |
| workflow-service | template versions, instances with history, commands | start, transition, publish, deprecate | any business object | versions checked in memory only, replays of commands |
| notification-service | deliveries, preferences, consumed events | consume, read, read all, set preferences | events of other services | duplicates in parallel, write-back of every loaded row |
| audit-service | audit records, unique event ids | ingest, query | all services | duplicates in parallel |
| devops-portal | composables: page lists, dashboard, forms, session | load, poll, change scope, submit | the gateway | answers out of order, overlapping loads |
| platform-contracts, platform-deployment, scripts, docs | none | | | |

The services talk over HTTP through the gateway; each has a database of its own
and none calls another inside a transaction. Outbox rows are written and never
published by this code, so no messages are modelled.

### What would make each part correct

- **Idempotency**: a key has one effect, all its successful answers are equal and
  true, a key used for another body is refused, a failed attempt leaves no trace,
  and no key stays blocked.
- **Worklog**: at every commit the daily cap and the non-negative task total hold,
  nothing is dated after a completion, every row was legal when it became visible.
- **Members**: exactly one active owner, `owner_id` agrees, a user is a member
  once, the ownership moves only by hand-over, removal is final.
- **Plans**: one active iteration, numbers without gaps, no unforced release over
  unfinished tasks, no task for a closed plan.
- **Sessions and gateway**: a refresh token is used once, reuse ends the family, a
  revoked session stays revoked (it does not: see below), concurrent 401s refresh once, nobody waits for ever.
- **td-service**: what was answered stays in the history, every status has the
  evidence it needs, however old the head that is written back; a fix has a
  version (not always: see below).
- **requirement-service**: the content of a requirement is that of a revision (column
  by column it is, as a whole it is not: see below), revisions are numbered
  densely, an applied change has left its revision.
- **tp-service**: the scope of a frozen plan, its hash and the attempts of its
  execution are of one freezing; versions and stage runs are numbered densely;
  a stage advances through a gate of its latest run (it cannot: see below).
- **workflow-service**: a key takes effect once; the state of an instance and the
  start of every recorded move were reached by a recorded move.
- **notification and audit**: one delivery per event and recipient, one record per
  id, and no answer about one that is not there.
- **dashboard**: a user is answered with data of their own, in a scope this very
  request was allowed.

## Modules

| module | role |
|---|---|
| `Policies` | the role matrix of `collaboration/policies.py` |
| `TaskWorkflow` | the states and moves of a task, `tasks/workflow.py` |
| `OnceRegister` | abstract: a key is a register that is set once |
| `Idempotency` | `IdempotencyExecutor.execute` as steps of concurrent attempts |
| `WorklogBook` | abstract: legal rows are added one at a time, tasks move |
| `WorklogLedger` | `_append_worklog` and `transition_task` with their two kinds of locks |
| `Membership` | add, change role, remove, transfer |
| `ReleaseGate` | versions, iterations and the tasks attached to them |
| `SessionRefresh` | the session row of iam-service, and the calls and flights of the gateway over it |
| `Defects` | td-service: aggregates loaded in two reads, changed, all written back |
| `WorkflowInstances` | workflow-service: a template version, instances, commands |
| `Requirements` | requirement-service: requirements with revisions, rounds, baselines, changes |
| `TestPlatform` | tp-service: folders, cases, design sessions, plans, executions, ingestions |
| `EventIntake` | notification-service and audit-service, as receivers of events |
| `Dashboard` | gateway dashboard and the composable of the portal that asks for it |
| `MC...` | constants of the instances TLC checks |
| `...Proofs` | the theorems and their proofs |

### How state and actions correspond to the code

A request is one unit of work: one session, one READ COMMITTED transaction, one
`commit`. An action is what a request does between two points where it may wait
(a row lock, an advisory lock, a unique index) or where what it has read may go
stale. Reads see committed rows; what a request has written is kept in its
command and becomes visible in the action that commits. `EndTransaction` is
commit, rollback and the loss of a worker alike: PostgreSQL releases everything.
`Crash` can happen at any place. What an early return or an exception rejects is
an `EndTransaction` alternative of the same action.

- **Idempotency.** `Lock`, `Lookup`, `Insert`, `Handle`, `Complete`, `Commit` are the
  calls of `execute` (shared/idempotency.py:63-93) in order; `row` is the record
  a transaction has flushed and not committed. `Send` is a client, external to
  the repository's services, that sends any key and body, again or for the first
  time. Answers may be lost. The branch for a record that is still `processing`
  is modelled and no reachable state takes it: the record and its completion
  are committed together, which is what `TypeOK` states of `records`.
- **WorklogLedger.** `LockTask` covers the code from the task's FOR UPDATE to the call
  of `lock_worklog_scope`, `CheckSums` the two sums and the checks after it,
  `CommitWorklog` the insertion and commit. `taskSum` and `daySum` are the values of
  the two SUM queries; that they are the sums of the visible rows is checked
  (`ImplementsBook` uses the rows). Inputs are chosen where the code first looks
  at them. Minutes are scaled: the cap, 1440 in the code, is `DayLimit`.
  `transition_task` is `LockTransition`, `CommitTransition`. The clock ticks in days.
- **Membership.** The actor's membership is read without a lock (`Begin...`, in a transfer
  together with the project, two SELECTs without a lock) and not looked at again. `get_membership` finds a row whatever its status; that is
  modelled. `If-Match` is the version read under the lock: an outdated one is
  the rejecting alternative. `UpdateRoles` is the one UPDATE of both rows: the
  index is checked row by row in an order the code does not fix, so both
  outcomes are possible. `MaxVersion` bounds how often a row is changed.
- **ReleaseGate.** FOR UPDATE of a plan and FOR KEY SHARE of the foreign keys exclude
  each other. `NumberPlan` and `InsertPlan` are `next_counter` and the flush; a project
  has no counter row before its first plan. `CheckForeignKey` takes one plan at a
  time, as PostgreSQL does. `MoveTask` is the whole of `transition_task`.
- **All of project-service.** Of an aggregate that PostgreSQL has returned, ids are `UUID`
  objects, and `persistence/repositories.py` calls `UUID(...)` on some of them once
  more (:104 for a project, :458 for a task, :593 for audit and outbox rows, :735 in
  the columns of a task), which raises. The models do not look at the type of an id: `SaveProject`,
  `CommitWork`, `CommitTransition` and `MoveTask` may commit where the code always
  fails. Failing is among their alternatives too, so the models have every
  behaviour of the code and more, and what is safe in them is safe in the code,
  with these calls repaired or not.
- **SessionRefresh.** A call has two halves, because the gateway may give up
  (`urlopen` and followers wait 5 seconds) while IAM goes on: `call[c]` is the thread
  of the gateway, `iam[c]` the request it made. A call is a proxied request that
  met a 401 (`Lead` or `Follow`, by what `_flights` holds) or a direct refresh or logout
  (`Ask`); it may carry any token a browser has ever been given (`Issued`), for
  requests overtake each other. IAM works in separate transactions: find
  (`FindTo...`), then `RevokeFamily`, or `Load` and `Flush`, the two statements of
  `merge`. What was read first is `image`, what `merge` selected is `loaded`, and only
  columns in which they differ are written. `Publish`, `Raise`, `Pop` are the
  leader's `try` and `finally`. A token stands for its hash; the pair is its refresh
  token. `users` is left out but for `UserInactive`; `expires_at` is left out because
  no code reads it. A call without a refresh cookie changes nothing and is left out.

The services below share a shape: a unit of work loads rows, the service changes
the copies, `commit` selects each row again by its id and sets every column, of
which SQLAlchemy writes those that differ from what was selected. Hence the
steps: load, act on the copy, `Save` (select; `Select` in td- and tp-service), `Flush` (write; waits for rows and
unique columns of uncommitted transactions), `Commit`. `Merged`, `Updated`, `Written` and
the columns `Differing` are the UPDATE of the columns that differ: what two requests
changed in different columns of a row mixes, and the models keep as many columns
as a property tells apart. gunicorn runs two workers, so two requests
overlap. An If-Match is checked against the copy just loaded; a client may
name any version, so a request whose If-Match does not fit is one that ends in
`Refuse` or `Abort`, together with every rejected payload and every lost worker.

- **Defects.** `LoadParts` and `Handle` are the two reads of `_load`: edges, history,
  evidence and SLA first, heads last. `_save_defect` is two steps for each defect: `Select`
  is `session.get` of the head, and notes the columns in which the copy differs;
  `Flush` is their UPDATE, which waits for the row, and all that follows: the edge, the
  comparisons with the rows that exist (`Acceptable`, `Agree`) and the selection of the
  SLA row. `writes[r][d]` holds these columns until `Commit` writes them and only them
  (`Saved`), with history and evidence by sequence number and an edge only once.
  Status, version, fix version and the SLA flags are columns of their own.
  Defects are saved in any order. A key is sent once or again.
- **WorkflowInstances.** A request carries a key of its actor and any If-Match.
  `Check` looks the command up, `Transition` and `Start` work on the copy, `CommitInstance`
  inserts the command under its primary key. The instance uses the built-in
  template with its seven moves.
- **Requirements.** `Enter` loads all items, requirements are selected when needed. The
  content is a function of `Columns` (title, description and so on); a patch or a change
  names some of them, and what it writes there has its name. `Save` selects the row
  again and `MergedRow` updates the columns that differ from it, each column of the
  content by itself. `Create` and `ApplyFields` insert a revision, the whole content,
  with a unique number. The evidence of a lifecycle move is what the
  client says it is, so the move is free; `baselined` is only seeded.
- **TestPlatform.** A row is told apart by its table, its number, the request that
  wrote it and what it says; `SameKey` is what the tables keep unique besides an id. A
  scope is a list of items (`Scopes`), each naming a case version (`Version`), and nothing
  keeps two of them from naming the same one (execution.py:43, persistence.py:148);
  a start makes one attempt for each version named (`Named`, domain.py:324), so two
  items of one version share it. Of the hash of a scope the model keeps what it was
  made of: all items, in their order. `Enter` reads the child rows, `Loaded` the heads; heads are written back,
  child rows only inserted, with their unique constraints (`Unique`) and the
  comparison of the persisted scope (`ScopeAgrees`). A stage runs to its end within
  its request. `LastLoaded` is the order `_load_sessions` gives the runs. Ids of cases,
  plans and the like are made by the service (`Fresh`: no request holds one yet); an
  ingestion is named by what the client sends. `Initially` gives what earlier
  requests, all of them `Seed`, may have left of each aggregate.
- **EventIntake.** Two services, one module: both meet events posted at least once.
  `Load` to `CommitDeliveries` is the unit of work of notification-service with its
  version check (`NotNewer`) and unique key (`Duplicates`); `Select`, `Append`,
  `CommitFact` are audit-service; `Abandon` is a rollback or a lost worker in either.
  The sender of events is outside the repository.
- **Dashboard.** `Send`, `Arrive`, `Lose` are the composable of a tab, the rest `build`
  of the gateway over the same class of flights as in `SessionRefresh`: `LeadBuild` and
  `JoinBuild` by what `inFlight` holds for the key, `RaiseBuild` when the leader fails,
  `ReplyBuild` to the tab. `view[v]` is one call of `build`. `Grant` is IAM, changing
  permissions at any time. A result is an object with a name (the call that made it),
  since callers with one key share it and write into it (`Meta`).

## Runs

| run | instance | shows |
|---|---|---|
| `idempotency` | 3 attempts, 1 key, 2 bodies, 2 resources | `ImplementsOnce`: the executor is the register; `AtMostOnce`, `AnswersAgree`, `EveryAttemptEnds` |
| `worklog_ledger` | 2 requests, 2 tasks, 1 user, 2 days, cap 1, 3 rows | `ImplementsBook`: every commit is one legal step; both limits, completion dates, `EveryRequestEnds` |
| `membership` | 2 requests, 2 users, 3 rows, versions to 3 | one owner, the snapshot, one membership each, the hand-over, `EveryRequestEnds` |
| `release_gate` | 2 requests, 1 version, 2 iterations, 1 task | one active iteration, dense numbers, no unforced release over a task to be started |
| `session_refresh` | 1 session, 3 calls, 2 processes | flights end and mix no tokens, one exchange per token and process, revocation has a cause, `EveryCallEnds` |
| `defects` | 2 requests, 2 defects, 2 actors, 5 actions; defects new, in progress or awaiting verification | answers stay in the history, statuses have their evidence |
| `workflow` | 3 requests, 1 instance, 2 keys, versions to 3 | a key takes effect once, states are reached by recorded moves |
| `requirements` | 3 requests, 2 columns, one of each item | every column is of some revision, applied changes leave theirs |
| `test_platform` | 2 requests, 2 keys, 2 folders, one of each other thing; scopes of one item, or of three that name two case versions | frozen scopes, dense numbers |
| `test_platform_gate` | as `test_platform` | ends in a violation: the run to be gated is not the last one loaded |
| `event_intake` | 4 requests, 2 notices in 2 categories, 1 fact | each event once, true answers |
| `portal_dashboard` | 2 calls, 2 users, 2 domains, cache on | own data, in an allowed scope |

Three more configurations end in a counterexample within seconds or a minute. Each checks
one sentence of the code or its documents that the code does not keep; the
divergences below tell the stories.

| configuration | instance | property, and what it is violated by |
|---|---|---|
| `SessionRefreshRevoked.cfg` of `MCSessionRefresh` | 1 session, 2 calls, 1 process | `RevokedIsFinal`: a refresh makes a logged-out session active |
| `DefectsFixVersion.cfg` of `MCDefects` | 3 requests, 2 defects in progress, 2 actions | `FixVersionBehindStatus`: a defect awaits verification without a fix version |
| `RequirementsContent.cfg` of `MCRequirements` | 3 requests, 2 columns, 1 requirement | `ContentIsCaptured`: no revision has the content |

**Bounds.** Two requests are the smallest number that interleave, and every
property relates at most two of them and what they committed; `idempotency`
has three attempts, so that one can run, one wait and one come late. Two tasks
and one user are needed for two appends that share a day lock and no row lock.
A cap of 1 makes every append meet it; three rows allow log, correct and log
again. Three membership rows are a creator, a second user and that user's second
term. Two iterations compete for the active slot, and one plan of each kind can
be attached to one task together. Two columns are enough for a content to be torn, and a scope of three items
has both two that name one case version and two that do not. Three calls are a leader, a follower and a late
or direct one, in one process or two; each may come with any token, the ones
the others have obtained included. One session is enough for the runs because
the tokens of a session are already distinct; the theorems cover several.
For the write-back services, two requests are one that holds an old copy and one
that overtakes it; three, where the instance is small enough to allow it, add a
second overtaking or a write-back over a write-back. The initial states are ones
the services have committed, each place in the life cycles from which the
contested steps start. Four requests post one notice twice while a third reads
it and a fourth changes the setting. Two calls are a leader and a follower, or
one that fills the cache and one that finds it.
The proofs do without these bounds.

**Fairness.** `FairSpec` says that a worker that can run does (`WF` of `Proceed`), which
is what threads of a server do, and that a lock queue of PostgreSQL is first come,
first served, so that a request that can take a lock again and again does (`SF`
of the actions that wait). Clients owe nothing: no fairness for `Send`, `Submit...`
and `Begin...`, nor for `Crash`. `ReleaseGate` has no liveness property: a request that
waits FOR UPDATE of a plan may be overtaken for ever by others that share its key.
In `SessionRefresh` only `Gateway(c)` is fair: a thread that can run does, and every wait
of the gateway ends at a deadline. Of IAM nothing is assumed: it may never
answer, and the calls end all the same. The six modules of the write-back services
and the dashboard state no fairness: their hazards are about what is left in the
tables, and whether a request ends depends only on PostgreSQL. Deadlock is
checked in the first four runs; in `SessionRefresh` and those six a request or
call happens once, and the system stops when all of them have.

## Proofs

| theorem | statement |
|---|---|
| `IdempotencyProofs`: `TypeCorrect`, `WrittenOnce`, `AnswersTrue` | `Spec => []TypeOK`, `[]AtMostOnce`, `[]AnswersAgree` |
| `IdempotencyProofs`: `Implements` | `Spec => ImplementsOnce`, the refinement of `OnceRegister` |
| `WorklogLedgerProofs`: `TypeCorrect`, `DailyLimitHolds`, `TaskTotalHolds`, `CompletionDateHolds` | `Spec => []TypeOK`, `[]DailyLimit`, `[]TaskTotalNonNegative`, `[]NoWorkAfterCompletion` |
| `WorklogLedgerProofs`: `Implements` | `Spec => ImplementsBook`, the refinement of `WorklogBook` |
| `MembershipProofs`: `TypeCorrect`, `OneOwner`, `OwnerSnapshot`, `OneMembershipEach` | `Spec => []TypeOK`, `[]ExactlyOneOwner`, `[]OwnerSnapshotAgrees`, `[]OneActiveMembership` |
| `MembershipProofs`: `HandOver` | `Spec => OwnershipHandedOver` |
| `SessionRefreshProofs`: `TypeCorrect`, `OneFlightCorrect`, `AnswersOwnTokenCorrect` | `Spec => []TypeOK`, `[]OneFlight`, `[]AnswersOwnToken` |
| `SessionRefreshProofs`: `ExchangedOnceCorrect`, `RevokedForCauseCorrect` | `Spec => []ExchangedOnce`, `[]RevokedForCause` |
| `ReleaseGateProofs`: `TypeCorrect`, `OneActive`, `NumbersAreDense` | `Spec => []TypeOK`, `[]OneActiveIteration`, `[]NumbersDense` |
| `ReleaseGateProofs`: `ReleaseGateHolds` | `Spec => ReleaseLeavesNoTodo`, an action property |
| `WorkflowInstancesProofs`: `TypeCorrect`, `KeyTakesEffect`, `Reachability` | `Spec => []TypeOK`, `[]KeyTakesEffectOnce`, `[]StatesAreReached` |
| `RequirementsProofs`: `TypeCorrect`, `EachColumnFrozen`, `AppliedLeaves` | `Spec => []TypeOK`, `[]ContentIsFrozen`, `[]AppliedLeavesRevision` |
| `MembershipProofs`: `ScopeFrozen`, `NumbersDenseCorrect` | `PlatformSpec => []ScopeIsFrozen`, `[]NumbersDense` of `TestPlatform` |
| `IdempotencyProofs`: `IntakeOnce` | `IntakeSpec => []EachEventOnce` of `EventIntake` |
| `SessionRefreshProofs`: `OwnScopeCorrect` | `DashboardSpec => []AnswersOwnScope` of `Dashboard` |
| `DefectsProofs`: `TypeCorrect`, `Answered`, `Evident` | `Spec => []TypeOK`, `[]AnsweredInHistory`, `[]EvidenceBehindStatus` |

Three proof modules treat two components each that share no state: a component and
one that resembles it (once-only writes: `Idempotency` and `EventIntake`; shared
flights: `SessionRefresh` and `Dashboard`; unlocked reads before writes: `Membership`
and `TestPlatform`). The second of each pair has the name of its component in
the names of its specification (`IntakeSpec`, `DashboardSpec`, `PlatformSpec`).

The theorems hold for every number of requests, users, tasks, plans, rows, keys,
sessions, calls, processes, instances, requirements, defects, notices, events,
cases, executions and domains; the only assumptions are the
named ones in the modules, which TLC evaluates in the runs. Most say that names are
distinct: a lock nobody holds is no request, the ids of two tables differ, `None` is
no row. Some say where the system may start: what an instance of a workflow or a
defect has behind it when the model begins is a legal history (`PastAssumption`: each
move starts where another has led; `HistoriesAssumption`: each action starts in the
status the one before it left; `InitiallyWhole`: a plan of tp-service that is frozen
has the scope of its freezing and an execution the attempts of that scope, numbers
are dense, as the service's own steps leave them). `KindsApart` says that the tables
of tp-service have ids of their own, `ItemsInScope` that a plan is frozen with a list of
items that is not empty. The rest are about size: bounds are numbers, there
are users, tasks and actors, the ids of review rounds are finitely many.

None of the properties is inductive as it stands. Each proof strengthens it by
what a request knows at the place where it is:

- **Ledger**: a request between the task lock and its commit holds the task's row, and
  after the second lock the day's too; hence the sums it checked are still the
  sums when it commits, and the status it checked is still the task's. Two
  holders of one lock are one request.
- **Membership**: a request that will write a row holds its lock, and the row still
  looks as it read it; a transfer that passed its UPDATE holds both rows. The
  current owner of a transfer is the owner as long as its row has the version
  the transfer read: versions only grow, and every change of role counts one up.
- **Idempotency**: an attempt past `Lock` holds its key's lock; an attempt with a row
  in flight found no record, and there is none until it commits; effects and
  completed records are the same set.
- **SessionRefresh**, in layers that each use those before. `GatewayInv`: the table of
  flights and the leading calls name each other, and a flight delivers what its
  leader obtained to calls that came with its token. `OwnInv`: a request at IAM
  acts on the session its token was issued for, and a row holds only tokens of
  its own. `CauseInv`: unless someone logs out, a token that has become `previous`
  was exchanged by a call, so the one that presents it now is the second; and
  an exchanged token is never `current` again. `OnceInv`: hence once a flight of a
  process has obtained a pair for a token, no other leader of the process is
  about to, for it would have to find the token current. `Progress` collects what
  no step ever undoes.

- **The book**, on top of the ledger's invariant: the two sums are those of the rows
  (`SumsTrue`), ids count rows, only a completed task has a completion date, and
  what a request knows of its row or its move is what `WorklogBook` asks for at
  the commit. That a new row adds its minutes to the sum of a set is proved for the
  fold of the library itself: its recursion has a solution (`SolutionExists`), any
  two agree (`SolutionsAgree`), and the order of taking rows does not matter
  (`SumWithout`).
- **ReleaseGate**: FOR UPDATE of a plan and FOR KEY SHARE of it exclude each other, so a
  task is attached before the gate is read or after the commit (`GateHeld`,
  `LocksExclude`). A counter that has a row is held from its reading to the commit,
  and is one past the numbers given, each given once; hence they are 1..n.
- **WorkflowInstances**: what any copy holds, however old, was reached by moves that
  are recorded or by the one that will be recorded with it (`SeenReached`,
  `CopyReached`); histories and commands only grow, and the primary key of the
  commands admits one per key.
- **Requirements**: every column of a copy, of the row selected before an update, and of
  the row itself is one that some revision froze (`Kept`, `Captured`), and an update of
  the columns that differ takes each from one of these. It may take them from
  different revisions, which is why the theorem speaks of columns. A number is
  inserted once (the unique constraint, and the wait for uncommitted rows:
  `NumbersHeld`) and follows one that is there. A change that is applied in any copy
  has left a revision with all it proposed (`Has`, `Left`: the revision froze them
  together), or leaves it with the commit of that copy (`ChangesFit`).
- **Defects**: the tables behind a head only grow, so the evidence of a head that was
  read before is in the copy or in the tables when it is written back (`Behind`). A
  status is one column, whoever writes it, and the rows it rests on are never
  deleted, so that mixing columns does no harm to `EvidenceBehindStatus`; the fix
  version is another column, and the property leaves it out. Of a defect that is
  not stored yet all columns are written (`WritesFit`). Two requests never insert
  rows behind one head at a time (`OneWriter`), so what was compared at the flush
  holds at the commit (`RowsHeld`). That a legal history of any length
  leaves its evidence behind (`ReplayedHolds`) goes through the recursion of
  `Replayed`.

- **TestPlatform**: a copy may have rows older than its head, for the rows are read
  first. What holds of every copy all the same (`CopyOK`): a plan's head and scope are of
  one freezing (`Frozen`), or its copy has no scope and the tables have one, which
  `ScopeAgrees` refuses at the flush once the scope is there; an execution's attempts
  are one for each case version its plan's scope names (`Attempted`), all of one
  request, so two starts write rows with the same versions and numbers and the
  unique constraint lets one of them in; all rows of a numbered
  table but the last are in the tables (`AtMostLastNew`), so a copy adds one row, and
  that one with the next number or with one that is taken. An aggregate that is
  not stored yet is held by its maker alone (`MadeAlone`). What was compared at the
  flush holds until the commit, against the tables (`FlushHolds`) and against whatever
  else is flushed (`FlushedApart`): two that hold a scope of one plan hold the same.
  That the first attempts are as many as the versions named is `AttemptsCounted`.
- **EventIntake**: each table and each copy has one row of a notice, and the rows one
  request has made are of one notice (`RowsUnique`). The unique columns of what two
  requests have flushed differ (`FlushHolds`, for facts `FactsApart`), so the second
  commit adds no double. What a sender will be told is there is in the copy that
  is about to be committed, or in the tables, from which nothing is deleted
  (`AnswerBacked`).
- **Dashboard**: the user and scope of a call are decided once and then stay (`Keyed`), and
  every flight, result and cache entry is of the key it is filed under, whoever
  made it (`Served`, `DeliversTo`). While domains are collected, those shown, those
  degraded and those still open are apart (`Collected`).

Induction over data, needed for sums and histories, is done by least counterexample
(`Least`): a statement about numbers or finite sets that fails, fails for a smallest
one. The general induction theorems take an operator as a parameter, which the
installed provers cannot instantiate.

Every invariant and every action property that a run checks is thus stated by a
theorem. Only model-checked: the liveness properties `EveryAttemptEnds`,
`EveryRequestEnds` (of two modules) and `EveryCallEnds`; they rest on fairness and so
on ENABLED, which is out of the prover's reach. That `LatestRunIsLast`, `RevokedIsFinal`,
`FixVersionBehindStatus` and `ContentIsCaptured` fail is shown by their counterexamples.

## Where the code and its documents disagree

The run `test_platform_gate` shows one: the runs of a session are loaded in the order of
their stage names (tp-service repository.py:431), so the run of the cases stage is
never the last one, its gate is always refused (service.py:160), and nothing can
be imported, though service.py:156 promises a "gate to the latest successful run".

Others were met while modelling; those with a configuration of their own name it.
In project-service, IAM and the gateway:

- A transfer of the ownership is one UPDATE of two rows under a unique index that is
  checked row by row: in one order of the rows it fails and is answered 500
  (collaboration/service.py:121; the comment above it says one statement avoids
  that). `UpdateRoles` has both outcomes.
- A removed membership can be changed and removed again (collaboration/service.py:99);
  the PRD (:147) calls removal final.
- A task whose plan was read as open can be attached after the plan was closed
  (tasks/service.py:197); the PRD (:94) says closed plans accept no task.
- A version is released without force over tasks that are done and not closed
  (repositories.py:450); the architecture (:299) wants closed or canceled.
- A refresh that read its session before a logout writes it back as active (IAM
  auth/repository.py:115), with the pair the refresh obtained; the foundation PRD
  (:174) says a final state stays. `SessionRefreshRevoked.cfg` has the ten steps.
  `ExchangedOnce` and `RevokedForCause` say nothing of it.
- Several calls of `UUID(...)` on ids that are `UUID` objects (see the correspondence
  above) make commands of project-service fail on PostgreSQL.
- The architecture (2.2) locks the project and both memberships in a transfer and
  the project on activation of an iteration; the code locks the new owner's
  row only, and relies on versions and indexes. The properties hold all the same.
- The architecture (9.3) checks access before a replay; the code replays first, so a
  member who was removed still gets the stored answer of an old key.
- The first two plans of a kind created at the same time collide on the counter's
  primary key, and one request is answered 500. Nothing is lost, `NumbersDense` holds.
- The foundation PRD (:69, :341) lets concurrent 401s cause one refresh and an old
  token die at once. Flights are in the memory of a process, the gateway runs two
  (`--workers=2`), and the refresh of IAM is not locked: two processes can both be
  answered with a pair for one token, and one of the pairs is dead. `ExchangedOnce`
  states what holds, one pair per process. It exempts sessions somebody logs out
  of, because the `merge` of a logout can write an older hash back.
- In deployment the workers of gunicorn are of its default kind, one request at a
  time; calls of one process meet in a flight only when it runs threads, as the
  class and its tests expect. The model has the threads.
- `SessionStatus.EXPIRED` (auth/models.py:17) is never set, and no code compares
  `expires_at` or `idle_expires_at` with the clock: a refresh token does not expire.
- A refresh of a disabled user revokes the session in memory and does not save it
  (auth/service.py:82): the row stays active.
- The gateway joins `X-Platform-Permissions` with blanks (gateway/app.py:247); the
  workflow service splits at commas and the audit service at blanks.

In td-service:

- A defect is marked as fixed; a request that loaded it before writes its old status
  and its empty fix version back; a third one, which submits the fixed defect and
  selected the row in between, updates the status and the version only: the defect
  is pending verification without a fix version (repository.py:332). The
  requirements of the increment (docs/superpowers/specs/2026-08-03-requirement-tp-td-increment-prd.md:381)
  and domain.py:180 ask for both. `DefectsFixVersion.cfg` has the behaviour.
- A stale write-back turns the head of a defect back to an older status while its
  history keeps the later entries (repository.py:482); the architecture of the
  increment (:17, :276) has one current status behind the history.
- Two defects marked as duplicates of each other at the same time make a cycle: each
  edge is checked against committed edges only.
- Two parallel creates with one key make two defects. `SlaSnapshot.evaluate` is never
  called, and a reopened defect keeps its resolution time.

In workflow-service:

- Two transitions with one If-Match can both succeed, the version can fall back, and
  an instance can be canceled by its status and in progress by its state.
- Parallel creates of a template turn a published one into a draft; parallel uses of
  a key end in a violation of the primary key, answered 500.
- An instance reopened from closed keeps the status completed.

In requirement-service:

- A baseline can be activated twice (service.py:503 says exactly once), an applied
  change written back as approved and applied again, a decision lost, and two rounds
  get one number.
- A transition with a stale copy sets content and revision number back; every later
  patch then fails on the unique revision number.
- It sets back only the columns that differ from the row it selects just before the
  update: with a patch committed before that and another one after it, the title
  is of one revision and the description of another (repository.py:94), and the row
  is what no revision froze, though domain.py:111 says its content is captured in
  revisions. `RequirementsContent.cfg` has the behaviour.
- `base_revision_id` of a change is not compared when it is applied.

In tp-service:

- Scope items that name one case version share one attempt: `start` keys the runs by
  version (domain.py:324), and freezing accepts such items (execution.py:43).
- The design stage may start without the gate of the analysis (domain.py:137).
- Two folders moved under each other at once make a cycle, and `_save_library` follows
  it for ever, in every later command of the service.
- The fingerprints of freeze, patch, version, transition and start leave out the id
  of the resource: one key used for two resources replays the first answer.
- An execution written back as draft can never be started again: its attempts exist.
  The status of a plan can fall back. Two parallel uses of a key both take effect
  when only one of them finds it.
- In JUnit files a failure element without children is false in Python, so a failed
  test with a text only is ingested as passed (execution.py:297).
- Case numbers are counts plus one and collide; no endpoint records the result of
  an attempt.

In the event services and the dashboard:

- VERSION_CONFLICT is a RuntimeError nobody catches (500), and two changes of one
  version both pass: the last one wins.
- The activity block expects an object from audit-service, which answers a list, so
  it always falls back to notifications.
- A follower that waits 5 seconds puts an empty result into the cache; `took_ms`,
  `trace_id` and `scope_requested` of a shared result may be another caller's
  (portal_dashboard.py:388; `AnswersOwnScope` is about the data and the scope in force); the global deadline
  does not bound the answer, for the pool is waited for.
- A poll answered late moves a tab back to the scope it had left.

## Plan

Done: all modules above with their runs, and a proof of every safety property they
check. Left, in this order:

1. The lists of the portal, with answers that arrive out of order.
2. `Membership` composed with `WorklogLedger`: what a member who is being removed may
   still write.

## Not modelled

HTTP parsing, cursors, read-only queries, rendering, cryptography of tokens,
deployment, contracts and scripts: no state of their own or no control worth a
model. The text of names, descriptions and reasons is left out everywhere: only
whether a reason is present matters, and a request without one is rejected.
Within the modelled services: the import and the environments of tp-service, its
automation assets, reports and traceability (unreachable, plain inserts, or
reads), the hierarchy of requirements (only checked, by their own copy), the
templates of notifications (stateless), the strict scope of the dashboard (off by
default, it refuses before anything is shared). Of the portal, the lists and forms
are not modelled yet.
