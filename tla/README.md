# A TLA+ model of the console control plane

This directory specifies the two gateways of the console (`src/cmd/outer`, `src/cmd/inner`), the jobs they hand each
other, the connection pool they share and the Kubernetes controller that runs in the inner gateway. The modules are
written from the Go code; a comment above each definition says what part of it the definition stands for, and
`PROJECT.json` gives the lines. TLC checks small instances; TLAPS proves most of the safety results for all of them.

To run a check: `tlc -config deploy_faults.cfg MCWorkerDeploy.tla`; to check the proofs: `tlapm WorkerDeployProofs.tla`.

## 1. The system

```
 browser ──HTTP──▶ outer gateway ──SQL──▶ Postgres (users, workers, versions, resources, domains)
                    │      │                 ▲
                    │      └─ DNS lookups    │ SQL
       POST /api/acceptTask                  │
                    ▼                        │
 cluster ──HTTP──▶ inner gateway: JobQueue (256) ──▶ 4 goroutines: job.Do()
                    │                                   │  SQL on CockroachDB (userDBManager)
                    │                                   │  WorkerApp CRs
                    └─ WorkerApp controller ◀── watch ── Kubernetes API server
                           └─ Deployment, Service, ConfigMap, Secret, IngressRoute
```

A request to the outer gateway changes rows in Postgres and posts a *task* to the inner gateway, which queues it in
memory and answers. One of four goroutines runs the task's job, which changes CockroachDB or Kubernetes and records the
outcome in Postgres. Nothing is retried, nothing in memory survives a restart, and no two of the stores are changed in
one transaction: most of what can go wrong is the order of these steps, and their failure one by one.

### Inventory

| Component | State | Operations | What is hard | What must hold |
|---|---|---|---|---|
| **Worker records and deployment** (`handlers/worker.handler.go`, `jobs/worker.jobs.go`, `dblayer/worker.actions.go`, CR functions of `k8s/controller/worker.controller.go`) | rows of `workers` and `worker_deploy_versions`, the WorkerApp CR with its resourceVersion | create, deploy, delete (handlers); deploy and delete-CR jobs | jobs of one worker in any order; CR and row written in two steps; lost posts; conflicts with the controller's status writes; restarts; configuration changes that write the same status; audits that delete CRs | rows tell the truth about the cluster; outcomes are decided, once; nothing stays loading |
| **Inner gateway process** (`cmd/inner/main.go`, `k8s/processor.go`, `k8s/cron.go`, `handlers/jobs.handler.go`) | queue, pool, tickers, progress of `main` | start, accept a task, run it, shut down | handlers blocked on a full channel; a channel that is closed; order of deferred calls | no send on a closed channel, no deadlock, a task runs at most once |
| **Connection pool** (`k8s/rdb.go`) | map and LRU list of `*sql.DB`, their RWMutex | `getOrCreateUserDB`, eviction, `closeAll` | check, unlock, ping, lock, use | map and list agree, no leak, the bound holds, what is returned is open |
| **User audit** (`jobs/auth.cron.go`) | sets of uids read page by page, lists of CRs and databases | load, list, create missing, drop orphans | it reads three stores one after the other and deletes by what it read | only orphans lose something; a complete audit repairs |
| **WorkerApp controller** (`k8s/controller`) | informer caches and notices, the objects in the cluster, the CR's phase | reconcile, `DeleteAll`, status writes | up to four concurrent reconciliations of one CR; lost watches; restarts; a failed reconciliation is not repeated | the cluster follows the CR; deleted objects come back; Running is true |
| **Combinator resources** (`handlers/combinator.handler.go`, `jobs/combinator.jobs.go`) | rows of `combinator_resources`, database and schemas in CockroachDB | create and delete rdb/kv, their jobs | create and delete jobs overlap; five statements on two connections | active means usable; deletion leaves nothing; creation is decided |
| **Worker env and secrets** (same files as workers) | `env_json`, `secrets_json`, ConfigMap, Secret | set, delete, sync jobs | read-modify-write without a transaction; old maps overtaking new ones; objects that only a deploy creates; restarts counted in whole seconds | no key lost, the cluster follows the row, no loading forgotten, pods run with what is configured |
| **Custom domains** (`k8s/customdomain.go`, `handlers/customdomain.handler.go`, `jobs/customdomain.jobs.go`) | rows of `custom_domains`, verification goroutines, ingress objects | add, verify (12 attempts), delete, check | a late answer of a loop whose row is gone; three objects whose creation nobody checks; a restart in the middle | a verdict belongs to its row and stands, routes are complete, deletion leaves nothing |
| **Users and codes** (`handlers/auth.handler.go`, `jobs/auth.jobs.go`) | rows of `users` and `verification_codes` | code, register, reset, register job | code read, used and marked in three steps; post failing after the insert; a database made in three statements | answers are true, a used code is spent, a registered user gets a database |
| **Job factory** (`jobs/basic.jobs.go`) | a table filled by `init` functions | decode | none: never written after start | not modelled |
| **CRD and client set-up** (`controller/crd.go`, `k8s/basic.go`) | one definition | create or update at start | none | not modelled |
| **Outer gateway process** (`cmd/outer/main.go`) | none of its own | routes, shutdown | restart | its restart is an action of WorkerDeploy, Accounts, WorkerConfig and CustomDomain |
| **Task log, schema, web client, manifests** | | | | not modelled: unused, declarative, or presentation |

The hazards — the lines where these difficulties bite and the properties aimed at them — are listed in `PROJECT.json`.

## 2. The modules

| Module | Role | Extends / instantiates |
|---|---|---|
| `DeployRecords` | abstract: what the API promises of workers and versions | |
| `WorkerDeploy` | handlers, queue, jobs and CRs of workers | implements `DeployRecords` |
| `TaskQueue` | abstract: what the inner gateway promises of tasks | |
| `InnerGateway` | `main`, accepting handlers, queue, pool, scheduler | implements `TaskQueue` |
| `UserDBPool` | the LRU pool of connections | |
| `UserAudit` | the audit against registrations and deploys | |
| `WorkerController` | informers, handlers, reconciliation | |
| `CombinatorResource` | rdb and kv resources | |
| `WorkerConfig` | env and secrets: rows, sync jobs, ConfigMap, Secret, restarts of pods | |
| `CustomDomain` | domains: rows, verification goroutines, routes, the domain check | |
| `Accounts` | codes, registrations and resets, the user's database | |
| `…Proofs` | theorems; `InnerGatewayProofs` has those of UserDBPool too, as its second part | the module (or both) and `TLAPS` |
| `MC…` | what TLC is given | the module of that name |

Common to all of them: one action is one access to something shared — a SQL statement or transaction, an API call, a
send or receive on the queue, a critical section under a lock — together with the local computation up to the next one.
A failed call is an alternative of the same action, guarded by membership of its kind in the constant `Faults`, so the
same specification describes the system with and without each fault. Operators introduced by "Mutant:" take no part in
any specification: each is a plausible bug, and the property it belongs to is known to notice it.

### WorkerDeploy and DeployRecords

A version number stands for the image and port of a deployment. `cr[w]` is the version whose image and port the CR
carries (0: no CR), `revision[w]` its resourceVersion.

* `DeployWorker` is the transaction `CreateDeployVersion` (worker loading, version inserted); `SendDeploy` posts the
  task. Both gateways serve this handler. There is no rollback after a failed post, so the version stays loading.
* `DeleteWorker` posts the deletion of the CR — without a look at the row — and `DeleteRow` then deletes the row and,
  by `ON DELETE CASCADE`, its versions.
* `StartJob` is the receive of `Processor.Start`. `DeployLoad`, `DeployGet`, `ApplyCR`, `DeployVersionSuccess`,
  `FailVersion`, `FailWorker` are the steps of `deployWorkerJob.Do`, with `CreateWorkerAppCR` as Get followed by Create
  or Update; the Update is refused when `revision` moved since the Get. `DeleteCR` is `deleteWorkerCRJob.Do`.
* `SetWorkerConfig` and `SendSync` are `SetWorkerEnv` and `SetWorkerSecrets` as far as deployments can tell: the UPDATE
  sets the worker loading, deployed or not, and a sync task is posted. `SyncConfig` and `SyncStatus` are the sync jobs,
  whose refused or accepted Update makes the worker error or active; any error of their Get, also of an object the
  controller has not created, ends them silently. At most `MaxChanges` such requests are made. `configured` is the set of
  workers whose status one of these wrote last.
* `AuditLoad`, `AuditList`, `AuditDelete` are the part of the user audit that deletes CRs. It is the first task whenever the
  inner gateway starts. `orphans` are the workers whose owner it does not know: of one who registered after the users
  were loaded, or whom a page that broke off did not show. `swept` is the set of workers whose CR it deleted and no
  deployment has written since.
* `UpdateStatus` is all the controller does here: it moves the resourceVersion. `InnerRestart` and `OuterRestart` drop
  what is in the memory of either process.

So that every writer of `workers.status` and everyone who deletes a CR is in this module; what the sync jobs do to
ConfigMap and Secret is in WorkerConfig, the audit's paging in UserAudit. The workers' remaining columns and the other specifications of the CR (owner, secondary id) are constant for a worker.

`DeployRecords` says what a user may read from the rows: an outcome is decided once, the active version changes only in
the step that records its success, no id is used again. The refinement mapping is
`worker <- WorkerRow` (unused, present, deleted), `active <- activeVersion`, `owner <- versionWorker`,
`outcome <- versionStatus`; every step of a job that touches no row is a stutter.

### InnerGateway and TaskQueue

`main` names the statement `main` runs next, deferred calls included in reverse order. A posted task is a handler
goroutine of its own, inside `Submit` until there is room; a *local* task is one that a `DeployWorker` request served by
this process posts to itself, so the server waits for both requests. `Exit` is the return of `main`: it waits for
nobody, and what is queued or running is gone. `runTicker` is not modelled because no behaviour reaches it: `cron.Start`
is called before the jobs are registered, so there are no tickers, and `RegisterJob` starts none.

`TaskQueue` is the life of a task: unknown, accepted, running, finished, or lost with the process. `TaskStatus` maps the
gateway to it: the place where a task is found decides its status.

### UserDBPool

One handle stands for the `*sql.DB`, its entry and its list element, which are created together. `Lookup` is the part
under `RLock`, `Ping` the check outside the lock, `Touch` the short critical section that moves the element, and
`Lock`, `Check`, `Evict`, `Connect` the critical section of the slow path, in pieces so that the callers waiting for the
lock are visible. A ping of an open handle may fail. The three connection attempts are one step: they run under the
lock, and only the last outcome matters. `closeAll` may come at any time, since `main` does not wait for the pool. The
names of its specification begin with `UserDB`, so that `InnerGatewayProofs` can extend both modules of the process.

### UserAudit

A uid stands for the user, the database `db_<uid>` and the user's CRs. Uids are numbers because paging depends only on
their order (`ORDER BY uid`). `LoadPage` is one turn of `loadAllUserUIDs` against the table as it is then; `ListCRs`, `ListDBs`
are the lists (no database at all gives a nil list, which the code takes for a failed one); `InitMissing`, `DropWorkers`, `DropDatabase` are one turn of each loop, in any order (the code ranges over
maps and lists in no order anyone relies on). `Orphans` are uids whose row was removed by hand, which no code path does:
they are what the audit is for. Registrations, their jobs and deploys run at any time in between.

### WorkerController

One CR name. Each of four informers runs its handlers on one goroutine (`work`), so an event of the CR and the deletions
of a Deployment, a Service and an IngressRoute are handled at the same time. `watch` holds changes the CR's informer has
not stored, `notices` what its handlers still have to see; the deletion of an object is a counter per informer.
`GetObject`/`PutObject` are the two calls of an `Ensure…` function: Deployment and IngressRoute are updated when they
exist (only the route's Update carries a resourceVersion), ConfigMap, Secret and Service are left alone. An error sets
the phase to Failed and ends the reconciliation. `DeleteNext` is one deletion of `DeleteAll`. `Relist` is what an
informer does after a broken watch; a deletion it missed arrives as `DeletedFinalStateUnknown`, which the handlers'
type assertions drop. `Restart` ends everything and starts with the lists of the informers. The periodic resync is left
out: `onUpdate` returns at once because the generation is the same, and the other informers have no update handler that
reconciles (`onConfigUpdate` is in WorkerConfig).

### CombinatorResource

`row`, the user's `database` and the `schema` of each rdb. `InitDatabase` and `DropDatabase` are what the registration's
job and the audit do to the whole database: the audit initialises a missing one and drops that of a user it has not
loaded (`unknown`), with its schemas (`lost`); without it a CREATE SCHEMA or a GRANT fails, and no fault is needed for that.
`CreateResource` and `SendTask` are `CreateRDB`/`CreateKV`;
`DeleteResource`, `DeleteRow`, `SendTask` are `DeleteRDB`/`DeleteKV`. The job steps are the statements of `InitUserRDB`
and `CreateSchema` (schema, then grant), `Record` the status update, `DropSchema` and `NotifyPods` the deletion jobs. A
failed statement may have taken effect. Three history variables let properties say what they depend on: `acked`
(answered 200), `hasty` (deleted while loading), `disturbed` (the worst fault so far).

### WorkerConfig

One worker. A request stands for the value it sets and for the task it posts, so that a map tells who wrote each key.
`ReadRow`, `WriteRow`, `SendTask` are `SetWorkerEnv` and `SetWorkerSecrets`, which differ in what the task carries
(`TaskData`): the whole environment, or the one secret that changed. `SyncGet`, `SyncUpdate`, `SyncStatus` are the sync
jobs: any error of the Get ends the job without a word; the Update carries the resourceVersion of the Get; the status is
written last. `DeployWorker`, `WriteCR`, `DeployEnds` are a deploy as far as it writes the same status and creates the
CR. `EnsureObject` and `EnsureDeployment` are the controller, which creates an empty ConfigMap and Secret for a CR;
`RestartDeployment` is `onConfigUpdate`, which annotates the pod template with the second it runs in, and `StartPods` the
rollout. `wanted` is what the requests asked for, `crossed` and `early` what the properties except: parts changed by two
requests at once, and changes that found no object to update.

### CustomDomain

An id stands for a cdid with its token; a domain can be added again under a new id. `AddCustomDomain` inserts the row and
starts the goroutine of which `VerifyTXT` is one lookup, `Succeed` and `GiveUp` the write of the verdict, and
`CreateObject` each object of `CreateIngressRoute`. `DeleteRow` and `DeleteObject` are `DeleteCustomDomain`.
`ListAllSuccessDomains`, `CheckTXT`, `MarkError` are the domain check. `ChangeTXT` is the owner of the zone. `cluster`
says whether the process has Kubernetes clients: `cmd/outer`, which serves these routes, has none, and then creates and
deletes nothing; both cases are initial states. The sleep between the lookups has no counterpart, since steps may take
as long as they like.

### Accounts

A request stands for the password it carries. `CheckCode` reads a code that matches; `CreateUser` and
`UpdateUserPassword` write the row; `MarkCodeUsed` and `SendTask` follow, each with its failures. `GenerateUID` may draw
the same uid for two e-mails (letters of the address, or a word of a list, and random digits), and the table refuses the
second. `RegisterUserJob`
starts a call of `InitUserRDB`, whose three statements are steps of their own (`made[u]` is the set of parts there
are: the database, its user, the grant, which fails without the database). `LoadAllUserUIDs`, `ListDatabases`,
`CheckUserRDB`, `DropDatabase` are what the boot audit does to databases: it loads the users, lists the databases,
initialises what is missing and then drops what it takes for an orphan's — with CASCADE, but not the database's user.
Registrations and their jobs run in between, so it may drop what a job is making (`dropped`).
`InnerRestart` loses tasks and calls and starts that audit. Each request is made once: the constant bounds all there are.

## 3. The runs

| Run | Bounds | Distinct states | Checks |
|---|---|---|---|
| `deploy_faults` | 1 worker, 2 requests, 2 goroutines, 2 versions, 1 configuration change, queue 1, revisions ≤ 2, all faults | 2.3 M (symmetry) | OneJobPerVersion, ActiveIsSuccess, ActiveWorkerHasCR, ImplementsRecords |
| `deploy_outcome` | the same with revisions ≤ 1, faults send, api, outer | 960 k | NothingStuck, ErrorsExplained, AckedDeployResolves |
| `deploy_reorder` | no faults | violation | ClusterRunsActive |
| `gateway` | 2 remote and 1 local task, 2 goroutines, queue 1 | 1.8 k | NoSendOnClosed, ImplementsTaskQueue, RequestsAnswered, ShutdownEnds, AcceptedRuns |
| `pool` | 3 users, 2 callers, pool of 2, 4 handles | 90 k | MapAndListAgree, OpenExactlyPooled, CallReturns |
| `audit` | 3 uids, orphan 2, pages of 1, faults db, api, inner | 113 k | AuditRepairs, KnownUsersSpared |
| `audit_race` | 2 uids, pages of 1, no faults | violation | OwnersSpared |
| `controller` | 2 specs, 2 faults of any kind but recreate, or recreate alone | 5.1 M | TypeOK, ClusterFollowsCR, NothingLeft, Healed, RunningIsTrue |
| `resource` | 1 rdb, 1 kv, 2 requests, 2 goroutines, queue 1, all faults | 553 k | ActiveHasSchema, DeletedSchemaGone, AckedCreateResolves |
| `config` | 2 requests, 2 keys, 1 deploy, faults of one kind in a behaviour | 1.2 M | RowKept, ClusterFollowsRow, ActiveWasDeployed, StatusResolves, PodsFollow |
| `domain` | 1 domain, 2 rows, 2 lookups, 1 deletion at a time, all faults | 898 k | VerifiedWasProven, RouteIsComplete, DeletedLeavesNothing, VerdictStands, PendingResolves |
| `accounts` | 2 e-mails, 2 requests, 2 uids, 1 code, 1 restart, all faults but rdb | 498 k | PasswordHasCode, AnswersAreTrue, DatabasesAccounted, CodeSpent, DatabaseFollows |

The types of every module are proved (section 4) and therefore not among the runs' properties, but for the `TypeOK` of
WorkerController, which also says that whatever a handler reconciles is a spec the CR once had; so
is `VersionOutcomeFinal`, which `ImplementsRecords` contains, and `ErrorWasMissed`.

What they show:

* **deploy_faults.** However posts get lost, statements and API calls fail (or time out with effect) and gateways
  restart, a version has one task at most, its outcome is never revised, and `active_version_id` names a success of the
  same worker. An active worker has a CR unless its deletion was asked for or an audit that did not know its owner
  deleted the CR and no deployment has written one since: the second does happen (`audit_race`), and these are the only two.
* **deploy_outcome.** Where the job can write what it learned and the queue survives, no acknowledged version stays
  loading, no deployment leaves its worker loading or in error without a version that is loading or in error too, and no
  error is reported for the version that runs. A worker whose status a change of its environment or secrets, or its sync
  job, wrote last is excepted from what is said of workers: no version explains such a status. It may stay loading (before the
  first deploy it does, see `config`) or be in error because an Update was refused. `NothingStuck` and `ErrorsExplained` carry
  their condition (`JobsRecord`) in the formula, so that they can be read apart from the configuration. An acknowledged deploy is decided although posts, API calls and the outer gateway fail, and
  deletions and the audit take their places in queue and pool. *With* `"inner"` among the faults
  `AckedDeployResolves` fails: the queue is memory and nothing at start-up reads loading versions back.
* **gateway.** The shutdown order is right: `srv.Shutdown` waits for every handler before the deferred `proc.Close`, so no
  handler sends on a closed channel, and no cycle of waiting arises although handlers wait for the pool and local posts
  for handlers. Accepted tasks that are unfinished at exit are lost, as `TaskQueue` says.
* **pool.** The two critical sections keep map and list together although the first one acts on an entry looked up
  before; two callers that connect the same user leave no connection behind; the bound holds.
* **audit.** Whoever was a user when the audit began loses nothing, although rows move between pages; an audit in which
  nothing failed leaves no orphan with anything and every such user with a database, if there was any database at all.
* **controller.** Whenever nothing is left to handle, the Deployment and the route have the CR's spec and the phase is
  Running, also after restarts and broken watches; objects deleted by hand come back although the reconciliations
  collide; nothing of a deleted worker is left when nothing failed; Running is never said of an incomplete worker.
* **resource.** An active database has its schema under all faults and overlaps, unless an audit that did not know the
  user dropped it with the whole database; without faults a deletion of a decided database leaves none behind. An acknowledged creation is decided, also when the user's database goes under it, unless its
  status cannot be written or the inner gateway restarts.
* **config.** Requests that do not overlap never lose each other's keys, although each writes a whole map; when
  they have settled without faults after a deploy, the ConfigMap is what the row says and every secret in the cluster is
  listed in the row. No status stays loading and the pods run with the latest objects in the end, but for the exceptions
  the formulas name: a change before the first deploy never reaches the ConfigMap and stays loading, and of two updates
  within a second only the first restarts the pods. That a listed secret is *set* does not hold: the job replaces the whole
  Secret by the one key of its task, so that setting a second secret removes the first.
* **domain.** The late answer of a loop whose row is gone never reaches the row added after it; verdicts change only
  through a check that asked in vain or a deletion; a domain with a route has the other two objects; a deletion leaves nothing
  unless it overlapped its loop or a call failed; every domain is decided unless the outer gateway restarted, after which it
  stays pending and its name stays taken.
* **accounts.** However requests with one code overlap, one registration of an e-mail is told it succeeded and it is the
  one whose user exists; a marked code is not accepted again; passwords come from a code of that e-mail; a database that is
  made by half is being made, or a restart, a failed statement or an audit's drop explains it.
  `ResetPassword` answers 200 for an e-mail without a user, which is why `AnswersAreTrue` speaks of registrations. A
  registration that was answered 200 ends with a complete database although posts and restarts lose its task,
  because the boot audit makes up for it, when no statement fails and with the three exceptions `DatabaseFollows` names. A
  restart between the statements of `InitUserRDB` leaves a database the audit takes for complete (it compares names). A cluster without any
  database is not repaired. And an audit that loaded the users before this one registered drops the database, if its
  job had created it when the databases were listed: a GRANT that comes later fails, and nothing makes the database
  again before the next boot. The run fails when that last exception (`dropped`) is taken out, and
  `resource` fails without its counterpart there (`lost`).

### Findings

Each is a run in which TLC finds what a comment or a name in the code says refuted.

1. `deploy_reorder`: two deploys of one worker run on two goroutines. Job 1 writes its CR, job 2 replaces it and records
   success, job 1 records success: the cluster runs version 2, `active_version_id` is 1, for good
   (`jobs/worker.jobs.go:64`).
2. `audit_race`: users are loaded before CRs and databases are listed; a user who registers in between is taken for an
   orphan and loses the database (`auth.cron.go:41`).

Five more configurations show what other properties except, each violated at once; `PROJECT.json` does not list them
as runs, because the hazard they belong to is covered by a property that says what does hold:

* `deploy_orphan.cfg` (`DeletedHasNoCR`): a deletion job runs between a deploy job's load and its Create; the CR of a
  deleted worker stays (`worker.handler.go:59`).
* `pool_stale.cfg` (`ReturnsOpen`): a connection is evicted and closed between a caller's successful ping and its
  return (`rdb.go:78`).
* `audit_truncated.cfg` (`KnownUsersSpared`): `rows.Err` is never asked, so a page cut short by a broken connection ends
  the paging, and the users not read lose databases and workers (`dblayer/actions.go:97`).
* `audit_empty.cfg` (`AuditInitializes`): an empty list of databases, a nil slice, is taken for a failed query.
* `gateway_cron.cfg` (`RegisteredJobsTick`): the scheduler is started before jobs are registered and never ticks.

Facts that need no search, met while modelling and visible in the modules: a Service is not updated when the port of a
worker changes; a failed reconciliation waits for the next change of the spec; a CR deleted while the controller is down
leaves its objects behind; a lost deletion post, or a database deleted while it is being created, can leave a schema; two
overlapping changes of one map lose one of them, in the row or in the ConfigMap; the outer gateway initialises neither the Kubernetes clients nor the RDB
manager, so what its handlers and goroutines would do with them is skipped.

### Bounds, and why they are enough

* **Workers = 1.** No statement and no API call touches two workers; workers only share the queue and the pool, and the
  clients and goroutines of the instance can fill both. The theorems below hold for any number.
* **MaxVersion = 2, Clients = 2, Threads = 2.** The hazards are of two jobs, or a job and a deletion, that overlap.
  A version number is used once; requests may otherwise be repeated without bound.
* **QueueSize = 1** (2 in `deploy_reorder`; 256 in the program): the full queue and the blocked sender occur. With one place in the queue and
  two goroutines, two jobs still overlap while a third task waits.
* **MaxChanges = 1**: a configuration change before, between and after two deploys, whose sync job ends after the next
  deploy began. Two that cross are in `config`; the theorems below hold for any number.
* **MaxRevision = 2** bounds only the controller's status writes, enough to refuse the Update of each version (1 in
  `deploy_outcome`: the Update of one of them).
* **Handles = PoolSize + Callers**: the pool can be full while every caller holds a handle that was evicted. More never
  are in use at once, since a handle nobody refers to may be used again. Three users exceed the pool of two.
* **PageSize = 1** makes every user a page boundary; uid 2 as the orphan lies between users that register before and
  after it.
* **MaxSpec = 2, MaxFaults = 2**: creation and one change of the spec (or a deletion and a second CR), and any two
  faults, each at any moment. `Scenarios` keeps `recreate` to itself, because the properties that survive it are those of
  `Healed` and the product of both is out of reach.
* **Accounts:** two registrations, or a registration and a reset, that hold the one code; e-mails of which one can draw
  the other's uid; one restart, which can fall between any two statements. A statement of `InitUserRDB`
  that fails leaves what a restart at that point leaves, which is why the run does without `"rdb"`; the invariants are
  proved with it. One code of one value is enough: two codes of an
  e-mail never meet in a request, and `MatchingAnyEmail`, a plausible bug, is noticed with one.
* **WorkerConfig:** two requests that cross, or follow each other, on the same or on two keys and parts; one deploy before,
  between or after. `MaxKinds = 1` lets one kind of fault happen in a behaviour, any number of times: the properties either
  hold for every fault (and are proved for all combinations) or except them.
* **CustomDomain:** two rows of one domain, so that it can be added again while the loop, the check or the
  deletion of the first row is under way; two lookups, one of which may be in vain without a verdict.
* Symmetry is used in `deploy_faults` and `deploy_reorder` only, over clients, goroutines and workers, which no definition
  tells apart; runs with liveness properties use none.

### Fairness

Goroutines that are ready run (WF of `RunJob`, `PoolNext`, `MainNext`, of the steps inside `getOrCreateUserDB`): the Go
scheduler is preemptive, and a call to a database or to the API server is taken to return, with an answer or an error. A goroutine blocked on a send or on the
mutex gets its turn (SF of `SendDeploy`, `SendTask`, `AcceptTask`, `Touch`, `Lock`): Go serves the senders of a channel
in the order they came, and its mutexes hand over to a waiter that starves. Nothing is assumed of clients, of the signal,
of faults or of `closeAll`; a request may never come. In the modules without a queue variable (WorkerConfig, Accounts)
a task that was posted is a job that may run, in any order: four goroutines take them, and WF says that each runs in the end,
unless a restart takes it away. In CustomDomain only the verification goroutines are fair, in Accounts only the inner gateway; a
controller that is told of an object handles it (WF of `ControlNext`, `RestartDeployment`, `List`), and the kubelet starts
pods of the newest template (WF of `StartPods`). The safety runs assume nothing at all.

Deadlock is checked except in `gateway`, where the process ends, and in `controller`, `config`, `domain` and
`accounts`, where the bounded requests, rows and faults run out and the system idles, as it should.

## 4. What is proved

The theorems hold for all finite or infinite sets of workers, clients, goroutines, tasks, keys, e-mails, domains and
resources, every capacity, page size and bound, and every set of faults (but for `KnownSpared`, which excludes one). They
assume only the named `ASSUME` of their module: the null value is no worker, rdb and kv ids differ, capacities and the page
size are positive, the special code is not the digits of a mailed one, and the like. TLC evaluates each of them in a run.

| Theorem | Statement | Module |
|---|---|---|
| `TypeCorrect` | `Spec => []TypeOK` (with the queue's bound, unique uids, one row per domain) | all eight, and `UserDBTypeCorrect` for UserDBPool |
| `OneJob` | `Spec => []OneJobPerVersion` | WorkerDeployProofs |
| `ActiveSucceeded` | `Spec => []ActiveIsSuccess` | WorkerDeployProofs |
| `ActiveRuns` | `Spec => []ActiveWorkerHasCR` | WorkerDeployProofs |
| `OutcomeFinal` | `Spec => VersionOutcomeFinal` | WorkerDeployProofs |
| `NothingForgotten` | `Spec => []NothingStuck` | WorkerDeployProofs |
| `Explained` | `Spec => []ErrorsExplained` | WorkerDeployProofs |
| `Refinement` | `Spec => ImplementsRecords` | WorkerDeployProofs |
| `NeverSendsOnClosed` | `Spec => []NoSendOnClosed` | InnerGatewayProofs |
| `Implements` | `Spec => ImplementsTaskQueue` | InnerGatewayProofs |
| `NeverOverfull` | `UserDBSpec => []MapAndListAgree` | InnerGatewayProofs |
| `NoLeak` | `UserDBSpec => []OpenExactlyPooled` | InnerGatewayProofs |
| `Following` | `Spec => []ClusterFollowsCR` | WorkerControllerProofs |
| `RunningTrue` | `Spec => []RunningIsTrue` | WorkerControllerProofs |
| `Emptied` | `Spec => []NothingLeft` | WorkerControllerProofs |
| `Heals` | `Spec => []Healed` | WorkerControllerProofs |
| `KnownSpared` | `Spec => KnownUsersSpared`, if `"truncate" \notin Faults` | UserAuditProofs |
| `Repairs` | `Spec => []AuditRepairs` | UserAuditProofs |
| `ActiveUsable` | `Spec => []ActiveHasSchema` | CombinatorResourceProofs |
| `SchemaGone` | `Spec => []DeletedSchemaGone` | CombinatorResourceProofs |
| `NoKeyLost` | `Spec => []RowKept` | WorkerConfigProofs |
| `Converged` | `Spec => []ClusterFollowsRow` | WorkerConfigProofs |
| `DeployedBeforeActive` | `Spec => []ActiveWasDeployed` | WorkerConfigProofs |
| `Proven` | `Spec => []VerifiedWasProven` | CustomDomainProofs |
| `Missed` | `Spec => []ErrorWasMissed` | CustomDomainProofs |
| `RouteComplete` | `Spec => []RouteIsComplete` | CustomDomainProofs |
| `NothingLeft` | `Spec => []DeletedLeavesNothing` | CustomDomainProofs |
| `VerdictFinal` | `Spec => VerdictStands` | CustomDomainProofs |
| `Coded` | `Spec => []PasswordHasCode` | AccountsProofs |
| `Truthful` | `Spec => []AnswersAreTrue` | AccountsProofs |
| `Accounted` | `Spec => []DatabasesAccounted` | AccountsProofs |
| `SpentOnce` | `Spec => CodeSpent` | AccountsProofs |

In every module the argument is an inductive invariant `IInv`, one lemma per action that it is preserved, and the
properties as consequences.

**WorkerDeploy.** `ActiveIsSuccess` is not inductive: the job's statements overwrite whatever status they find, so one
has to know that no job is left that could overwrite a success. The invariant
`IInv == TypeOK /\ Rows /\ Tasks /\ OneJobPerVersion /\ ActiveIsSuccess` says it: `Rows` is what the foreign keys give (a
version has a row exactly as long as its worker has), `Tasks` that a task names a version that was created for its worker
and is undecided until the job's last statement, and `OneJobPerVersion` that deciding it leaves no second task which still
thinks it is undecided. Steps of a job share `JobStepPreserves`, what a step that moves one goroutine and changes no row but
its own version's has to show. `OutcomeFinal` and the step simulation of `Refinement` follow from `IInv`: a job that writes
an outcome finds its version loading, or gone. `ActiveRuns` adds a second invariant on top, `CRInv`: a task that deletes a CR
belongs to a worker whose deletion was asked for, in the queue and in the pool, and an audit leaves its trace in `swept`, so a CR that a
job has written is still there when the job records its success, or its absence is accounted for. `NothingForgotten` and `Explained` rest on a third, `SInv`: a version that was answered 200 has left
its handler, what the cluster runs was created for its worker, a job that has still to mark its worker has marked its version,
and the properties themselves in terms of where a task is (`Carried`), with the status a deployment left kept apart from
the one a configuration change left (`DeployStatus`). One frame predicate, `Progress`, says what a step owes
them: a task moves on or ends with its version decided and its worker no longer loading (`Flows`), rows of existing versions keep
their owner and do not come back (`Stands`), an error comes with its reason (`Records1`), and a CR that changes is one a job is
about to record (`Records2`). Each action has a lemma that proves `Progress`; `SPreserved` adds `OutcomeKept` and concludes.

**InnerGateway.** `Stages` says how far `main` has come: the queue is closed only after the server has waited for its
handlers, which is all `NoSendOnClosed` needs. `Places` says that a submitted task is in the queue, with a goroutine or
finished, once, as long as the process is up. With it every step of the gateway maps to the step of `TaskQueue` its name
suggests, or to a stutter; the facts on channels it needs (`Appended`, `Received`) are lemmas on sequences without
repetition.

**UserDBPool.** `Alone` says that no two users share a handle and `Turns` what each caller may rely on: the lock has one
owner, who has made room for a user who has no connection; a caller that read a handle *without* the lock knows only that it
is its own user's or nobody's any more, which is why moving its element to the front of the list is harmless. Eviction
needs a count: a list of distinct users that is as long as the pool allows covers the map, and `Removed` says what is left
of a list without one of its elements.

**UserAudit.** Rows move to later pages while users register. The invariant says that a user who was there from the start
and is not loaded yet has a rank of at least `offset`, and that afterwards all of them are loaded, so that no deleting
loop has one to visit. A page that is short must then be the last: if a row came after it, the page would be full. That is
a fact about counting (`RowsBefore`, `FullPage`, `PageFits`: the ranks of a finite set of numbers have no gaps), proved
from the library's theorems on cardinality and the least element of a set of numbers. `audit_truncated.cfg` shows that the
hypothesis on truncation cannot be dropped. `Repairs` needs no such hypothesis: a truncated page leaves the audit unclean, so
that a clean one has seen whole pages and the same invariant holds (`Trusted`). What a clean audit has still to do is a second
invariant, `RInv`: an orphan's CR is in the list, then in what the loop has left, then nowhere, because only users who exist
deploy; the same for databases, and for the users without one.

**WorkerController.** What settles in the end is decided by notices that are still to come, so each theorem needs an account
of all of them. `IInv` has what holds under every fault: the changes on their way lead from the cached CR to the CR of the API
server, one generation at a time (`Chain`), and when the handlers were last told that the CR is gone, it is not in the cache
(`ToldGone`). On top of it, each theorem has the invariant of its own circumstances. `QInv` is for a CR that was
never deleted: only its own handlers work (`OnlyCR`), what a reconciliation has passed is there with its spec (`Reconciled`),
and when nothing is waiting, either the newest spec is being reconciled or all is done and the phase says so (`CRFollowed`); that
gives `Following` and `RunningTrue`. `NInv` is for a system without faults: the deletion of the CR is the last change there is
and the last thing its handlers hear (`CRGoneLast`), and what `DeleteAll` has passed stays gone (`Emptying`); that gives
`Emptied`. `HInv` is for objects that somebody deletes, when up to four handlers reconcile one CR: an object
that is missing is `Coming`, which means that a notice is on its way or some handler `Carries` it, that is, has it still
before it and will not stop at the object it is about to write, because that object is as the handler read it.
That somebody does carry it is the hard part: a handler that is stopped by a conflict or an object that appeared loses what it
carried, and the proof (`HMoves`) is that the one who won then has it before it.

**CombinatorResource.** A deletion job drops a schema without looking at the row, so `ActiveHasSchema` needs to know that
it only does so when the row is gone, and that a creation job that is about to record success made the schema or has lost
its row meanwhile, or its schema with the whole database: `IInv == TypeOK /\ Housed /\ Tasks /\ Steps /\ ActiveHasSchema`, where
`Housed` says that a schema is in a database. A frame predicate (`Kept`: deleted rows stay
deleted, a schema goes only when its row is gone or with the database) carries the claims about the other goroutines
through each step. `SchemaGone` adds `DInv`: the schema of a row that is gone waits for a deletion in a handler, in the queue
or in the pool (`Dropping`), and no creation can bring it back, because a resource has one creation task at most
(`OneCreate`) and that task is gone once the row is decided (`Undecided`).

**WorkerConfig.** As long as changes of a part do not cross, one request at most is between its read and the end of its job
(`Single`), so what it has read is still in the row (`Merged`) and nobody moves the object between its Get and its Update
(`Synced`, which says where the newest map is at each moment: in the request, in its job, or in the object). `Deployed`
collects what only a deploy brings about.

**CustomDomain.** No statement looks at the status it overwrites, so that a verdict stands rests on who is left to write
one: a loop only writes for a row that is pending or gone (`Loops`), the check only for one that was verified once
(`Checks`). `Objects` follows the order of `CreateIngressRoute`, and `Leaving` says that whatever is left of a deleted
row some deletion in progress still has before it.

**Accounts.** Who has a password, and with which code, is known from the request that set it (`Written`, `Accepted`).
Answers are true because a registration that has created its user is the only one of its e-mail (`Registered`); a code
is spent because it is marked before the answer (`Spent`); databases have owners because no code path deletes a user, and one that is made by half has its call
of `InitUserRDB` still going, or something that ended it (`Databases`).

Each invariant was checked with TLC before it was proved. Only model-checked: liveness under fairness
(`AckedDeployResolves`, `RequestsAnswered`, `ShutdownEnds`, `AcceptedRuns`, `CallReturns`, `AckedCreateResolves`,
`StatusResolves`, `PodsFollow`, `PendingResolves`, `DatabaseFollows`), which the prover does not handle. Every safety property
of a passing run is proved.

## 5. What is not modelled

* The connection of the root user (`tryGetRootDB`, `Close`): one connection, pinged under the read lock, and pinged
  again and replaced under the write lock, so that two callers do not both reconnect. A caller whose ping fails closes the
  connection other callers were given before, the hazard that `pool_stale` shows for the user pool; what they lose is a
  statement that fails, which the models have as a fault. `ListSchemas`, `DatabaseSize`, `SchemaSize`, `ForceAnalyze` only read or refresh statistics;
  `DeleteUserRDB` has no caller.
* Usage reports (`ReportUsage`, `BatchSaveCombinatorResourceReports`): rows that are inserted and that nothing else in the
  program reads or changes. The task log has no caller.
* Login, tokens, HMAC signatures, and GET handlers: functions of a request and a row, without state.
* SQL text, HTTP status codes, e-mails, JSON and YAML, log messages. Timestamps: that `expires_at` is a TIMESTAMP without a zone is not modelled, a
  code expires at some time. A mailed code that happens to equal `SPECIAL_CODE` is left out.
* The image in WorkerConfig: a deploy there writes status and CR only; images are in WorkerDeploy. The two are not
  composed into one specification (their product is out of TLC's reach). The status both write is in both: WorkerDeploy has
  every writer of it and what it means for versions, WorkerConfig has what the environment and the secrets become.
  The CR's deletion is not in WorkerConfig: `ActiveWasDeployed` says that an active worker *was* deployed.
* `runTicker`: no behaviour of `main` reaches it.
* The combinator pods and the cluster-internal clients of the inner gateway are not in this repository; a notification of a
  pod is a step without effect.
* Postgres, CockroachDB and the API server are taken to be atomic per statement, transaction or call. A call either fails
  without effect, or (where a fault kind says so) with effect.
* More than one replica of the inner gateway: each replica would add a queue, a pool and a controller; the manifests run
  one.
* The job factory (a table written by `init` functions), the CRD set-up, the SQL schema (its constraints are in the modules
  that use them), the web client, manifests and build files.

## 6. What could follow

In the order of what it would add: WorkerConfig composed with WorkerController, so that
configuration changes meet the controller's own conflicts; two replicas of the inner gateway.
