---------------------------- MODULE WorkerDeploy ----------------------------
(***************************************************************************)
(* The life of a worker in the console control plane: its row and its      *)
(* deploy versions in Postgres, its WorkerApp custom resource (CR) in      *)
(* Kubernetes, and the asynchronous jobs that carry a deployment or a      *)
(* deletion from the one to the other.                                     *)
(*                                                                         *)
(* Three kinds of process take steps.  A client's HTTP request runs a      *)
(* handler of handlers/worker.handler.go: one statement of SQL, then one   *)
(* task posted to the inner gateway, or the reverse.  A goroutine of the   *)
(* inner gateway's pool takes the oldest task and runs its Do method       *)
(* (handlers/jobs/worker.jobs.go), one database or API call per step.  The *)
(* WorkerApp controller only rewrites the status of a CR, which changes    *)
(* the resourceVersion the deploy job's Update is checked against.         *)
(*                                                                         *)
(* Two more tasks write what deployments write.  A change of the worker's  *)
(* environment or secrets sets workers.status, and so does its sync job;   *)
(* what they write into the cluster is WorkerConfig's.  The user audit     *)
(* (auth.cron.go), which the inner gateway queues whenever it starts,      *)
(* deletes the CRs of users it did not find; the rest of it is UserAudit.  *)
(*                                                                         *)
(* A version number stands for the image and the port it was created with: *)
(* a CR "holds" a version when its spec carries that image and port.       *)
(***************************************************************************)
EXTENDS Naturals, Sequences, FiniteSets

CONSTANTS
  Workers,      \* worker ids (workers.wid), each issued at most once
  NoWorker,     \* stands for "no worker"
  Clients,      \* HTTP requests that can be in progress at the same time
  Threads,      \* goroutines of the processor's pool
  MaxVersion,   \* bound: how many deploy versions are ever created
  QueueSize,    \* capacity of Processor.JobQueue
  MaxRevision,  \* bound: controller status writes stop at this revision
  MaxChanges,   \* bound: how many changes of environment or secrets are made
  Faults        \* the faults that may happen, a subset of FaultKinds

(***************************************************************************)
(* send    a task post fails, before or after the inner gateway queued it  *)
(* db      a database statement of a handler or a job fails                *)
(* api     a Kubernetes API call fails without effect                      *)
(* timeout a Kubernetes API write takes effect but reports an error        *)
(* inner   the inner gateway restarts: its queue and running jobs are gone *)
(* outer   the outer gateway restarts: its requests in progress are gone   *)
(***************************************************************************)
FaultKinds == {"send", "db", "api", "timeout", "inner", "outer"}

ASSUME ConstantsAssumption ==
  /\ NoWorker \notin Workers
  /\ MaxVersion \in Nat
  /\ QueueSize \in Nat \ {0}
  /\ MaxRevision \in Nat
  /\ MaxChanges \in Nat
  /\ Faults \subseteq FaultKinds

VARIABLES
  workerStatus,   \* workers.status; "none": id not issued, "deleted": row gone
  activeVersion,  \* workers.active_version_id, 0 for NULL
  nextVersion,    \* the sequence behind worker_deploy_versions.id
  versionWorker,  \* worker_deploy_versions.worker_id
  versionStatus,  \* worker_deploy_versions.status; "none": no such row
  cr,             \* the version held by the worker's CR, 0 when there is no CR
  revision,       \* the resourceVersion of the worker's CR
  request,        \* what each client's handler still has to do
  queue,          \* Processor.JobQueue
  pool,           \* what each goroutine of the pool is doing
  changes,        \* how many changes of environment or secrets were made
  orphans,        \* workers whose owner the running audit does not know
  acked,          \* history: versions whose deploy request was answered 200
  deleteSent,     \* history: workers whose delete_worker_cr task was posted
  configured,     \* history: workers whose status a change of the environment
                  \* or the secrets, or its sync job, was the last to write
  swept           \* history: workers whose CR an audit deleted last

workerVars  == <<workerStatus, activeVersion>>
versionVars == <<nextVersion, versionWorker, versionStatus>>
dbVars      == <<workerVars, versionVars>>
crVars      == <<cr, revision>>
history     == <<acked, deleteSent, configured, swept>>
vars        == <<dbVars, crVars, request, queue, pool, changes, orphans, history>>

-----------------------------------------------------------------------------
Versions      == 1..MaxVersion
RowStatus     == {"unloaded", "loading", "active", "error"}
WorkerStatus  == RowStatus \cup {"none", "deleted"}
VersionStatus == {"none", "loading", "success", "error"}

Job == [kind : {"none", "deploy", "delete", "sync", "audit"},
        worker : Workers \cup {NoWorker},
        version : 0..MaxVersion]

NoJob           == [kind |-> "none", worker |-> NoWorker, version |-> 0]
DeployJob(w, v) == [kind |-> "deploy", worker |-> w, version |-> v]
DeleteJob(w)    == [kind |-> "delete", worker |-> w, version |-> 0]
SyncJob(w)      == [kind |-> "sync", worker |-> w, version |-> 0]
AuditJob        == [kind |-> "audit", worker |-> NoWorker, version |-> 0]

RequestStep == {"idle", "sendDeploy", "deleteRow", "sendSync"}
JobStep     == {"idle", "load", "get", "create", "update", "succeed",
                "failVersion", "failWorker", "deleteCR", "sync", "syncActive",
                "syncError", "auditLoad", "auditList", "auditDelete"}

NoRequest == [step |-> "idle", job |-> NoJob]
Idle      == [step |-> "idle", job |-> NoJob, seen |-> 0]

HasRow(w)     == workerStatus[w] \in RowStatus
HasVersion(v) == versionStatus[v] # "none"

Init ==
  /\ workerStatus  = [w \in Workers |-> "none"]
  /\ activeVersion = [w \in Workers |-> 0]
  /\ nextVersion   = 1
  /\ versionWorker = [v \in Versions |-> NoWorker]
  /\ versionStatus = [v \in Versions |-> "none"]
  /\ cr       = [w \in Workers |-> 0]
  /\ revision = [w \in Workers |-> 0]
  /\ request  = [c \in Clients |-> NoRequest]
  /\ queue    = <<AuditJob>>
  /\ pool     = [t \in Threads |-> Idle]
  /\ changes    = 0
  /\ orphans    = {}
  /\ acked      = {}
  /\ deleteSent = {}
  /\ configured = {}
  /\ swept      = {}

-----------------------------------------------------------------------------
(***************************************************************************)
(* Requests.                                                               *)
(***************************************************************************)

(* POST /api/acceptTask: Processor.Submit blocks while the queue is full.  *)
(* The post can fail before the task is queued, or after (the answer is    *)
(* lost); either way the sender sees an error.                             *)
Submit(job) == Len(queue) < QueueSize /\ queue' = Append(queue, job)

SendTask(job, ok) ==
  \/ ok  /\ Submit(job)
  \/ ~ok /\ "send" \in Faults /\ (UNCHANGED queue \/ Submit(job))

CreateWorker(w) ==
  /\ workerStatus[w] = "none"
  /\ workerStatus' = [workerStatus EXCEPT ![w] = "unloaded"]
  /\ UNCHANGED <<activeVersion, versionVars, crVars, request, queue, pool, changes, orphans, history>>

(* DeployWorker, first half: one transaction marks the worker loading and  *)
(* inserts the version.  A worker without a row is refused.  When only the *)
(* answer to COMMIT is lost, the rows stay and no task is sent.            *)
DeployWorker(c, w) ==
  /\ request[c].step = "idle"
  /\ HasRow(w)
  /\ nextVersion <= MaxVersion
  /\ workerStatus'  = [workerStatus EXCEPT ![w] = "loading"]
  /\ versionWorker' = [versionWorker EXCEPT ![nextVersion] = w]
  /\ versionStatus' = [versionStatus EXCEPT ![nextVersion] = "loading"]
  /\ nextVersion'   = nextVersion + 1
  /\ \/ request' = [request EXCEPT ![c] =
                      [step |-> "sendDeploy", job |-> DeployJob(w, nextVersion)]]
     \/ "db" \in Faults /\ UNCHANGED request
  /\ configured' = configured \ {w}
  /\ UNCHANGED <<activeVersion, crVars, queue, pool, changes, orphans, acked, deleteSent, swept>>

\* Mutant: a post that failed is tried again.
SendDeployRetrying(c) ==
  /\ request[c].step = "sendDeploy"
  /\ \E ok \in BOOLEAN :
       /\ SendTask(request[c].job, ok)
       /\ acked' = IF ok THEN acked \cup {request[c].job.version} ELSE acked
       /\ request' = IF ok THEN [request EXCEPT ![c] = NoRequest] ELSE request
  /\ UNCHANGED <<dbVars, crVars, pool, changes, orphans, deleteSent, configured, swept>>

\* Mutant: the answer is 200 whether or not the post succeeded.
SendDeployUnchecked(c) ==
  /\ request[c].step = "sendDeploy"
  /\ \E ok \in BOOLEAN : SendTask(request[c].job, ok)
  /\ acked' = acked \cup {request[c].job.version}
  /\ request' = [request EXCEPT ![c] = NoRequest]
  /\ UNCHANGED <<dbVars, crVars, pool, changes, orphans, deleteSent, configured, swept>>

(* DeployWorker, second half: post the task, answer 200 if it was taken.   *)
(* After an error the version stays as it is: there is no rollback.        *)
SendDeploy(c) ==
  /\ request[c].step = "sendDeploy"
  /\ \E ok \in BOOLEAN :
       /\ SendTask(request[c].job, ok)
       /\ acked' = IF ok THEN acked \cup {request[c].job.version} ELSE acked
  /\ request' = [request EXCEPT ![c] = NoRequest]
  /\ UNCHANGED <<dbVars, crVars, pool, changes, orphans, deleteSent, configured, swept>>

(* DeleteWorker, first half: post the task that deletes the CR.  It does   *)
(* not look at the row, and a failure to post is only logged.              *)
DeleteWorker(c, w) ==
  /\ request[c].step = "idle"
  /\ workerStatus[w] # "none"
  /\ \E ok \in BOOLEAN : SendTask(DeleteJob(w), ok)
  /\ request' = [request EXCEPT ![c] = [step |-> "deleteRow", job |-> DeleteJob(w)]]
  /\ deleteSent' = deleteSent \cup {w}
  /\ UNCHANGED <<dbVars, crVars, pool, changes, orphans, acked, configured, swept>>

(* DeleteWorker, second half: delete the row, and by ON DELETE CASCADE its *)
(* versions; 404 when there is no row.                                     *)
DeleteRow(c) ==
  LET w == request[c].job.worker IN
  /\ request[c].step = "deleteRow"
  /\ \/ /\ HasRow(w)
        /\ workerStatus'  = [workerStatus EXCEPT ![w] = "deleted"]
        /\ activeVersion' = [activeVersion EXCEPT ![w] = 0]
        /\ versionStatus' = [v \in Versions |->
              IF versionWorker[v] = w THEN "none" ELSE versionStatus[v]]
     \/ /\ ~HasRow(w) \/ "db" \in Faults
        /\ UNCHANGED <<workerVars, versionStatus>>
  /\ request' = [request EXCEPT ![c] = NoRequest]
  /\ UNCHANGED <<nextVersion, versionWorker, crVars, queue, pool, changes, orphans, history>>

(* SetWorkerEnv, SetWorkerSecrets and the deletion of one of either, first *)
(* half: the UPDATE of the row's map marks the worker loading, whether or  *)
(* not it was ever deployed; without a row nothing happens.  When only the *)
(* answer is lost, no task is sent.                                        *)
SetWorkerConfig(c, w) ==
  /\ request[c].step = "idle"
  /\ HasRow(w)
  /\ changes < MaxChanges
  /\ changes' = changes + 1
  /\ workerStatus' = [workerStatus EXCEPT ![w] = "loading"]
  /\ \/ request' = [request EXCEPT ![c] = [step |-> "sendSync", job |-> SyncJob(w)]]
     \/ "db" \in Faults /\ UNCHANGED request
  /\ configured' = configured \cup {w}
  /\ UNCHANGED <<activeVersion, versionVars, crVars, queue, pool, orphans, acked, deleteSent, swept>>

(* Second half: post the task.  Nothing undoes the row when that fails.    *)
SendSync(c) ==
  /\ request[c].step = "sendSync"
  /\ \E ok \in BOOLEAN : SendTask(request[c].job, ok)
  /\ request' = [request EXCEPT ![c] = NoRequest]
  /\ UNCHANGED <<dbVars, crVars, pool, changes, orphans, history>>

-----------------------------------------------------------------------------
(***************************************************************************)
(* Jobs.                                                                   *)
(***************************************************************************)
JobWorker(t)  == pool[t].job.worker
JobVersion(t) == pool[t].job.version

Goto(t, step) == pool' = [pool EXCEPT ![t].step = step]
Finish(t)     == pool' = [pool EXCEPT ![t] = Idle]

FirstStep == [deploy |-> "load", delete |-> "deleteCR", sync |-> "sync", audit |-> "auditLoad"]

(* One goroutine of Processor.Start receives the oldest task.              *)
StartJob(t) ==
  /\ pool[t].step = "idle"
  /\ queue # <<>>
  /\ queue' = Tail(queue)
  /\ pool' = [pool EXCEPT ![t] =
       [step |-> FirstStep[Head(queue).kind], job |-> Head(queue), seen |-> 0]]
  /\ UNCHANGED <<dbVars, crVars, request, changes, orphans, history>>

(* UpdateDeployVersionStatus and UpdateWorkerStatus: UPDATE ... WHERE, so  *)
(* nothing happens when the row is gone.                                   *)
SetVersionStatus(v, s) ==
  versionStatus' = IF HasVersion(v) THEN [versionStatus EXCEPT ![v] = s] ELSE versionStatus

SetWorkerStatus(w, s) ==
  workerStatus' = IF HasRow(w) THEN [workerStatus EXCEPT ![w] = s] ELSE workerStatus

(* Do: read the version joined with its worker.  On an error (the row is   *)
(* gone, or the query failed) only the version is marked.                  *)
DeployLoad(t) ==
  /\ pool[t].step = "load"
  /\ \/ /\ HasVersion(JobVersion(t))
        /\ Goto(t, "get")
        /\ UNCHANGED versionStatus
     \/ /\ ~HasVersion(JobVersion(t)) \/ "db" \in Faults
        /\ Finish(t)
        /\ \/ SetVersionStatus(JobVersion(t), "error")
           \/ "db" \in Faults /\ UNCHANGED versionStatus
  /\ UNCHANGED <<workerVars, nextVersion, versionWorker, crVars, request, queue, changes, orphans, history>>

(* CreateWorkerAppCR: Get decides between Create and Update; any error of  *)
(* Get, not only "not found", leads to Create.                             *)
DeployGet(t) ==
  LET w == JobWorker(t) IN
  /\ pool[t].step = "get"
  /\ \/ /\ cr[w] # 0
        /\ pool' = [pool EXCEPT ![t].step = "update", ![t].seen = revision[w]]
     \/ /\ cr[w] = 0 \/ "api" \in Faults
        /\ Goto(t, "create")
  /\ UNCHANGED <<dbVars, crVars, request, queue, changes, orphans, history>>

(* The API server accepts a Create when there is no CR of that name, and   *)
(* an Update when the CR still has the resourceVersion that Get returned.  *)
Accepted(t) ==
  LET w == JobWorker(t) IN
  IF pool[t].step = "create" THEN cr[w] = 0
                             ELSE cr[w] # 0 /\ revision[w] = pool[t].seen

WriteCR(w, v) ==
  /\ cr' = [cr EXCEPT ![w] = v]
  /\ revision' = [revision EXCEPT ![w] = @ + 1]
  /\ swept' = swept \ {w}

\* Mutant: a refused write (a CR that exists, a stale resourceVersion) is
\* taken for success.
ApplyCRUnchecked(t) ==
  /\ pool[t].step \in {"create", "update"}
  /\ \/ Accepted(t) /\ WriteCR(JobWorker(t), JobVersion(t))
     \/ (~Accepted(t) \/ "api" \in Faults) /\ UNCHANGED <<crVars, swept>>
  /\ Goto(t, "succeed")
  /\ UNCHANGED <<dbVars, request, queue, changes, orphans, acked, deleteSent, configured>>

(* The outcome of the write decides what the job records next.             *)
ApplyCR(t) ==
  /\ pool[t].step \in {"create", "update"}
  /\ \/ /\ Accepted(t)
        /\ WriteCR(JobWorker(t), JobVersion(t))
        /\ \/ Goto(t, "succeed")
           \/ "timeout" \in Faults /\ Goto(t, "failVersion")
     \/ /\ ~Accepted(t) \/ "api" \in Faults
        /\ UNCHANGED <<crVars, swept>>
        /\ Goto(t, "failVersion")
  /\ UNCHANGED <<dbVars, request, queue, changes, orphans, acked, deleteSent, configured>>

\* Mutant: UPDATE ... WHERE worker_id instead of WHERE id.
FailEveryVersion(t) ==
  /\ pool[t].step = "failVersion"
  /\ versionStatus' = [v \in Versions |->
        IF HasVersion(v) /\ versionWorker[v] = JobWorker(t) THEN "error"
                                                          ELSE versionStatus[v]]
  /\ Goto(t, "failWorker")
  /\ UNCHANGED <<workerVars, nextVersion, versionWorker, crVars, request, queue, changes, orphans, history>>

\* Mutant: the job returns before it marks the worker.
FailVersionOnly(t) ==
  /\ pool[t].step = "failVersion"
  /\ SetVersionStatus(JobVersion(t), "error")
  /\ Finish(t)
  /\ UNCHANGED <<workerVars, nextVersion, versionWorker, crVars, request, queue, changes, orphans, history>>

(* The CR could not be written: mark the version, then the worker.         *)
FailVersion(t) ==
  /\ pool[t].step = "failVersion"
  /\ \/ SetVersionStatus(JobVersion(t), "error")
     \/ "db" \in Faults /\ UNCHANGED versionStatus
  /\ Goto(t, "failWorker")
  /\ UNCHANGED <<workerVars, nextVersion, versionWorker, crVars, request, queue, changes, orphans, history>>

FailWorker(t) ==
  /\ pool[t].step = "failWorker"
  /\ \/ /\ SetWorkerStatus(JobWorker(t), "error")
        /\ configured' = configured \ {JobWorker(t)}
     \/ "db" \in Faults /\ UNCHANGED <<workerStatus, configured>>
  /\ Finish(t)
  /\ UNCHANGED <<activeVersion, versionVars, crVars, request, queue, changes, orphans,
                 acked, deleteSent, swept>>

\* Mutant: two statements without a transaction.
DeployVersionSuccessTorn(t) ==
  LET w == JobWorker(t)
      v == JobVersion(t) IN
  /\ pool[t].step = "succeed"
  /\ SetVersionStatus(v, "success")
  /\ \/ /\ SetWorkerStatus(w, "active")
        /\ activeVersion' = IF HasRow(w) THEN [activeVersion EXCEPT ![w] = v]
                                         ELSE activeVersion
        /\ configured' = configured \ {w}
     \/ "db" \in Faults /\ UNCHANGED <<workerVars, configured>>
  /\ Finish(t)
  /\ UNCHANGED <<nextVersion, versionWorker, crVars, request, queue, changes, orphans,
                 acked, deleteSent, swept>>

\* Mutant: only the worker's row is updated.
DeployVersionSuccessNoVersion(t) ==
  LET w == JobWorker(t)
      v == JobVersion(t) IN
  /\ pool[t].step = "succeed"
  /\ SetWorkerStatus(w, "active")
  /\ activeVersion' = IF HasRow(w) THEN [activeVersion EXCEPT ![w] = v]
                                   ELSE activeVersion
  /\ configured' = configured \ {w}
  /\ Finish(t)
  /\ UNCHANGED <<versionVars, crVars, request, queue, changes, orphans, acked, deleteSent, swept>>

(* DeployVersionSuccess: one transaction updates both rows where they still *)
(* exist.  A failure is logged and the job ends as if it had succeeded.     *)
DeployVersionSuccess(t) ==
  LET w == JobWorker(t)
      v == JobVersion(t) IN
  /\ pool[t].step = "succeed"
  /\ \/ /\ SetVersionStatus(v, "success")
        /\ SetWorkerStatus(w, "active")
        /\ activeVersion' = IF HasRow(w) THEN [activeVersion EXCEPT ![w] = v]
                                         ELSE activeVersion
        /\ configured' = configured \ {w}
     \/ "db" \in Faults /\ UNCHANGED <<workerVars, versionStatus, configured>>
  /\ Finish(t)
  /\ UNCHANGED <<nextVersion, versionWorker, crVars, request, queue, changes, orphans,
                 acked, deleteSent, swept>>

(* deleteWorkerCRJob.Do: an error, "not found" included, is only logged.   *)
DeleteCR(t) ==
  /\ pool[t].step = "deleteCR"
  /\ \/ cr' = [cr EXCEPT ![JobWorker(t)] = 0]
     \/ "api" \in Faults /\ UNCHANGED cr
  /\ Finish(t)
  /\ UNCHANGED <<dbVars, revision, request, queue, changes, orphans, history>>

(* syncEnvJob.Do, syncSecretJob.Do: any error of Get, so also an object    *)
(* the controller has not created yet, ends the job and leaves the status. *)
(* There can be an object once there was a CR.  Its Update is accepted or  *)
(* refused, and the verdict on the object becomes that on the worker.      *)
SyncConfig(t) ==
  /\ pool[t].step = "sync"
  /\ \/ Finish(t)
     \/ revision[JobWorker(t)] # 0 /\ \E s \in {"syncActive", "syncError"} : Goto(t, s)
  /\ UNCHANGED <<dbVars, crVars, request, queue, changes, orphans, history>>

SyncStatus(t) ==
  LET w == JobWorker(t) IN
  /\ pool[t].step \in {"syncActive", "syncError"}
  /\ \/ /\ SetWorkerStatus(w, IF pool[t].step = "syncActive" THEN "active" ELSE "error")
        /\ configured' = configured \cup {w}
     \/ "db" \in Faults /\ UNCHANGED <<workerStatus, configured>>
  /\ Finish(t)
  /\ UNCHANGED <<activeVersion, versionVars, crVars, request, queue, changes, orphans,
                 acked, deleteSent, swept>>

(* userAuditJob.Do reads all users first.  It does not know the owner of a *)
(* worker who registers, and creates the worker, after that; a page that   *)
(* breaks off (rows.Err is not asked) hides any user; an error ends it.    *)
AuditLoad(t) ==
  /\ pool[t].step = "auditLoad"
  /\ \/ /\ orphans' \in SUBSET {w \in Workers : workerStatus[w] = "none" \/ "db" \in Faults}
        /\ Goto(t, "auditList")
     \/ "db" \in Faults /\ Finish(t) /\ UNCHANGED orphans
  /\ UNCHANGED <<dbVars, crVars, request, queue, changes, history>>

(* List the CRs; those of known owners are left alone.                     *)
AuditList(t) ==
  /\ pool[t].step = "auditList"
  /\ \/ /\ orphans' = {w \in orphans : cr[w] # 0}
        /\ Goto(t, "auditDelete")
     \/ "api" \in Faults /\ Finish(t) /\ orphans' = {}
  /\ UNCHANGED <<dbVars, crVars, request, queue, changes, history>>

(* cleanOrphanWorkers: one turn of the loop, by name; an error is logged.  *)
AuditDelete(t) ==
  /\ pool[t].step = "auditDelete"
  /\ \/ /\ orphans = {}
        /\ Finish(t)
        /\ UNCHANGED <<cr, orphans, swept>>
     \/ \E w \in orphans :
          /\ orphans' = orphans \ {w}
          /\ \/ cr' = [cr EXCEPT ![w] = 0] /\ swept' = swept \cup {w}
             \/ "api" \in Faults /\ UNCHANGED <<cr, swept>>
          /\ UNCHANGED pool
  /\ UNCHANGED <<dbVars, revision, request, queue, changes, acked, deleteSent, configured>>

-----------------------------------------------------------------------------
(***************************************************************************)
(* The rest of the system.                                                 *)
(***************************************************************************)

(* Controller.updateStatus writes the CR's status subresource.             *)
UpdateStatus(w) ==
  /\ cr[w] # 0
  /\ revision[w] < MaxRevision
  /\ revision' = [revision EXCEPT ![w] = @ + 1]
  /\ UNCHANGED <<dbVars, cr, request, queue, pool, changes, orphans, history>>

(* The queue and the pool are memory of the inner gateway, and nothing at  *)
(* start-up looks for versions that are still loading: the first task is   *)
(* the audit.  Both gateways serve DeployWorker, only the outer one serves *)
(* the rest: a restart ends the requests the gateway was serving, and the  *)
(* posts it was receiving.  A post the outer gateway had in progress when  *)
(* it ended may still be queued.                                           *)
EndRequests(C) ==
  request' = [c \in Clients |-> IF c \in C THEN NoRequest ELSE request[c]]

InnerRestart ==
  /\ "inner" \in Faults
  /\ \E C \in SUBSET {c \in Clients : request[c].step \in {"sendDeploy", "sendSync"}} :
       EndRequests(C)
  /\ queue' = <<AuditJob>>
  /\ pool' = [t \in Threads |-> Idle]
  /\ orphans' = {}
  /\ UNCHANGED <<dbVars, crVars, changes, history>>

OuterRestart ==
  /\ "outer" \in Faults
  /\ \E C \in SUBSET Clients :
       /\ {c \in Clients : request[c].step = "deleteRow"} \subseteq C
       /\ EndRequests(C)
  /\ UNCHANGED <<dbVars, crVars, queue, pool, changes, orphans, history>>

RunJob(t) ==
  \/ StartJob(t)
  \/ DeployLoad(t)
  \/ DeployGet(t)
  \/ ApplyCR(t)
  \/ FailVersion(t)
  \/ FailWorker(t)
  \/ DeployVersionSuccess(t)
  \/ DeleteCR(t)
  \/ SyncConfig(t)
  \/ SyncStatus(t)
  \/ AuditLoad(t)
  \/ AuditList(t)
  \/ AuditDelete(t)

Next ==
  \/ \E w \in Workers : CreateWorker(w) \/ UpdateStatus(w)
  \/ \E c \in Clients, w \in Workers :
       DeployWorker(c, w) \/ DeleteWorker(c, w) \/ SetWorkerConfig(c, w)
  \/ \E c \in Clients : SendDeploy(c) \/ DeleteRow(c) \/ SendSync(c)
  \/ \E t \in Threads : RunJob(t)
  \/ InnerRestart
  \/ OuterRestart

Spec == Init /\ [][Next]_vars

(* The Go scheduler runs every goroutine of the pool, each call a job      *)
(* makes returns, and the senders blocked on a full channel are served in  *)
(* turn.  A client need never send a request.                              *)
FairSpec ==
  /\ Spec
  /\ \A t \in Threads : WF_vars(RunJob(t))
  /\ \A c \in Clients : SF_vars(SendDeploy(c))

-----------------------------------------------------------------------------
(***************************************************************************)
(* Properties.                                                             *)
(***************************************************************************)

(* Types, and the capacity of Processor.JobQueue.                          *)
TypeOK ==
  /\ workerStatus  \in [Workers -> WorkerStatus]
  /\ activeVersion \in [Workers -> 0..MaxVersion]
  /\ nextVersion   \in 1..(MaxVersion + 1)
  /\ versionWorker \in [Versions -> Workers \cup {NoWorker}]
  /\ versionStatus \in [Versions -> VersionStatus]
  /\ cr       \in [Workers -> 0..MaxVersion]
  /\ revision \in [Workers -> Nat]
  /\ request  \in [Clients -> [step : RequestStep, job : Job]]
  /\ queue    \in Seq(Job) /\ Len(queue) <= QueueSize
  /\ pool     \in [Threads -> [step : JobStep, job : Job, seen : Nat]]
  /\ changes \in 0..MaxChanges
  /\ acked \subseteq Versions
  /\ orphans \subseteq Workers /\ deleteSent \subseteq Workers
  /\ configured \subseteq Workers /\ swept \subseteq Workers

Queued       == {queue[i] : i \in DOMAIN queue}
InFlight     == {request[c].job : c \in Clients} \cup Queued \cup {pool[t].job : t \in Threads}
Deploying(v) == \E j \in InFlight : j.kind = "deploy" /\ j.version = v
Quiescent    == \A j \in InFlight : j.kind = "none"

(* Nothing that a job learns is lost, and no task that was queued.          *)
JobsRecord == Faults \cap {"db", "inner"} = {}

(* A deploy version is carried by at most one task at any time, wherever   *)
(* that task is: in the handler that made it, in the queue or in the pool. *)
(* The job records its outcome with unconditional UPDATEs, so a second     *)
(* task could turn a success into an error.                                *)
SameDeploy(j, k) == j.kind = "deploy" /\ k.kind = "deploy" /\ j.version = k.version

OneJobPerVersion ==
  /\ \A c, d \in Clients : SameDeploy(request[c].job, request[d].job) => c = d
  /\ \A i, j \in 1..Len(queue) : SameDeploy(queue[i], queue[j]) => i = j
  /\ \A t, u \in Threads : SameDeploy(pool[t].job, pool[u].job) => t = u
  /\ \A c \in Clients, i \in 1..Len(queue) : ~SameDeploy(request[c].job, queue[i])
  /\ \A c \in Clients, t \in Threads : ~SameDeploy(request[c].job, pool[t].job)
  /\ \A i \in 1..Len(queue), t \in Threads : ~SameDeploy(queue[i], pool[t].job)

(* The version workers.active_version_id points at is a version of that    *)
(* worker whose deployment succeeded, after any interleaving, failure or   *)
(* restart: no later statement of another job takes the success back.      *)
ActiveIsSuccess ==
  \A w \in Workers : activeVersion[w] # 0 =>
    /\ versionWorker[activeVersion[w]] = w
    /\ versionStatus[activeVersion[w]] = "success"

(* The status of a version is decided once: until its row goes, success    *)
(* stays success and error stays error (the statements of                  *)
(* dblayer/worker.actions.go do not look at the status they overwrite).    *)
VersionOutcomeFinal ==
  [][\A v \in Versions : versionStatus[v] \in {"success", "error"} =>
        versionStatus'[v] \in {versionStatus[v], "none"}]_vars

(* A worker shown with an active version runs something: there is a CR,    *)
(* unless its deletion has been asked for, or an audit that did not know   *)
(* its owner deleted the CR (UserAudit's OwnersSpared says when it may)    *)
(* and no deployment has written one since.  A failed deploy, a lost       *)
(* answer or a restart never leaves an active worker without one.          *)
ActiveWorkerHasCR ==
  \A w \in Workers :
    activeVersion[w] # 0 /\ w \notin deleteSent \cup swept => cr[w] # 0

(* A version that was answered 200 and is still loading has a task on its  *)
(* way that will decide it, and a worker that a deployment left loading    *)
(* has a version that is loading, or a job that has still to record what   *)
(* became of one: no path of the job returns without recording both, and   *)
(* no task is lost although posts fail around it.  A worker that a change  *)
(* of its environment or secrets left loading has no version to explain    *)
(* it, and before its first deployment it stays so: see StatusResolves of  *)
(* WorkerConfig.                                                           *)
NothingStuck ==
  JobsRecord =>
    /\ \A v \in acked : versionStatus[v] = "loading" => Deploying(v)
    /\ \A w \in Workers : workerStatus[w] = "loading" /\ w \notin configured =>
         \E v \in Versions : versionWorker[v] = w /\ (versionStatus[v] = "loading" \/ Deploying(v))

(* No error is reported without cause.  As long as the API server's        *)
(* answers are true, the version in the cluster of a worker that exists is *)
(* recorded as a success, or the job that wrote it is about to record it;  *)
(* and a worker that a deployment left in error has a version in error,    *)
(* whose message says why.  A sync job whose Update is refused leaves the  *)
(* worker in error as well, and no version says why.                       *)
ErrorsExplained ==
  JobsRecord /\ "timeout" \notin Faults =>
    \A w \in Workers :
      /\ HasRow(w) /\ cr[w] # 0 =>
           \/ versionStatus[cr[w]] = "success"
           \/ \E t \in Threads : pool[t].step = "succeed" /\ JobVersion(t) = cr[w]
      /\ workerStatus[w] = "error" /\ w \notin configured =>
           \E v \in Versions : versionWorker[v] = w /\ versionStatus[v] = "error"

(* Once everything has settled, the version in the cluster is the one the  *)
(* row calls active, unless somebody asked for its deletion or an audit    *)
(* took the worker for an orphan's.                                        *)
ClusterRunsActive ==
  Quiescent => \A w \in Workers :
    activeVersion[w] # 0 /\ w \notin deleteSent \cup swept => cr[w] = activeVersion[w]

(* Once everything has settled, nothing of a deleted worker is left in the *)
(* cluster.                                                                *)
DeletedHasNoCR ==
  Quiescent => \A w \in Workers : workerStatus[w] = "deleted" => cr[w] = 0

(* A deployment that was answered 200 gets an outcome (or its worker is    *)
(* deleted): the task is run whatever else is queued.                      *)
AckedDeployResolves ==
  \A v \in Versions : (v \in acked) ~> (versionStatus[v] # "loading")

(* The rows the API reports behave as DeployRecords promises.              *)
WorkerRow == [w \in Workers |-> IF HasRow(w) THEN "present" ELSE workerStatus[w]]

Records == INSTANCE DeployRecords WITH
  NoVersion <- 0, worker <- WorkerRow, active <- activeVersion,
  owner <- versionWorker, outcome <- versionStatus

ImplementsRecords == Records!Spec
=============================================================================
