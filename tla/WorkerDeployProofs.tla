------------------------- MODULE WorkerDeployProofs -------------------------
(***************************************************************************)
(* Theorems of WorkerDeploy, for every number of workers, clients,         *)
(* threads and versions and every set of faults.                           *)
(*                                                                         *)
(* The inductive invariant says what a task in flight may assume of the    *)
(* rows it will write to.  It has three parts besides the types: what the  *)
(* rows know of each other (Rows), what every task refers to (Tasks), and  *)
(* that each version has at most one task (OneJobPerVersion).              *)
(***************************************************************************)
EXTENDS WorkerDeploy, TLAPS, SequenceTheorems

(* Foreign keys: a version that was created belongs to a worker, and has a *)
(* row exactly as long as that worker has one.                             *)
Rows ==
  /\ \A v \in Versions : v >= nextVersion =>
       versionWorker[v] = NoWorker /\ versionStatus[v] = "none"
  /\ \A v \in Versions : v < nextVersion =>
       /\ versionWorker[v] \in Workers
       /\ workerStatus[versionWorker[v]] # "none"
       /\ HasVersion(v) <=> HasRow(versionWorker[v])

(* A deploy task names a version that was created for the task's worker.   *)
Known(job) ==
  job.kind = "deploy" =>
    /\ job.version \in Versions
    /\ job.version < nextVersion
    /\ versionWorker[job.version] = job.worker

(* ... and whose outcome is not decided yet.                               *)
Undecided(job) ==
  job.kind = "deploy" => versionStatus[job.version] \in {"loading", "none"}

DeploySteps == {"load", "get", "create", "update", "succeed", "failVersion", "failWorker"}

(* What a request carries, what is queued and what a goroutine runs: only  *)
(* the audit is about no worker.                                           *)
RequestWell(r) ==
  /\ r.step = "sendDeploy" <=> r.job.kind = "deploy"
  /\ r.step = "sendSync" => r.job.kind = "sync"
  /\ r.step \in {"deleteRow", "sendSync"} => r.job.worker \in Workers

TaskWell(job) == job.kind # "none" /\ (job.kind # "audit" => job.worker \in Workers)

EntryWell(e) ==
  /\ e.step \in DeploySteps <=> e.job.kind = "deploy"
  /\ e.step \in {"deleteCR", "sync", "syncActive", "syncError"} => e.job.worker \in Workers

Tasks ==
  /\ \A c \in Clients :
       Known(request[c].job) /\ Undecided(request[c].job) /\ RequestWell(request[c])
  /\ \A i \in 1..Len(queue) :
       Known(queue[i]) /\ Undecided(queue[i]) /\ TaskWell(queue[i])
  /\ \A t \in Threads :
       /\ Known(pool[t].job)
       /\ pool[t].step # "failWorker" => Undecided(pool[t].job)
       /\ EntryWell(pool[t])

(* What only history and bounds are about.                                 *)
SideTypes ==
  /\ changes \in 0..MaxChanges
  /\ orphans \subseteq Workers /\ configured \subseteq Workers /\ swept \subseteq Workers

IInv == TypeOK /\ Rows /\ Tasks /\ OneJobPerVersion /\ ActiveIsSuccess

-----------------------------------------------------------------------------
(* The operators on sequences that the queue uses.                         *)
LEMMA AppendFacts ==
  ASSUME NEW S, NEW q \in Seq(S), NEW e \in S
  PROVE  /\ Append(q, e) \in Seq(S)
         /\ Len(q) \in Nat
         /\ Len(Append(q, e)) = Len(q) + 1
         /\ \A i \in 1..Len(q) : Append(q, e)[i] = q[i]
         /\ Append(q, e)[Len(q) + 1] = e
  BY AppendProperties, LenProperties

LEMMA HeadTailFacts ==
  ASSUME NEW S, NEW q \in Seq(S), q # <<>>
  PROVE  /\ Len(q) \in Nat \ {0}
         /\ Tail(q) \in Seq(S)
         /\ Len(Tail(q)) = Len(q) - 1
         /\ \A i \in 1..Len(Tail(q)) : Tail(q)[i] = q[i + 1]
         /\ Head(q) = q[1]
         /\ Head(q) \in S
  BY HeadTailProperties, LenProperties

LEMMA OneTask ==
  ASSUME NEW job \in Job
  PROVE  <<job>> \in Seq(Job) /\ Len(<<job>>) = 1 /\ <<job>>[1] = job
  OBVIOUS

LEMMA InitEstablishes == Init => IInv
  <1> SUFFICES ASSUME Init PROVE IInv
    OBVIOUS
  <1> USE ConstantsAssumption DEF Init
  <1>0. /\ AuditJob \in Job /\ queue \in Seq(Job) /\ Len(queue) = 1 /\ queue[1] = AuditJob
        /\ AuditJob.kind = "audit"
    <2>1. AuditJob \in Job /\ AuditJob.kind = "audit"
      BY DEF AuditJob, Job
    <2>2. QED
      BY <2>1, OneTask
  <1>1. TypeOK
    BY <1>0 DEF TypeOK, Versions, WorkerStatus, RowStatus, VersionStatus, Job, NoJob,
           NoRequest, Idle, RequestStep, JobStep
  <1>2. Rows
    BY DEF Rows, Versions
  <1>3. Tasks
    BY <1>0 DEF Tasks, Known, Undecided, DeploySteps, NoRequest, Idle, NoJob, RequestWell,
       TaskWell, EntryWell
  <1>4. OneJobPerVersion
    BY <1>0 DEF OneJobPerVersion, SameDeploy, NoRequest, Idle, NoJob
  <1>5. ActiveIsSuccess
    BY DEF ActiveIsSuccess
  <1>6. QED
    BY <1>1, <1>2, <1>3, <1>4, <1>5 DEF IInv

LEMMA CreateWorkerPreserves ==
  ASSUME IInv, SideTypes', NEW w \in Workers, CreateWorker(w)
  PROVE  IInv'
  <1> USE ConstantsAssumption DEF IInv, CreateWorker, history, crVars, versionVars
  <1>1. TypeOK'
    BY DEF TypeOK, SideTypes, WorkerStatus, RowStatus
  <1>2. Rows'
    BY DEF TypeOK, Rows, HasRow, HasVersion, RowStatus
  <1>3. Tasks'
    BY DEF Tasks, Known, Undecided
  <1>4. OneJobPerVersion'
    BY DEF OneJobPerVersion, SameDeploy
  <1>5. ActiveIsSuccess'
    BY DEF ActiveIsSuccess
  <1>6. QED
    BY <1>1, <1>2, <1>3, <1>4, <1>5

LEMMA DeployWorkerPreserves ==
  ASSUME IInv, SideTypes', NEW c \in Clients, NEW w \in Workers, DeployWorker(c, w)
  PROVE  IInv'
  <1> USE ConstantsAssumption DEF IInv
  <1>0. nextVersion \in Versions /\ nextVersion \in 0..MaxVersion
    BY DEF TypeOK, Versions, DeployWorker
  <1>j. PICK job \in Job : job = DeployJob(w, nextVersion)
    BY <1>0 DEF DeployJob, Job
  <1>a. /\ HasRow(w)
        /\ workerStatus' = [workerStatus EXCEPT ![w] = "loading"]
        /\ versionWorker' = [versionWorker EXCEPT ![nextVersion] = w]
        /\ versionStatus' = [versionStatus EXCEPT ![nextVersion] = "loading"]
        /\ nextVersion' = nextVersion + 1
        /\ UNCHANGED <<activeVersion, cr, revision, queue, pool, acked, deleteSent>>
        /\ \/ UNCHANGED request
           \/ request' = [request EXCEPT ![c] = [step |-> "sendDeploy", job |-> job]]
    BY <1>j DEF DeployWorker, history, crVars
  <1>b. /\ job.kind = "deploy" /\ job.version = nextVersion /\ job.worker = w
    BY <1>j DEF DeployJob
  <1>1. TypeOK'
    <2>1. request' \in [Clients -> [step : RequestStep, job : Job]]
      <3>1. [step |-> "sendDeploy", job |-> job] \in [step : RequestStep, job : Job]
        BY DEF RequestStep
      <3>2. QED
        BY <1>a, <3>1 DEF TypeOK
    <2>2. QED
      BY <1>0, <1>a, <2>1 DEF TypeOK, SideTypes, WorkerStatus, RowStatus, VersionStatus, Versions
  <1>2. Rows'
    BY <1>0, <1>a DEF TypeOK, Rows, HasRow, HasVersion, RowStatus, Versions
  <1>3. Tasks'
    <2>1. \A j : Known(j) => Known(j)'
      BY <1>0, <1>a DEF TypeOK, Known, Versions
    <2>2. \A j : Known(j) /\ Undecided(j) => Undecided(j)'
      BY <1>0, <1>a DEF TypeOK, Known, Undecided, Versions
    <2>3. Known(job)' /\ Undecided(job)'
      BY <1>0, <1>a, <1>b DEF TypeOK, Known, Undecided, Versions
    <2>4. \A d \in Clients : (d # c => request'[d] = request[d])
                          /\ \/ request'[c] = request[c]
                             \/ request'[c] = [step |-> "sendDeploy", job |-> job]
      BY <1>a DEF TypeOK
    <2>w. RequestWell([step |-> "sendDeploy", job |-> job])
      BY <1>b DEF RequestWell
    <2>5. \A d \in Clients :
         Known(request[d].job)' /\ Undecided(request[d].job)' /\ RequestWell(request'[d])
      BY <2>1, <2>2, <2>3, <2>4, <2>w DEF Tasks
    <2>6. QED
      BY <1>a, <2>1, <2>2, <2>5 DEF Tasks
  <1>4. OneJobPerVersion'
    <2>1. \A j : Known(j) => ~SameDeploy(j, job) /\ ~SameDeploy(job, j)
      BY <1>0, <1>b DEF Known, SameDeploy, Versions
    <2>2. \A d \in Clients : (d # c => request'[d] = request[d])
                          /\ (request'[c] = request[c] \/ request'[c].job = job)
      BY <1>a DEF TypeOK
    <2>3. QED
      BY <1>a, <2>1, <2>2 DEF Tasks, OneJobPerVersion
  <1>5. ActiveIsSuccess'
    BY <1>0, <1>a DEF TypeOK, Rows, ActiveIsSuccess, Versions
  <1>6. QED
    BY <1>1, <1>2, <1>3, <1>4, <1>5

(* Posting a task leaves the queue as it was, or adds the task at its end. *)
LEMMA SendTaskEffect ==
  ASSUME TypeOK, NEW job \in Job, NEW ok \in BOOLEAN, SendTask(job, ok)
  PROVE  /\ queue' \in Seq(Job) /\ Len(queue') <= QueueSize
         /\ \A i \in 1..Len(queue') :
              \/ i \in 1..Len(queue) /\ queue'[i] = queue[i]
              \/ i = Len(queue) + 1 /\ queue'[i] = job
  <1> USE ConstantsAssumption
  <1>0. queue \in Seq(Job) /\ Len(queue) \in Nat /\ Len(queue) <= QueueSize
    BY LenProperties DEF TypeOK
  <1>1. CASE queue' = queue
    BY <1>0, <1>1
  <1>2. CASE Len(queue) < QueueSize /\ queue' = Append(queue, job)
    BY <1>0, <1>2, AppendFacts
  <1>3. QED
    BY <1>1, <1>2 DEF SendTask, Submit

LEMMA SendDeployPreserves ==
  ASSUME IInv, SideTypes', NEW c \in Clients, SendDeploy(c)
  PROVE  IInv'
  <1> USE ConstantsAssumption DEF IInv
  <1>1. PICK job \in Job : job = request[c].job
    BY DEF TypeOK
  <1>2. job.kind = "deploy" /\ Known(job) /\ Undecided(job) /\ job.worker \in Workers
    BY <1>1 DEF Tasks, SendDeploy, Known, Rows, RequestWell
  <1>3. /\ request' = [request EXCEPT ![c] = NoRequest]
        /\ UNCHANGED <<workerStatus, activeVersion, nextVersion, versionWorker,
                       versionStatus, cr, revision, pool, deleteSent>>
        /\ acked' \subseteq acked \cup {job.version}
    BY <1>1 DEF SendDeploy, dbVars, workerVars, versionVars, crVars
  <1>4. /\ queue' \in Seq(Job) /\ Len(queue') <= QueueSize
        /\ \A i \in 1..Len(queue') :
             \/ i \in 1..Len(queue) /\ queue'[i] = queue[i]
             \/ i = Len(queue) + 1 /\ queue'[i] = job
    BY <1>1, SendTaskEffect DEF SendDeploy
  <1>5. NoRequest.job.kind = "none" /\ NoRequest.step = "idle"
    BY DEF NoRequest, NoJob
  <1>6. TypeOK'
    <2>1. NoRequest \in [step : RequestStep, job : Job]
      BY DEF NoRequest, NoJob, RequestStep, Job
    <2>2. QED
      BY <1>2, <1>3, <1>4, <2>1 DEF TypeOK, SideTypes, Known
  <1>7. Rows'
    BY <1>3 DEF Rows, HasRow, HasVersion
  <1>8. Tasks'
    <2>1. \A j : (Known(j) => Known(j)') /\ (Undecided(j) => Undecided(j)')
      BY <1>3 DEF Known, Undecided
    <2>2. \A d \in Clients : request'[d] = IF d = c THEN NoRequest ELSE request[d]
      BY <1>3 DEF TypeOK
    <2>3. Known(NoRequest.job)' /\ Undecided(NoRequest.job)' /\ RequestWell(NoRequest)
      BY <1>5 DEF Known, Undecided, RequestWell
    <2>4. \A d \in Clients :
         Known(request[d].job)' /\ Undecided(request[d].job)' /\ RequestWell(request'[d])
      BY <2>1, <2>2, <2>3 DEF Tasks
    <2>5. \A i \in 1..Len(queue') :
         Known(queue[i])' /\ Undecided(queue[i])' /\ TaskWell(queue'[i])
      BY <2>1, <1>2, <1>4 DEF Tasks, TaskWell
    <2>6. QED
      BY <1>3, <2>1, <2>4, <2>5 DEF Tasks
  <1>9. OneJobPerVersion'
    <2>1. \A d \in Clients : (d # c => request'[d] = request[d]) /\ request'[c].job.kind = "none"
      BY <1>3, <1>5 DEF TypeOK
    <2>2. \A j : j.kind = "none" => \A k : ~SameDeploy(j, k) /\ ~SameDeploy(k, j)
      BY DEF SameDeploy
    <2>3. /\ \A d \in Clients : d # c => ~SameDeploy(request[d].job, job)
          /\ \A i \in 1..Len(queue) : ~SameDeploy(job, queue[i])
          /\ \A t \in Threads : ~SameDeploy(job, pool[t].job)
      BY <1>1 DEF OneJobPerVersion
    <2>4. \A i \in 1..Len(queue) : ~SameDeploy(queue[i], job)
      BY <2>3 DEF SameDeploy
    <2>5. /\ \A i \in 1..Len(queue'), j \in 1..Len(queue') :
               SameDeploy(queue'[i], queue'[j]) => i = j
          /\ \A d \in Clients, i \in 1..Len(queue') : ~SameDeploy(request'[d].job, queue'[i])
          /\ \A i \in 1..Len(queue'), t \in Threads : ~SameDeploy(queue'[i], pool[t].job)
      <3>1. \A i \in 1..Len(queue'), j \in 1..Len(queue') :
               SameDeploy(queue'[i], queue'[j]) => i = j
        BY <1>4, <2>3, <2>4 DEF OneJobPerVersion
      <3>2. \A d \in Clients, i \in 1..Len(queue') : ~SameDeploy(request'[d].job, queue'[i])
        BY <1>4, <2>1, <2>2, <2>3 DEF OneJobPerVersion
      <3>3. \A i \in 1..Len(queue'), t \in Threads : ~SameDeploy(queue'[i], pool[t].job)
        BY <1>4, <2>3 DEF OneJobPerVersion
      <3>4. QED
        BY <3>1, <3>2, <3>3
    <2>6. QED
      BY <1>3, <2>1, <2>2, <2>5 DEF OneJobPerVersion
  <1>10. ActiveIsSuccess'
    BY <1>3 DEF ActiveIsSuccess
  <1>11. QED
    BY <1>6, <1>7, <1>8, <1>9, <1>10

(* A task that is not a deploy puts no condition on anything.              *)
LEMMA NotADeploy ==
  ASSUME NEW job, job.kind # "deploy"
  PROVE  /\ Known(job) /\ Undecided(job) /\ Known(job)' /\ Undecided(job)'
         /\ \A k : ~SameDeploy(job, k) /\ ~SameDeploy(k, job)
  BY DEF Known, Undecided, SameDeploy

(* A request moves on, and may post a task that is not a deploy.            *)
LEMMA RequestMoves ==
  ASSUME IInv, SideTypes', NEW c \in Clients, NEW r \in [step : RequestStep, job : Job],
         request' = [request EXCEPT ![c] = r], RequestWell(r), r.job.kind # "deploy",
         workerStatus' \in [Workers -> WorkerStatus],
         \A w \in Workers : (workerStatus'[w] = "none" <=> workerStatus[w] = "none")
                         /\ (HasRow(w)' <=> HasRow(w)),
         UNCHANGED <<activeVersion, nextVersion, versionWorker, versionStatus, cr, revision,
                     pool, acked>>,
         deleteSent' \subseteq Workers,
         NEW job \in Job, job.kind # "deploy", TaskWell(job),
         queue' \in Seq(Job), Len(queue') <= QueueSize,
         \A i \in 1..Len(queue') :
           \/ i \in 1..Len(queue) /\ queue'[i] = queue[i]
           \/ i = Len(queue) + 1 /\ queue'[i] = job
  PROVE  IInv'
  <1> USE ConstantsAssumption DEF IInv
  <1>1. Known(job)' /\ Undecided(job)' /\ Known(r.job)' /\ Undecided(r.job)'
    BY NotADeploy
  <1>2. \A d \in Clients : (d # c => request'[d] = request[d]) /\ request'[c] = r
    BY DEF TypeOK
  <1>3. TypeOK'
    BY DEF TypeOK, SideTypes
  <1>4. Rows'
    BY DEF Rows, HasVersion, TypeOK
  <1>5. Tasks'
    <2>1. \A j : (Known(j) => Known(j)') /\ (Undecided(j) => Undecided(j)')
      BY DEF Known, Undecided
    <2>2. \A d \in Clients :
            Known(request[d].job)' /\ Undecided(request[d].job)' /\ RequestWell(request'[d])
      BY <2>1, <1>1, <1>2 DEF Tasks
    <2>3. \A i \in 1..Len(queue') :
            Known(queue[i])' /\ Undecided(queue[i])' /\ TaskWell(queue'[i])
      BY <2>1, <1>1 DEF Tasks
    <2>4. QED
      BY <2>1, <2>2, <2>3 DEF Tasks
  <1>6. OneJobPerVersion'
    <2>1. \A k : ~SameDeploy(job, k) /\ ~SameDeploy(k, job)
      BY NotADeploy
    <2>2. \A k : ~SameDeploy(r.job, k) /\ ~SameDeploy(k, r.job)
      BY NotADeploy
    <2>3. \A i \in 1..Len(queue'), j \in 1..Len(queue') :
            SameDeploy(queue'[i], queue'[j]) => i = j
      BY <2>1 DEF OneJobPerVersion
    <2>4. \A d, e \in Clients : SameDeploy(request'[d].job, request'[e].job) => d = e
      BY <1>2, <2>2 DEF OneJobPerVersion
    <2>5. \A d \in Clients, i \in 1..Len(queue') : ~SameDeploy(request'[d].job, queue'[i])
      BY <1>2, <2>1, <2>2 DEF OneJobPerVersion
    <2>6. \A d \in Clients, t \in Threads : ~SameDeploy(request'[d].job, pool[t].job)
      BY <1>2, <2>2 DEF OneJobPerVersion
    <2>7. \A i \in 1..Len(queue'), t \in Threads : ~SameDeploy(queue'[i], pool[t].job)
      BY <2>1 DEF OneJobPerVersion
    <2>8. QED
      BY <2>3, <2>4, <2>5, <2>6, <2>7 DEF OneJobPerVersion
  <1>7. ActiveIsSuccess'
    BY DEF ActiveIsSuccess
  <1>8. QED
    BY <1>3, <1>4, <1>5, <1>6, <1>7

LEMMA NoRequestFacts ==
  /\ NoRequest \in [step : RequestStep, job : Job] /\ RequestWell(NoRequest)
  /\ NoRequest.job.kind = "none" /\ NoRequest.step = "idle"
  BY ConstantsAssumption DEF NoRequest, NoJob, RequestStep, Job, RequestWell

LEMMA DeleteWorkerPreserves ==
  ASSUME IInv, SideTypes', NEW c \in Clients, NEW w \in Workers, DeleteWorker(c, w)
  PROVE  IInv'
  <1> USE DEF IInv
  <1>0. DeleteJob(w) \in Job /\ DeleteJob(w).kind = "delete" /\ DeleteJob(w).worker = w
    BY ConstantsAssumption DEF DeleteJob, Job
  <1>1. PICK job \in Job : job = DeleteJob(w)
    BY <1>0
  <1>2. PICK r : r = [step |-> "deleteRow", job |-> job]
    OBVIOUS
  <1>3. /\ r \in [step : RequestStep, job : Job] /\ RequestWell(r) /\ r.job.kind # "deploy"
        /\ TaskWell(job) /\ job.kind # "deploy"
    BY <1>0, <1>1, <1>2 DEF RequestStep, RequestWell, TaskWell
  <1>4. /\ request' = [request EXCEPT ![c] = r]
        /\ UNCHANGED <<workerStatus, activeVersion, nextVersion, versionWorker,
                       versionStatus, cr, revision, pool, acked>>
        /\ deleteSent' = deleteSent \cup {w}
    BY <1>1, <1>2 DEF DeleteWorker, dbVars, workerVars, versionVars, crVars
  <1>5. /\ queue' \in Seq(Job) /\ Len(queue') <= QueueSize
        /\ \A i \in 1..Len(queue') :
             \/ i \in 1..Len(queue) /\ queue'[i] = queue[i]
             \/ i = Len(queue) + 1 /\ queue'[i] = job
    BY <1>1, SendTaskEffect DEF DeleteWorker
  <1>6. /\ workerStatus' \in [Workers -> WorkerStatus] /\ deleteSent' \subseteq Workers
        /\ \A x \in Workers : (workerStatus'[x] = "none" <=> workerStatus[x] = "none")
                           /\ (HasRow(x)' <=> HasRow(x))
    BY <1>4 DEF TypeOK, HasRow
  <1>7. QED
    BY <1>3, <1>4, <1>5, <1>6, RequestMoves

LEMMA SetWorkerConfigPreserves ==
  ASSUME IInv, SideTypes', NEW c \in Clients, NEW w \in Workers, SetWorkerConfig(c, w)
  PROVE  IInv'
  <1> USE DEF IInv
  <1>0. SyncJob(w) \in Job /\ SyncJob(w).kind = "sync" /\ SyncJob(w).worker = w
    BY ConstantsAssumption DEF SyncJob, Job
  <1>1. PICK job \in Job : job = SyncJob(w)
    BY <1>0
  <1>2. PICK r \in [step : RequestStep, job : Job] :
          /\ request' = [request EXCEPT ![c] = r]
          /\ RequestWell(r) /\ r.job.kind # "deploy"
    <2>1. CASE request' = request
      <3>1. request[c] \in [step : RequestStep, job : Job] /\ RequestWell(request[c])
                /\ request[c].job.kind # "deploy"
        BY DEF SetWorkerConfig, Tasks, RequestWell, TypeOK
      <3>2. request' = [request EXCEPT ![c] = request[c]]
        BY <2>1 DEF TypeOK
      <3>3. QED
        BY <3>1, <3>2
    <2>2. CASE request' = [request EXCEPT ![c] = [step |-> "sendSync", job |-> job]]
      <3>1. PICK r : r = [step |-> "sendSync", job |-> job]
        OBVIOUS
      <3>2. r \in [step : RequestStep, job : Job] /\ RequestWell(r) /\ r.job.kind # "deploy"
        BY <1>0, <1>1, <3>1 DEF RequestStep, RequestWell
      <3>3. QED
        BY <2>2, <3>1, <3>2
    <2>3. QED
      BY <1>1, <2>1, <2>2 DEF SetWorkerConfig
  <1>3. TaskWell(job) /\ job.kind # "deploy"
    BY <1>0, <1>1 DEF TaskWell
  <1>4. /\ UNCHANGED <<activeVersion, nextVersion, versionWorker, versionStatus, cr, revision,
                       queue, pool, acked, deleteSent>>
        /\ HasRow(w) /\ workerStatus' = [workerStatus EXCEPT ![w] = "loading"]
    BY DEF SetWorkerConfig, versionVars, crVars
  <1>5. /\ workerStatus' \in [Workers -> WorkerStatus] /\ deleteSent' \subseteq Workers
        /\ \A x \in Workers : (workerStatus'[x] = "none" <=> workerStatus[x] = "none")
                           /\ (HasRow(x)' <=> HasRow(x))
    BY <1>4 DEF TypeOK, HasRow, WorkerStatus, RowStatus
  <1>6. /\ queue' \in Seq(Job) /\ Len(queue') <= QueueSize
        /\ \A i \in 1..Len(queue') : i \in 1..Len(queue) /\ queue'[i] = queue[i]
    BY <1>4 DEF TypeOK
  <1>7. QED
    BY <1>2, <1>3, <1>4, <1>5, <1>6, RequestMoves

LEMMA SendSyncPreserves ==
  ASSUME IInv, SideTypes', NEW c \in Clients, SendSync(c)
  PROVE  IInv'
  <1> USE DEF IInv
  <1>1. PICK job \in Job : job = request[c].job
    BY DEF TypeOK
  <1>2. job.kind = "sync" /\ job.worker \in Workers /\ TaskWell(job)
    BY <1>1 DEF SendSync, Tasks, RequestWell, TaskWell
  <1>3. /\ request' = [request EXCEPT ![c] = NoRequest]
        /\ UNCHANGED <<workerStatus, activeVersion, nextVersion, versionWorker,
                       versionStatus, cr, revision, pool, acked, deleteSent>>
    BY DEF SendSync, dbVars, workerVars, versionVars, crVars, history
  <1>4. /\ queue' \in Seq(Job) /\ Len(queue') <= QueueSize
        /\ \A i \in 1..Len(queue') :
             \/ i \in 1..Len(queue) /\ queue'[i] = queue[i]
             \/ i = Len(queue) + 1 /\ queue'[i] = job
    BY <1>1, SendTaskEffect DEF SendSync
  <1>5. /\ workerStatus' \in [Workers -> WorkerStatus] /\ deleteSent' \subseteq Workers
        /\ \A x \in Workers : (workerStatus'[x] = "none" <=> workerStatus[x] = "none")
                           /\ (HasRow(x)' <=> HasRow(x))
    BY <1>3 DEF TypeOK, HasRow
  <1>6. QED
    BY <1>2, <1>3, <1>4, <1>5, NoRequestFacts, RequestMoves

LEMMA DeleteRowPreserves ==
  ASSUME IInv, SideTypes', NEW c \in Clients, DeleteRow(c)
  PROVE  IInv'
  <1> USE ConstantsAssumption DEF IInv
  <1>1. PICK w \in Workers : w = request[c].job.worker
    BY DEF DeleteRow, Tasks, RequestWell
  <1>2. /\ request' = [request EXCEPT ![c] = NoRequest]
        /\ UNCHANGED <<nextVersion, versionWorker, cr, revision, queue, pool, acked, deleteSent>>
        /\ \/ /\ HasRow(w)
              /\ workerStatus'  = [workerStatus EXCEPT ![w] = "deleted"]
              /\ activeVersion' = [activeVersion EXCEPT ![w] = 0]
              /\ versionStatus' = [v \in Versions |->
                    IF versionWorker[v] = w THEN "none" ELSE versionStatus[v]]
           \/ UNCHANGED <<workerStatus, activeVersion, versionStatus>>
    BY <1>1 DEF DeleteRow, workerVars, crVars, history
  <1>3. NoRequest.job.kind = "none" /\ NoRequest.step = "idle"
    BY DEF NoRequest, NoJob
  <1>4. \A d \in Clients : (d # c => request'[d] = request[d]) /\ request'[c] = NoRequest
    BY <1>2 DEF TypeOK
  <1>5. TypeOK'
    <2>1. NoRequest \in [step : RequestStep, job : Job]
      BY DEF NoRequest, NoJob, RequestStep, Job
    <2>2. versionStatus' \in [Versions -> VersionStatus]
      <3>1. \A v \in Versions : versionStatus[v] \in VersionStatus /\ "none" \in VersionStatus
        BY DEF TypeOK, VersionStatus
      <3>2. CASE versionStatus' = versionStatus
        BY <3>2 DEF TypeOK
      <3>3. CASE versionStatus' = [v \in Versions |->
                    IF versionWorker[v] = w THEN "none" ELSE versionStatus[v]]
        BY <3>1, <3>3
      <3>4. QED
        BY <1>2, <3>2, <3>3
    <2>3. workerStatus' \in [Workers -> WorkerStatus] /\ activeVersion' \in [Workers -> 0..MaxVersion]
      <3>1. CASE UNCHANGED <<workerStatus, activeVersion>>
        BY <3>1 DEF TypeOK
      <3>2. CASE /\ workerStatus'  = [workerStatus EXCEPT ![w] = "deleted"]
                 /\ activeVersion' = [activeVersion EXCEPT ![w] = 0]
        BY <3>2 DEF TypeOK, WorkerStatus
      <3>3. QED
        BY <1>2, <3>1, <3>2
    <2>4. QED
      BY <1>2, <2>1, <2>2, <2>3 DEF TypeOK, SideTypes
  <1>6. Rows'
    BY <1>2 DEF TypeOK, Rows, HasRow, HasVersion, RowStatus
  <1>7. Tasks'
    <2>1. \A j : Known(j) => Known(j)'
      BY <1>2 DEF Known
    <2>2. \A j : Known(j) /\ Undecided(j) => Undecided(j)'
      BY <1>2 DEF Known, Undecided
    <2>3. Known(NoRequest.job)' /\ Undecided(NoRequest.job)' /\ RequestWell(NoRequest)
      BY <1>3, NoRequestFacts DEF Known, Undecided
    <2>4. \A d \in Clients :
         Known(request[d].job)' /\ Undecided(request[d].job)' /\ RequestWell(request'[d])
      BY <2>1, <2>2, <2>3, <1>3, <1>4 DEF Tasks
    <2>5. QED
      BY <1>2, <2>1, <2>2, <2>4 DEF Tasks
  <1>8. OneJobPerVersion'
    <2>1. \A k : ~SameDeploy(NoRequest.job, k) /\ ~SameDeploy(k, NoRequest.job)
      BY <1>3, NotADeploy
    <2>2. QED
      BY <1>2, <1>4, <2>1 DEF OneJobPerVersion
  <1>9. ActiveIsSuccess'
    BY <1>2 DEF TypeOK, ActiveIsSuccess, Versions
  <1>10. QED
    BY <1>5, <1>6, <1>7, <1>8, <1>9

(* The first step of each kind of task.                                    *)
LEMMA FirstStepOf ==
  ASSUME NEW job \in Job, job.kind # "none"
  PROVE  \/ job.kind = "deploy" /\ FirstStep[job.kind] = "load"
         \/ job.kind = "delete" /\ FirstStep[job.kind] = "deleteCR"
         \/ job.kind = "sync"   /\ FirstStep[job.kind] = "sync"
         \/ job.kind = "audit"  /\ FirstStep[job.kind] = "auditLoad"
  <1>1. job.kind \in {"deploy", "delete", "sync", "audit"}
    BY DEF Job
  <1>2. QED
    BY <1>1 DEF FirstStep

LEMMA StartJobPreserves ==
  ASSUME IInv, SideTypes', NEW t \in Threads, StartJob(t)
  PROVE  IInv'
  <1> USE ConstantsAssumption DEF IInv
  <1>1. /\ Len(queue) \in Nat \ {0} /\ queue' \in Seq(Job)
        /\ Len(queue') = Len(queue) - 1
        /\ \A i \in 1..Len(queue') : i + 1 \in 1..Len(queue) /\ queue'[i] = queue[i + 1]
        /\ Head(queue) = queue[1] /\ 1 \in 1..Len(queue) /\ Head(queue) \in Job
    BY HeadTailFacts DEF StartJob, TypeOK
  <1>2. PICK job \in Job : job = queue[1]
    BY <1>1
  <1>f. Known(job) /\ Undecided(job) /\ TaskWell(job)
    BY <1>1, <1>2 DEF Tasks
  <1>s. /\ FirstStep[job.kind] \in JobStep
        /\ FirstStep[job.kind] = "load" <=> job.kind = "deploy"
        /\ FirstStep[job.kind] \in DeploySteps => FirstStep[job.kind] = "load"
        /\ FirstStep[job.kind] \in {"deleteCR", "sync", "syncActive", "syncError"} => job.kind # "audit"
        /\ FirstStep[job.kind] # "failWorker"
    BY <1>f, FirstStepOf DEF TaskWell, JobStep, DeploySteps
  <1>3. PICK e \in [step : JobStep, job : Job, seen : Nat] :
          e = [step |-> FirstStep[job.kind], job |-> job, seen |-> 0]
    BY <1>s
  <1>4. /\ pool' = [pool EXCEPT ![t] = e]
        /\ UNCHANGED <<workerStatus, activeVersion, nextVersion, versionWorker,
                       versionStatus, cr, revision, request, acked, deleteSent>>
    BY <1>1, <1>2, <1>3 DEF StartJob, dbVars, workerVars, versionVars, crVars, history
  <1>5. \A u \in Threads : (u # t => pool'[u] = pool[u]) /\ pool'[t] = e
    BY <1>4 DEF TypeOK
  <1>6. e.job = job /\ e.step = FirstStep[job.kind] /\ EntryWell(e) /\ e.step # "failWorker"
    BY <1>f, <1>s, <1>3 DEF TaskWell, EntryWell, DeploySteps
  <1>7. TypeOK'
    BY <1>1, <1>4 DEF TypeOK, SideTypes
  <1>8. Rows'
    BY <1>4 DEF Rows, HasRow, HasVersion
  <1>9. Tasks'
    <2>1. \A j : (Known(j) => Known(j)') /\ (Undecided(j) => Undecided(j)')
      BY <1>4 DEF Known, Undecided
    <2>2. \A u \in Threads :
       /\ Known(pool[u].job)'
       /\ pool'[u].step # "failWorker" => Undecided(pool[u].job)'
       /\ EntryWell(pool'[u])
      BY <2>1, <1>f, <1>5, <1>6 DEF Tasks
    <2>3. \A i \in 1..Len(queue') :
         Known(queue[i])' /\ Undecided(queue[i])' /\ TaskWell(queue'[i])
      BY <2>1, <1>1 DEF Tasks
    <2>4. QED
      BY <1>4, <2>1, <2>2, <2>3 DEF Tasks
  <1>10. OneJobPerVersion'
    <2>1. /\ \A i \in 1..Len(queue') : ~SameDeploy(queue'[i], job)
          /\ \A c \in Clients : ~SameDeploy(request[c].job, job)
          /\ \A u \in Threads : ~SameDeploy(job, pool[u].job) /\ ~SameDeploy(pool[u].job, job)
      BY <1>1, <1>2 DEF OneJobPerVersion, SameDeploy
    <2>2. \A i \in 1..Len(queue'), j \in 1..Len(queue') :
            SameDeploy(queue'[i], queue'[j]) => i = j
      BY <1>1 DEF OneJobPerVersion
    <2>3. \A i \in 1..Len(queue'), u \in Threads : ~SameDeploy(queue'[i], pool'[u].job)
      BY <1>1, <1>5, <1>6, <2>1 DEF OneJobPerVersion
    <2>4. \A c \in Clients, i \in 1..Len(queue') : ~SameDeploy(request[c].job, queue'[i])
      BY <1>1 DEF OneJobPerVersion
    <2>5. \A u, x \in Threads : SameDeploy(pool'[u].job, pool'[x].job) => u = x
      BY <1>5, <1>6, <2>1 DEF OneJobPerVersion
    <2>6. \A c \in Clients, u \in Threads : ~SameDeploy(request[c].job, pool'[u].job)
      BY <1>5, <1>6, <2>1 DEF OneJobPerVersion
    <2>7. QED
      BY <1>4, <2>2, <2>3, <2>4, <2>5, <2>6 DEF OneJobPerVersion
  <1>11. ActiveIsSuccess'
    BY <1>4 DEF ActiveIsSuccess
  <1>12. QED
    BY <1>7, <1>8, <1>9, <1>10, <1>11

-----------------------------------------------------------------------------
(* A step of a job changes the entry of one thread, at most the status of  *)
(* the version the job carries, and no worker's row comes or goes.         *)
JobEntry == [step : JobStep, job : Job, seen : Nat]

SameRows ==
  \A w \in Workers : (workerStatus'[w] = "none" <=> workerStatus[w] = "none")
                  /\ (HasRow(w)' <=> HasRow(w))

LEMMA JobStepPreserves ==
  ASSUME IInv, SideTypes', NEW t \in Threads, NEW e \in JobEntry,
         pool' = [pool EXCEPT ![t] = e],
         UNCHANGED <<nextVersion, versionWorker, request, queue, acked, deleteSent>>,
         workerStatus' \in [Workers -> WorkerStatus], SameRows,
         activeVersion' \in [Workers -> 0..MaxVersion],
         cr' \in [Workers -> 0..MaxVersion], revision' \in [Workers -> Nat],
         e = Idle \/ (e.job = pool[t].job /\ EntryWell(e)),
         \/ versionStatus' = versionStatus /\ (e = Idle \/ pool[t].step # "failWorker")
         \/ /\ pool[t].job.kind = "deploy"
            /\ e = Idle \/ e.step = "failWorker"
            /\ \E s \in {"success", "error"} : SetVersionStatus(pool[t].job.version, s)
  PROVE  TypeOK' /\ Rows' /\ Tasks' /\ OneJobPerVersion'
  <1> USE ConstantsAssumption DEF IInv
  <1>1. PICK v : v = pool[t].job.version
    OBVIOUS
  <1>2. \A u \in Threads : (u # t => pool'[u] = pool[u]) /\ pool'[t] = e
    BY DEF TypeOK
  <1>3. Idle.job.kind = "none" /\ Idle.step = "idle"
    BY DEF Idle, NoJob
  <1>4. versionStatus' = versionStatus \/ pool[t].job.kind = "deploy"
    OBVIOUS
  <1>5. /\ versionStatus' \in [Versions -> VersionStatus]
        /\ \A x \in Versions : (x # v => versionStatus'[x] = versionStatus[x])
                            /\ (HasVersion(x)' <=> HasVersion(x))
    BY <1>1 DEF TypeOK, SetVersionStatus, HasVersion, VersionStatus
  <1>6. TypeOK'
    <2>1. pool' \in [Threads -> [step : JobStep, job : Job, seen : Nat]]
      BY DEF TypeOK, JobEntry
    <2>2. QED
      BY <1>5, <2>1 DEF TypeOK, SideTypes
  <1>7. Rows'
    BY <1>5 DEF TypeOK, Rows, SameRows, HasRow, HasVersion
  <1>8. Tasks'
    <2>1. \A j : Known(j) => Known(j)'
      BY DEF Known
    <2>2. \A j : Known(j) /\ Undecided(j) /\ ~SameDeploy(j, pool[t].job) => Undecided(j)'
      BY <1>1, <1>4, <1>5 DEF Known, Undecided, SameDeploy
    <2>3. /\ Known(e.job)'
          /\ e.step # "failWorker" => Undecided(e.job)'
          /\ EntryWell(e)
      <3>1. CASE e = Idle
        BY <3>1, <1>3 DEF Known, Undecided, DeploySteps, EntryWell
      <3>2. CASE e # Idle
        <4>1. e.job = pool[t].job /\ EntryWell(e)
          BY <3>2
        <4>2. Known(e.job)'
          BY <4>1, <2>1 DEF Tasks
        <4>3. e.step # "failWorker" => Undecided(e.job)'
          BY <3>2, <4>1 DEF Tasks, Undecided
        <4>4. QED
          BY <4>1, <4>2, <4>3
      <3>3. QED
        BY <3>1, <3>2
    <2>4. \A c \in Clients : Known(request[c].job)' /\ Undecided(request[c].job)'
      BY <2>1, <2>2 DEF Tasks, OneJobPerVersion
    <2>5. \A i \in 1..Len(queue) : Known(queue[i])' /\ Undecided(queue[i])'
      BY <2>1, <2>2 DEF Tasks, OneJobPerVersion
    <2>6. \A u \in Threads :
       /\ Known(pool[u].job)'
       /\ pool'[u].step # "failWorker" => Undecided(pool[u].job)'
       /\ EntryWell(pool'[u])
      <3>1. TAKE u \in Threads
      <3>2. CASE u = t
        BY <3>2, <1>2, <2>3
      <3>3. CASE u # t
        <4>1. pool'[u] = pool[u] /\ ~SameDeploy(pool[u].job, pool[t].job)
          BY <3>3, <1>2 DEF OneJobPerVersion
        <4>2. QED
          BY <4>1, <2>1, <2>2 DEF Tasks
      <3>4. QED
        BY <3>2, <3>3
    <2>7. QED
      BY <2>4, <2>5, <2>6 DEF Tasks
  <1>9. OneJobPerVersion'
    <2>1. \A u \in Threads : pool'[u].job = pool[u].job \/ pool'[u].job.kind = "none"
      BY <1>2, <1>3
    <2>2. QED
      BY <2>1 DEF OneJobPerVersion, SameDeploy
  <1>10. QED
    BY <1>6, <1>7, <1>8, <1>9

(* Most steps of a job leave the rows alone.                               *)
LEMMA QuietJobStepPreserves ==
  ASSUME IInv, SideTypes', NEW t \in Threads, NEW e \in JobEntry,
         pool' = [pool EXCEPT ![t] = e],
         UNCHANGED <<workerStatus, activeVersion, nextVersion, versionWorker, versionStatus,
                     request, queue, acked, deleteSent>>,
         cr' \in [Workers -> 0..MaxVersion], revision' \in [Workers -> Nat],
         \/ e = Idle
         \/ e.job = pool[t].job /\ EntryWell(e) /\ pool[t].step # "failWorker"
  PROVE  IInv'
  <1>1. TypeOK' /\ Rows' /\ Tasks' /\ OneJobPerVersion'
    <2>1. SameRows /\ workerStatus' \in [Workers -> WorkerStatus]
                   /\ activeVersion' \in [Workers -> 0..MaxVersion]
      BY DEF SameRows, HasRow, IInv, TypeOK
    <2>2. QED
      BY <2>1, JobStepPreserves
  <1>2. ActiveIsSuccess'
    BY DEF IInv, ActiveIsSuccess
  <1>3. QED
    BY <1>1, <1>2 DEF IInv

(* What a thread that runs a deploy task knows.                            *)
LEMMA DeployTask ==
  ASSUME IInv, NEW t \in Threads, pool[t].step \in DeploySteps
  PROVE  /\ pool[t].job.kind = "deploy" /\ pool[t] \in JobEntry
         /\ JobVersion(t) = pool[t].job.version /\ JobWorker(t) = pool[t].job.worker
         /\ JobVersion(t) \in Versions /\ JobVersion(t) < nextVersion
         /\ JobVersion(t) \in 0..MaxVersion
         /\ JobWorker(t) \in Workers
         /\ versionWorker[JobVersion(t)] = JobWorker(t)
         /\ HasVersion(JobVersion(t)) <=> HasRow(JobWorker(t))
  BY ConstantsAssumption DEF IInv, TypeOK, Tasks, EntryWell, Known, Rows, JobVersion, JobWorker, JobEntry,
     Versions

(* A deploy task that goes on to one of its steps stays well formed.       *)
LEMMA DeployGoesOn ==
  ASSUME NEW e \in JobEntry, e.step \in DeploySteps, e.job.kind = "deploy"
  PROVE  EntryWell(e)
  BY DEF EntryWell, DeploySteps

LEMMA GotoEntry ==
  ASSUME TypeOK, NEW t \in Threads, NEW step \in JobStep, Goto(t, step)
  PROVE  \E e \in JobEntry : /\ pool' = [pool EXCEPT ![t] = e]
                             /\ e.job = pool[t].job /\ e.step = step
  <1>1. PICK e \in JobEntry : e = [pool[t] EXCEPT !.step = step]
    BY DEF TypeOK, JobEntry
  <1>2. pool' = [pool EXCEPT ![t] = e]
    BY <1>1 DEF Goto
  <1>3. QED
    BY <1>1, <1>2 DEF TypeOK

LEMMA IdleEntry == Idle \in JobEntry
  BY ConstantsAssumption DEF Idle, NoJob, JobEntry, JobStep, Job

LEMMA DeployLoadPreserves ==
  ASSUME IInv, SideTypes', NEW t \in Threads, DeployLoad(t)
  PROVE  IInv'
  <1>1. /\ pool[t].step = "load" /\ pool[t].step \in DeploySteps
        /\ UNCHANGED <<workerStatus, activeVersion, nextVersion, versionWorker, cr, revision,
                       request, queue, acked, deleteSent>>
    BY DEF DeployLoad, DeploySteps, workerVars, crVars, history
  <1>2. /\ cr' \in [Workers -> 0..MaxVersion] /\ revision' \in [Workers -> Nat]
        /\ workerStatus' \in [Workers -> WorkerStatus]
        /\ activeVersion' \in [Workers -> 0..MaxVersion] /\ SameRows
    BY <1>1 DEF IInv, TypeOK, SameRows, HasRow
  <1>3. CASE Goto(t, "get") /\ UNCHANGED versionStatus
    <2>1. PICK e \in JobEntry : /\ pool' = [pool EXCEPT ![t] = e]
                                /\ e.job = pool[t].job /\ e.step = "get"
      BY <1>3, GotoEntry DEF IInv, JobStep
    <2>2. QED
      BY <1>1, <1>2, <1>3, <2>1, DeployTask, DeployGoesOn, QuietJobStepPreserves DEF DeploySteps
  <1>4. CASE Finish(t) /\ UNCHANGED versionStatus
    BY <1>1, <1>2, <1>4, IdleEntry, DeployGoesOn, QuietJobStepPreserves DEF Finish
  <1>5. CASE Finish(t) /\ SetVersionStatus(JobVersion(t), "error")
    <2>1. TypeOK' /\ Rows' /\ Tasks' /\ OneJobPerVersion'
      BY <1>1, <1>2, <1>5, IdleEntry, DeployTask, DeployGoesOn, JobStepPreserves DEF Finish
    <2>2. ActiveIsSuccess'
      <3>1. Undecided(pool[t].job) /\ pool[t].job.kind = "deploy"
        BY <1>1, DeployTask DEF IInv, Tasks
      <3>2. QED
        BY <1>1, <1>5, <3>1, DeployTask
           DEF IInv, TypeOK, ActiveIsSuccess, Undecided, SetVersionStatus
    <2>3. QED
      BY <2>1, <2>2 DEF IInv
  <1>6. QED
    BY <1>3, <1>4, <1>5 DEF DeployLoad

LEMMA DeployGetPreserves ==
  ASSUME IInv, SideTypes', NEW t \in Threads, DeployGet(t)
  PROVE  IInv'
  <1>1. /\ pool[t].step = "get" /\ pool[t].step \in DeploySteps
        /\ UNCHANGED <<workerStatus, activeVersion, nextVersion, versionWorker, versionStatus,
                       cr, revision, request, queue, acked, deleteSent>>
    BY DEF DeployGet, DeploySteps, dbVars, workerVars, versionVars, crVars, history
  <1>2. /\ cr' \in [Workers -> 0..MaxVersion] /\ revision' \in [Workers -> Nat]
        /\ JobWorker(t) \in Workers /\ pool[t].job.kind = "deploy" /\ pool[t] \in JobEntry
    BY <1>1, DeployTask DEF IInv, TypeOK
  <1>3. \E e \in JobEntry : /\ pool' = [pool EXCEPT ![t] = e]
                            /\ e.job = pool[t].job /\ e.step \in {"create", "update"}
    <2>1. CASE Goto(t, "create")
      BY <2>1, GotoEntry DEF IInv, JobStep
    <2>2. CASE pool' = [pool EXCEPT ![t].step = "update", ![t].seen = revision[JobWorker(t)]]
      <3>1. revision[JobWorker(t)] \in Nat
        BY <1>2 DEF IInv, TypeOK
      <3>2. PICK e : e = [step |-> "update", job |-> pool[t].job, seen |-> revision[JobWorker(t)]]
        OBVIOUS
      <3>3. e \in JobEntry /\ e.job = pool[t].job /\ e.step = "update"
        BY <1>2, <3>1, <3>2 DEF JobEntry, JobStep
      <3>4. pool' = [pool EXCEPT ![t] = e]
        <4>1. [pool EXCEPT ![t].step = "update", ![t].seen = revision[JobWorker(t)]][t] = e
          <5>1. pool \in [Threads -> JobEntry]
            BY DEF IInv, TypeOK, JobEntry
          <5>2. QED
            BY <5>1, <3>2 DEF JobEntry
        <4>2. QED
          BY <2>2, <4>1 DEF IInv, TypeOK
      <3>5. QED
        BY <3>3, <3>4
    <2>3. QED
      BY <2>1, <2>2 DEF DeployGet
  <1>4. QED
    BY <1>1, <1>2, <1>3, DeployGoesOn, QuietJobStepPreserves DEF DeploySteps

LEMMA ApplyCRPreserves ==
  ASSUME IInv, SideTypes', NEW t \in Threads, ApplyCR(t)
  PROVE  IInv'
  <1>1. /\ pool[t].step \in {"create", "update"} /\ pool[t].step \in DeploySteps
        /\ UNCHANGED <<workerStatus, activeVersion, nextVersion, versionWorker, versionStatus,
                       request, queue, acked, deleteSent>>
    BY DEF ApplyCR, DeploySteps, dbVars, workerVars, versionVars, history
  <1>2. JobWorker(t) \in Workers /\ JobVersion(t) \in 0..MaxVersion /\ pool[t].job.kind = "deploy"
    BY <1>1, DeployTask
  <1>3. cr' \in [Workers -> 0..MaxVersion] /\ revision' \in [Workers -> Nat]
    <2>1. CASE UNCHANGED crVars
      BY <2>1 DEF crVars, IInv, TypeOK
    <2>2. CASE WriteCR(JobWorker(t), JobVersion(t))
      BY <1>2, <2>2 DEF WriteCR, IInv, TypeOK
    <2>3. QED
      BY <2>1, <2>2 DEF ApplyCR
  <1>4. PICK step \in {"succeed", "failVersion"} : Goto(t, step)
    BY DEF ApplyCR
  <1>5. PICK e \in JobEntry : /\ pool' = [pool EXCEPT ![t] = e]
                              /\ e.job = pool[t].job /\ e.step = step
    BY <1>4, GotoEntry DEF IInv, JobStep
  <1>6. QED
    BY <1>1, <1>2, <1>3, <1>4, <1>5, DeployGoesOn, QuietJobStepPreserves DEF DeploySteps

LEMMA FailVersionPreserves ==
  ASSUME IInv, SideTypes', NEW t \in Threads, FailVersion(t)
  PROVE  IInv'
  <1>1. /\ pool[t].step = "failVersion" /\ pool[t].step \in DeploySteps
        /\ UNCHANGED <<workerStatus, activeVersion, nextVersion, versionWorker, cr, revision,
                       request, queue, acked, deleteSent>>
    BY DEF FailVersion, DeploySteps, workerVars, crVars, history
  <1>2. /\ cr' \in [Workers -> 0..MaxVersion] /\ revision' \in [Workers -> Nat]
        /\ workerStatus' \in [Workers -> WorkerStatus]
        /\ activeVersion' \in [Workers -> 0..MaxVersion] /\ SameRows
    BY <1>1 DEF IInv, TypeOK, SameRows, HasRow
  <1>3. PICK e \in JobEntry : /\ pool' = [pool EXCEPT ![t] = e]
                              /\ e.job = pool[t].job /\ e.step = "failWorker"
    BY GotoEntry DEF FailVersion, IInv, JobStep
  <1>4. e.step \in DeploySteps /\ pool[t].job.kind = "deploy"
    BY <1>1, <1>3, DeployTask DEF DeploySteps
  <1>5. CASE UNCHANGED versionStatus
    BY <1>1, <1>2, <1>3, <1>4, <1>5, DeployGoesOn, QuietJobStepPreserves
  <1>6. CASE SetVersionStatus(JobVersion(t), "error")
    <2>1. TypeOK' /\ Rows' /\ Tasks' /\ OneJobPerVersion'
      BY <1>1, <1>2, <1>3, <1>4, <1>6, DeployTask, DeployGoesOn, JobStepPreserves
    <2>2. ActiveIsSuccess'
      <3>1. Undecided(pool[t].job)
        BY <1>1 DEF IInv, Tasks
      <3>2. QED
        BY <1>1, <1>4, <1>6, <3>1, DeployTask
           DEF IInv, TypeOK, ActiveIsSuccess, Undecided, SetVersionStatus
    <2>3. QED
      BY <2>1, <2>2 DEF IInv
  <1>7. QED
    BY <1>5, <1>6 DEF FailVersion

LEMMA FailWorkerPreserves ==
  ASSUME IInv, SideTypes', NEW t \in Threads, FailWorker(t)
  PROVE  IInv'
  <1>1. /\ pool' = [pool EXCEPT ![t] = Idle]
        /\ UNCHANGED <<activeVersion, nextVersion, versionWorker, versionStatus, cr, revision,
                       request, queue, acked, deleteSent>>
        /\ workerStatus' = workerStatus \/ SetWorkerStatus(JobWorker(t), "error")
    BY DEF FailWorker, Finish, versionVars, crVars, history
  <1>2. /\ workerStatus' \in [Workers -> WorkerStatus] /\ SameRows
    BY <1>1 DEF IInv, TypeOK, SameRows, HasRow, SetWorkerStatus, WorkerStatus, RowStatus
  <1>3. /\ cr' \in [Workers -> 0..MaxVersion] /\ revision' \in [Workers -> Nat]
        /\ activeVersion' \in [Workers -> 0..MaxVersion]
    BY <1>1 DEF IInv, TypeOK
  <1>4. TypeOK' /\ Rows' /\ Tasks' /\ OneJobPerVersion'
    BY <1>1, <1>2, <1>3, IdleEntry, JobStepPreserves
  <1>5. ActiveIsSuccess'
    BY <1>1 DEF IInv, ActiveIsSuccess
  <1>6. QED
    BY <1>4, <1>5 DEF IInv

LEMMA DeployVersionSuccessPreserves ==
  ASSUME IInv, SideTypes', NEW t \in Threads, DeployVersionSuccess(t)
  PROVE  IInv'
  <1>1. PICK w \in Workers, v \in Versions :
           /\ w = JobWorker(t) /\ v = JobVersion(t) /\ v = pool[t].job.version
           /\ versionWorker[v] = w /\ (HasVersion(v) <=> HasRow(w)) /\ v \in 0..MaxVersion
           /\ pool[t].job.kind = "deploy"
    BY DeployTask DEF DeployVersionSuccess, DeploySteps
  <1>2. /\ pool' = [pool EXCEPT ![t] = Idle]
        /\ UNCHANGED <<nextVersion, versionWorker, cr, revision, request, queue, acked, deleteSent>>
        /\ \/ /\ SetVersionStatus(v, "success")
              /\ SetWorkerStatus(w, "active")
              /\ activeVersion' = IF HasRow(w) THEN [activeVersion EXCEPT ![w] = v]
                                               ELSE activeVersion
           \/ UNCHANGED <<workerStatus, activeVersion, versionStatus>>
    BY <1>1 DEF DeployVersionSuccess, Finish, workerVars, crVars, history
  <1>3. /\ workerStatus' \in [Workers -> WorkerStatus] /\ SameRows
    BY <1>2 DEF IInv, TypeOK, SameRows, HasRow, SetWorkerStatus, WorkerStatus, RowStatus
  <1>4. activeVersion' \in [Workers -> 0..MaxVersion]
    BY <1>1, <1>2 DEF IInv, TypeOK
  <1>5. cr' \in [Workers -> 0..MaxVersion] /\ revision' \in [Workers -> Nat]
    BY <1>2 DEF IInv, TypeOK
  <1>6. TypeOK' /\ Rows' /\ Tasks' /\ OneJobPerVersion'
    BY <1>1, <1>2, <1>3, <1>4, <1>5, IdleEntry, JobStepPreserves
  <1>7. ActiveIsSuccess'
    <2>1. CASE UNCHANGED <<workerStatus, activeVersion, versionStatus>>
      BY <1>2, <2>1 DEF IInv, ActiveIsSuccess
    <2>2. CASE SetVersionStatus(v, "success") /\ ~HasRow(w) /\ UNCHANGED activeVersion
      BY <1>1, <1>2, <2>2 DEF IInv, ActiveIsSuccess, SetVersionStatus
    <2>3. CASE /\ SetVersionStatus(v, "success") /\ HasRow(w)
               /\ activeVersion' = [activeVersion EXCEPT ![w] = v]
      BY <1>1, <1>2, <2>3 DEF IInv, TypeOK, ActiveIsSuccess, SetVersionStatus
    <2>4. QED
      BY <1>2, <2>1, <2>2, <2>3
  <1>8. QED
    BY <1>6, <1>7 DEF IInv

LEMMA DeleteCRPreserves ==
  ASSUME IInv, SideTypes', NEW t \in Threads, DeleteCR(t)
  PROVE  IInv'
  <1>1. /\ pool' = [pool EXCEPT ![t] = Idle]
        /\ UNCHANGED <<workerStatus, activeVersion, nextVersion, versionWorker, versionStatus,
                       revision, request, queue, acked, deleteSent>>
        /\ cr' = cr \/ cr' = [cr EXCEPT ![JobWorker(t)] = 0]
    BY DEF DeleteCR, Finish, dbVars, workerVars, versionVars, history
  <1>2. cr' \in [Workers -> 0..MaxVersion] /\ revision' \in [Workers -> Nat]
    <2>1. 0 \in 0..MaxVersion
      BY ConstantsAssumption
    <2>2. CASE cr' = [cr EXCEPT ![JobWorker(t)] = 0]
      BY <1>1, <2>1, <2>2 DEF IInv, TypeOK
    <2>3. CASE cr' = cr
      BY <1>1, <2>3 DEF IInv, TypeOK
    <2>4. QED
      BY <1>1, <2>2, <2>3
  <1>3. QED
    BY <1>1, <1>2, IdleEntry, QuietJobStepPreserves

(* The tasks that are not deployments: a goroutine goes on with its task,  *)
(* and writes at most the status of a worker that has a row.               *)
LEMMA OtherJobStepPreserves ==
  ASSUME IInv, SideTypes', NEW t \in Threads, NEW e \in JobEntry,
         pool' = [pool EXCEPT ![t] = e], pool[t].step \notin DeploySteps,
         e = Idle \/ (e.job = pool[t].job /\ EntryWell(e)),
         UNCHANGED <<activeVersion, nextVersion, versionWorker, versionStatus,
                     request, queue, acked, deleteSent>>,
         SameRows, workerStatus' \in [Workers -> WorkerStatus],
         cr' \in [Workers -> 0..MaxVersion], revision' \in [Workers -> Nat]
  PROVE  IInv'
  <1>1. pool[t].step # "failWorker" /\ activeVersion' \in [Workers -> 0..MaxVersion]
    BY DEF DeploySteps, IInv, TypeOK
  <1>2. TypeOK' /\ Rows' /\ Tasks' /\ OneJobPerVersion'
    BY <1>1, JobStepPreserves
  <1>3. ActiveIsSuccess'
    BY DEF IInv, ActiveIsSuccess
  <1>4. QED
    BY <1>2, <1>3 DEF IInv

(* ... to a step that is not one of a deployment, about the same worker.   *)
OtherSteps == {"sync", "syncActive", "syncError", "auditLoad", "auditList", "auditDelete"}

LEMMA OtherTask ==
  ASSUME IInv, NEW t \in Threads, pool[t].step \in OtherSteps
  PROVE  /\ pool[t].step \notin DeploySteps /\ pool[t].job.kind # "deploy"
         /\ pool[t].step \in {"sync", "syncActive", "syncError"} => JobWorker(t) \in Workers
  BY DEF IInv, Tasks, EntryWell, OtherSteps, DeploySteps, JobWorker

LEMMA OtherGoesOn ==
  ASSUME IInv, NEW t \in Threads, pool[t].step \in OtherSteps, NEW step \in OtherSteps \ {"sync"},
         Goto(t, step),
         step \in {"syncActive", "syncError"} => pool[t].step = "sync"
  PROVE  \E e \in JobEntry : /\ pool' = [pool EXCEPT ![t] = e]
                             /\ e.job = pool[t].job /\ EntryWell(e)
                             /\ e.step = step
  <1>1. step \in JobStep /\ step \notin DeploySteps /\ step # "deleteCR"
    BY DEF OtherSteps, JobStep, DeploySteps
  <1>2. PICK e \in JobEntry : /\ pool' = [pool EXCEPT ![t] = e]
                              /\ e.job = pool[t].job /\ e.step = step
    BY <1>1, GotoEntry DEF IInv
  <1>3. EntryWell(e)
    BY <1>1, <1>2, OtherTask DEF EntryWell, OtherSteps, JobWorker
  <1>4. QED
    BY <1>2, <1>3

LEMMA UpdateStatusPreserves ==
  ASSUME IInv, SideTypes', NEW w \in Workers, UpdateStatus(w)
  PROVE  IInv'
  <1> USE DEF IInv, UpdateStatus, dbVars, workerVars, versionVars, history
  <1>1. TypeOK'
    <2>1. revision' \in [Workers -> Nat]
      BY DEF TypeOK
    <2>2. QED
      BY <2>1 DEF TypeOK, SideTypes
  <1>2. Rows' /\ Tasks'
    BY DEF Rows, Tasks, Known, Undecided, HasRow, HasVersion
  <1>3. OneJobPerVersion' /\ ActiveIsSuccess'
    BY DEF OneJobPerVersion, ActiveIsSuccess
  <1>4. QED
    BY <1>1, <1>2, <1>3

(* A restart only forgets tasks.                                           *)
LEMMA SyncConfigPreserves ==
  ASSUME IInv, SideTypes', NEW t \in Threads, SyncConfig(t)
  PROVE  IInv'
  <1>1. /\ pool[t].step = "sync" /\ pool[t].step \in OtherSteps
        /\ UNCHANGED <<workerStatus, activeVersion, nextVersion, versionWorker, versionStatus,
                       cr, revision, request, queue, acked, deleteSent>>
    BY DEF SyncConfig, OtherSteps, dbVars, workerVars, versionVars, crVars, history
  <1>2. \E e \in JobEntry : /\ pool' = [pool EXCEPT ![t] = e]
                            /\ e = Idle \/ (e.job = pool[t].job /\ EntryWell(e))
    <2>1. CASE Finish(t)
      BY <2>1, IdleEntry DEF Finish
    <2>2. CASE \E s \in {"syncActive", "syncError"} : Goto(t, s)
      <3>1. PICK step \in {"syncActive", "syncError"} : Goto(t, step)
        BY <2>2
      <3>2. step \in OtherSteps
        BY DEF OtherSteps
      <3>3. QED
        BY <1>1, <3>1, <3>2, OtherGoesOn
    <2>3. QED
      BY <2>1, <2>2 DEF SyncConfig
  <1>3. /\ SameRows /\ workerStatus' \in [Workers -> WorkerStatus]
        /\ cr' \in [Workers -> 0..MaxVersion] /\ revision' \in [Workers -> Nat]
    BY <1>1 DEF SameRows, HasRow, IInv, TypeOK
  <1>4. QED
    BY <1>1, <1>2, <1>3, OtherTask, OtherJobStepPreserves

LEMMA SyncStatusPreserves ==
  ASSUME IInv, SideTypes', NEW t \in Threads, SyncStatus(t)
  PROVE  IInv'
  <1>1. /\ pool[t].step \in OtherSteps /\ pool' = [pool EXCEPT ![t] = Idle]
        /\ UNCHANGED <<activeVersion, nextVersion, versionWorker, versionStatus,
                       cr, revision, request, queue, acked, deleteSent>>
        /\ \/ workerStatus' = workerStatus
           \/ \E s \in {"active", "error"} : SetWorkerStatus(JobWorker(t), s)
    BY DEF SyncStatus, Finish, OtherSteps, versionVars, crVars
  <1>2. /\ SameRows /\ workerStatus' \in [Workers -> WorkerStatus]
        /\ cr' \in [Workers -> 0..MaxVersion] /\ revision' \in [Workers -> Nat]
    BY <1>1 DEF SameRows, HasRow, SetWorkerStatus, IInv, TypeOK, WorkerStatus, RowStatus
  <1>3. QED
    BY <1>1, <1>2, IdleEntry, OtherTask, OtherJobStepPreserves

LEMMA AuditPreserves ==
  ASSUME IInv, SideTypes', NEW t \in Threads, AuditLoad(t) \/ AuditList(t) \/ AuditDelete(t)
  PROVE  IInv'
  <1>1. /\ pool[t].step \in OtherSteps
        /\ UNCHANGED <<workerStatus, activeVersion, nextVersion, versionWorker, versionStatus,
                       revision, request, queue, acked, deleteSent>>
    BY DEF AuditLoad, AuditList, AuditDelete, OtherSteps, dbVars, workerVars, versionVars,
       crVars, history
  <1>2. \E e \in JobEntry : /\ pool' = [pool EXCEPT ![t] = e]
                            /\ e = Idle \/ (e.job = pool[t].job /\ EntryWell(e))
    <2>1. CASE Finish(t)
      BY <2>1, IdleEntry DEF Finish
    <2>2. CASE \E s \in {"auditList", "auditDelete"} : Goto(t, s)
      <3>1. PICK step \in {"auditList", "auditDelete"} : Goto(t, step)
        BY <2>2
      <3>2. step \in OtherSteps
        BY DEF OtherSteps
      <3>3. QED
        BY <1>1, <3>1, <3>2, OtherGoesOn
    <2>3. CASE pool' = pool
      <3>1. pool[t] \in JobEntry /\ EntryWell(pool[t])
        BY DEF IInv, TypeOK, JobEntry, Tasks
      <3>2. pool' = [pool EXCEPT ![t] = pool[t]]
        BY <2>3 DEF IInv, TypeOK
      <3>3. QED
        BY <3>1, <3>2
    <2>4. QED
      BY <2>1, <2>2, <2>3 DEF AuditLoad, AuditList, AuditDelete
  <1>3. cr' \in [Workers -> 0..MaxVersion]
    <2>1. 0 \in 0..MaxVersion
      BY ConstantsAssumption
    <2>2. cr' = cr \/ \E w \in orphans : cr' = [cr EXCEPT ![w] = 0]
      BY DEF AuditLoad, AuditList, AuditDelete, crVars
    <2>3. QED
      BY <2>1, <2>2 DEF IInv, TypeOK
  <1>4. /\ SameRows /\ workerStatus' \in [Workers -> WorkerStatus]
        /\ revision' \in [Workers -> Nat]
    BY <1>1 DEF SameRows, HasRow, IInv, TypeOK
  <1>5. QED
    BY <1>1, <1>2, <1>3, <1>4, OtherTask, OtherJobStepPreserves

(* A bound and the sets that only properties and the audit look at.        *)
LEMMA SideTypesPreserved ==
  ASSUME IInv, [Next]_vars
  PROVE  SideTypes'
  <1> USE ConstantsAssumption DEF IInv, TypeOK, SideTypes
  <1>1. CASE UNCHANGED <<changes, orphans, configured, swept>>
    BY <1>1
  <1>2. ASSUME NEW c \in Clients, NEW w \in Workers, DeployWorker(c, w) \/ SetWorkerConfig(c, w)
        PROVE  SideTypes'
    BY <1>2 DEF DeployWorker, SetWorkerConfig
  <1>3. ASSUME NEW t \in Threads, ApplyCR(t) PROVE SideTypes'
    BY <1>3 DEF ApplyCR, WriteCR
  <1>4. ASSUME NEW t \in Threads, FailWorker(t) \/ DeployVersionSuccess(t) PROVE SideTypes'
    BY <1>4 DEF FailWorker, DeployVersionSuccess
  <1>5. ASSUME NEW t \in Threads, SyncStatus(t) PROVE SideTypes'
    <2>1. JobWorker(t) \in Workers
      BY <1>5, OtherTask DEF SyncStatus, OtherSteps
    <2>2. QED
      BY <1>5, <2>1 DEF SyncStatus
  <1>6. ASSUME NEW t \in Threads, AuditLoad(t) \/ AuditList(t) \/ AuditDelete(t)
        PROVE  SideTypes'
    BY <1>6 DEF AuditLoad, AuditList, AuditDelete, history
  <1>7. CASE InnerRestart
    BY <1>7 DEF InnerRestart, history
  <1>8. ASSUME \/ UNCHANGED vars
               \/ \E w \in Workers : CreateWorker(w) \/ UpdateStatus(w)
               \/ \E c \in Clients, w \in Workers : DeleteWorker(c, w)
               \/ \E c \in Clients : SendDeploy(c) \/ DeleteRow(c) \/ SendSync(c)
               \/ \E t \in Threads : \/ StartJob(t) \/ DeployLoad(t) \/ DeployGet(t)
                                    \/ FailVersion(t) \/ DeleteCR(t) \/ SyncConfig(t)
               \/ OuterRestart
        PROVE  UNCHANGED <<changes, orphans, configured, swept>>
    BY <1>8 DEF vars, CreateWorker, UpdateStatus, DeleteWorker, SendDeploy, DeleteRow, SendSync,
       StartJob, DeployLoad, DeployGet, FailVersion, DeleteCR, SyncConfig, OuterRestart, history
  <1>9. QED
    BY <1>1, <1>2, <1>3, <1>4, <1>5, <1>6, <1>7, <1>8 DEF Next, RunJob

LEMMA RestartPreserves ==
  ASSUME IInv, SideTypes', InnerRestart \/ OuterRestart
  PROVE  IInv'
  <1> USE ConstantsAssumption
  <1>1. /\ \A c \in Clients : request'[c] \in {request[c], NoRequest}
        /\ DOMAIN request' = Clients
        /\ \/ queue' = <<AuditJob>> /\ pool' = [t \in Threads |-> Idle]
           \/ UNCHANGED <<queue, pool>>
        /\ UNCHANGED <<workerStatus, activeVersion, nextVersion, versionWorker, versionStatus,
                       cr, revision, acked, deleteSent>>
    BY DEF InnerRestart, OuterRestart, EndRequests, dbVars, workerVars, versionVars, crVars, history
  <1>2. /\ NoRequest.job.kind = "none" /\ NoRequest.step = "idle"
        /\ Idle.job.kind = "none" /\ Idle.step = "idle"
    BY DEF NoRequest, Idle, NoJob
  <1>a. /\ AuditJob \in Job /\ AuditJob.kind = "audit"
        /\ <<AuditJob>> \in Seq(Job) /\ Len(<<AuditJob>>) = 1 /\ <<AuditJob>>[1] = AuditJob
    <2>1. AuditJob \in Job /\ AuditJob.kind = "audit"
      BY DEF AuditJob, Job
    <2>2. QED
      BY <2>1, OneTask
  <1>3. TypeOK'
    <2>1. NoRequest \in [step : RequestStep, job : Job]
      BY DEF NoRequest, NoJob, RequestStep, Job
    <2>2. request' \in [Clients -> [step : RequestStep, job : Job]]
      <3>1. \A c \in Clients : request'[c] \in [step : RequestStep, job : Job]
        BY <1>1, <2>1 DEF IInv, TypeOK
      <3>2. request' = [c \in Clients |-> request'[c]]
        BY DEF InnerRestart, OuterRestart, EndRequests
      <3>3. QED
        BY <3>1, <3>2
    <2>3. /\ pool' \in [Threads -> [step : JobStep, job : Job, seen : Nat]]
          /\ queue' \in Seq(Job) /\ Len(queue') <= QueueSize
      <3>1. CASE UNCHANGED <<queue, pool>>
        BY <3>1 DEF IInv, TypeOK
      <3>2. CASE queue' = <<AuditJob>> /\ pool' = [t \in Threads |-> Idle]
        <4>1. queue' \in Seq(Job) /\ Len(queue') = 1
          BY <1>a, <3>2
        <4>2. pool' \in [Threads -> [step : JobStep, job : Job, seen : Nat]]
          BY <3>2, IdleEntry DEF JobEntry
        <4>3. QED
          BY <4>1, <4>2
      <3>3. QED
        BY <1>1, <3>1, <3>2
    <2>4. QED
      BY <1>1, <2>2, <2>3 DEF IInv, TypeOK, SideTypes
  <1>4. Rows'
    BY <1>1 DEF IInv, Rows, HasRow, HasVersion
  <1>5. Tasks'
    <2>1. \A j : (Known(j) => Known(j)') /\ (Undecided(j) => Undecided(j)')
      BY <1>1 DEF Known, Undecided
    <2>2. /\ Known(NoRequest.job)' /\ Undecided(NoRequest.job)'
          /\ Known(Idle.job)' /\ Undecided(Idle.job)' /\ RequestWell(NoRequest)
          /\ Known(AuditJob)' /\ Undecided(AuditJob)' /\ TaskWell(AuditJob)
      BY <1>2, <1>a, NotADeploy, NoRequestFacts DEF TaskWell
    <2>3. \A c \in Clients :
         Known(request[c].job)' /\ Undecided(request[c].job)' /\ RequestWell(request'[c])
      BY <1>1, <1>2, <2>1, <2>2 DEF IInv, Tasks
    <2>4. \A i \in 1..Len(queue') :
         Known(queue[i])' /\ Undecided(queue[i])' /\ TaskWell(queue'[i])
      BY <1>1, <1>a, <2>1, <2>2 DEF IInv, Tasks
    <2>5. \A t \in Threads :
       /\ Known(pool[t].job)'
       /\ pool'[t].step # "failWorker" => Undecided(pool[t].job)'
       /\ EntryWell(pool'[t])
      <3>1. CASE UNCHANGED pool
        BY <3>1, <2>1 DEF IInv, Tasks
      <3>2. CASE pool' = [t \in Threads |-> Idle]
        BY <3>2, <1>2, <2>2 DEF DeploySteps, EntryWell
      <3>3. QED
        BY <1>1, <3>1, <3>2
    <2>6. QED
      BY <2>3, <2>4, <2>5 DEF Tasks
  <1>6. OneJobPerVersion'
    <2>1. /\ \A c \in Clients : request'[c] = request[c] \/ request'[c].job.kind = "none"
          /\ queue' = queue \/ (Len(queue') = 1 /\ queue'[1].kind = "audit")
          /\ \A t \in Threads : pool'[t] = pool[t] \/ pool'[t].job.kind = "none"
      BY <1>1, <1>2, <1>a
    <2>2. QED
      BY <2>1 DEF IInv, OneJobPerVersion, SameDeploy
  <1>7. ActiveIsSuccess'
    BY <1>1 DEF IInv, ActiveIsSuccess
  <1>8. QED
    BY <1>3, <1>4, <1>5, <1>6, <1>7 DEF IInv

-----------------------------------------------------------------------------
(* The invariant holds in every reachable state.                           *)
THEOREM Invariance == Spec => []IInv
  <1>1. IInv /\ [Next]_vars => IInv'
    <2> SUFFICES ASSUME IInv, [Next]_vars PROVE IInv'
      OBVIOUS
    <2>0. SideTypes'
      BY SideTypesPreserved
    <2>1. CASE UNCHANGED vars
      BY <2>1 DEF vars, dbVars, workerVars, versionVars, crVars, history, IInv, TypeOK, Rows,
         Tasks, Known, Undecided, HasRow, HasVersion, OneJobPerVersion, ActiveIsSuccess
    <2>2. CASE \E w \in Workers : CreateWorker(w) \/ UpdateStatus(w)
      BY <2>0, <2>2, CreateWorkerPreserves, UpdateStatusPreserves
    <2>3. CASE \E c \in Clients, w \in Workers :
                 DeployWorker(c, w) \/ DeleteWorker(c, w) \/ SetWorkerConfig(c, w)
      BY <2>0, <2>3, DeployWorkerPreserves, DeleteWorkerPreserves, SetWorkerConfigPreserves
    <2>4. CASE \E c \in Clients : SendDeploy(c) \/ DeleteRow(c) \/ SendSync(c)
      BY <2>0, <2>4, SendDeployPreserves, DeleteRowPreserves, SendSyncPreserves
    <2>5. CASE \E t \in Threads : RunJob(t)
      BY <2>0, <2>5, StartJobPreserves, DeployLoadPreserves, DeployGetPreserves, ApplyCRPreserves,
         FailVersionPreserves, FailWorkerPreserves, DeployVersionSuccessPreserves,
         DeleteCRPreserves, SyncConfigPreserves, SyncStatusPreserves, AuditPreserves DEF RunJob
    <2>6. CASE InnerRestart \/ OuterRestart
      BY <2>0, <2>6, RestartPreserves
    <2>7. QED
      BY <2>1, <2>2, <2>3, <2>4, <2>5, <2>6 DEF Next
  <1>2. QED
    BY InitEstablishes, <1>1, PTL DEF Spec

(* Types, and the capacity of the queue.                                   *)
THEOREM TypeCorrect == Spec => []TypeOK
  <1>1. IInv => TypeOK
    BY DEF IInv
  <1>2. QED
    BY Invariance, <1>1, PTL

(* No version is ever carried by two tasks.                                *)
THEOREM OneJob == Spec => []OneJobPerVersion
  <1>1. IInv => OneJobPerVersion
    BY DEF IInv
  <1>2. QED
    BY Invariance, <1>1, PTL

(* The active version of a worker is a version of that worker whose        *)
(* deployment succeeded, whatever fails or restarts.                       *)
THEOREM ActiveSucceeded == Spec => []ActiveIsSuccess
  <1>1. IInv => ActiveIsSuccess
    BY DEF IInv
  <1>2. QED
    BY Invariance, <1>1, PTL

-----------------------------------------------------------------------------
(* WorkerDeploy implements DeployRecords.                                  *)

(* A job that records an outcome finds the version undecided, or gone.     *)
LEMMA RecordOutcome ==
  ASSUME IInv, NEW t \in Threads, pool[t].step \in {"load", "succeed", "failVersion"}
  PROVE  /\ JobVersion(t) \in Versions /\ JobWorker(t) \in Workers
         /\ versionWorker[JobVersion(t)] = JobWorker(t)
         /\ HasVersion(JobVersion(t)) <=> HasRow(JobWorker(t))
         /\ HasVersion(JobVersion(t)) => versionStatus[JobVersion(t)] = "loading"
  <1>1. pool[t].step \in DeploySteps /\ pool[t].step # "failWorker"
    BY DEF DeploySteps
  <1>2. Undecided(pool[t].job)
    BY <1>1 DEF IInv, Tasks
  <1>3. QED
    BY <1>1, <1>2, DeployTask DEF Undecided, HasVersion

LEMMA SetStatusRefines ==
  ASSUME IInv, NEW v \in Versions, HasVersion(v) => versionStatus[v] = "loading",
         SetVersionStatus(v, "error"), UNCHANGED <<workerStatus, activeVersion, versionWorker>>
  PROVE  Records!Fail(v) \/ UNCHANGED Records!vars
  <1>1. CASE HasVersion(v)
    BY <1>1 DEF SetVersionStatus, Records!Fail, WorkerRow, HasRow
  <1>2. CASE ~HasVersion(v)
    BY <1>2 DEF SetVersionStatus, Records!vars, WorkerRow, HasRow
  <1>3. QED
    BY <1>1, <1>2

LEMMA StepRefines ==
  ASSUME IInv, [Next]_vars
  PROVE  [Records!Next]_(Records!vars)
  <1> USE DEF Records!Next, Records!vars
  <1>1. CASE UNCHANGED <<workerStatus, activeVersion, versionWorker, versionStatus>>
    BY <1>1 DEF WorkerRow, HasRow
  <1>2. ASSUME NEW w \in Workers, CreateWorker(w)
        PROVE  Records!Create(w)
    <2>1. /\ workerStatus[w] = "none"
          /\ workerStatus' = [workerStatus EXCEPT ![w] = "unloaded"]
          /\ UNCHANGED <<activeVersion, versionWorker, versionStatus>>
      BY <1>2 DEF CreateWorker, versionVars
    <2>2. WorkerRow[w] = "none" /\ WorkerRow' = [WorkerRow EXCEPT ![w] = "present"]
      BY <2>1 DEF IInv, TypeOK, WorkerRow, HasRow, RowStatus
    <2>3. QED
      BY <2>1, <2>2 DEF Records!Create
  <1>3. ASSUME NEW c \in Clients, NEW w \in Workers, DeployWorker(c, w)
        PROVE  nextVersion \in Versions /\ Records!Request(w, nextVersion)
    <2>1. /\ HasRow(w) /\ nextVersion \in Versions
          /\ workerStatus' = [workerStatus EXCEPT ![w] = "loading"]
          /\ versionWorker' = [versionWorker EXCEPT ![nextVersion] = w]
          /\ versionStatus' = [versionStatus EXCEPT ![nextVersion] = "loading"]
          /\ UNCHANGED activeVersion
      BY <1>3, ConstantsAssumption DEF DeployWorker, IInv, TypeOK, Versions
    <2>2. versionWorker[nextVersion] = NoWorker
      BY <2>1 DEF IInv, TypeOK, Rows, Versions
    <2>3. WorkerRow[w] = "present" /\ WorkerRow' = WorkerRow
      BY <2>1 DEF IInv, TypeOK, WorkerRow, HasRow, RowStatus
    <2>4. QED
      BY <2>1, <2>2, <2>3 DEF Records!Request
  <1>4. ASSUME NEW c \in Clients, DeleteRow(c)
        PROVE  \/ \E w \in Workers : Records!Remove(w)
               \/ UNCHANGED Records!vars
    <2>1. PICK w \in Workers : w = request[c].job.worker
      BY <1>4 DEF DeleteRow, IInv, Tasks, RequestWell
    <2>2. CASE UNCHANGED <<workerVars, versionStatus>>
      BY <1>4, <2>2 DEF DeleteRow, workerVars, WorkerRow, HasRow
    <2>3. CASE /\ HasRow(w)
               /\ workerStatus'  = [workerStatus EXCEPT ![w] = "deleted"]
               /\ activeVersion' = [activeVersion EXCEPT ![w] = 0]
               /\ versionStatus' = [v \in Versions |->
                     IF versionWorker[v] = w THEN "none" ELSE versionStatus[v]]
      <3>1. WorkerRow[w] = "present" /\ WorkerRow' = [WorkerRow EXCEPT ![w] = "deleted"]
        BY <2>3 DEF IInv, TypeOK, WorkerRow, HasRow, RowStatus
      <3>2. UNCHANGED versionWorker
        BY <1>4 DEF DeleteRow
      <3>3. Records!Remove(w)
        BY <2>3, <3>1, <3>2 DEF Records!Remove
      <3>4. QED
        BY <3>3
    <2>4. QED
      BY <1>4, <2>1, <2>2, <2>3 DEF DeleteRow
  <1>5. ASSUME NEW t \in Threads, DeployLoad(t)
        PROVE  \/ \E v \in Versions : Records!Fail(v)
               \/ UNCHANGED Records!vars
    <2>1. UNCHANGED <<workerStatus, activeVersion, versionWorker>> /\ pool[t].step = "load"
      BY <1>5 DEF DeployLoad, workerVars
    <2>2. CASE UNCHANGED versionStatus
      BY <2>1, <2>2 DEF WorkerRow, HasRow
    <2>3. CASE SetVersionStatus(JobVersion(t), "error")
      BY <2>1, <2>3, RecordOutcome, SetStatusRefines
    <2>4. QED
      BY <1>5, <2>2, <2>3 DEF DeployLoad
  <1>6. ASSUME NEW t \in Threads, FailVersion(t)
        PROVE  \/ \E v \in Versions : Records!Fail(v)
               \/ UNCHANGED Records!vars
    <2>1. UNCHANGED <<workerStatus, activeVersion, versionWorker>> /\ pool[t].step = "failVersion"
      BY <1>6 DEF FailVersion, workerVars
    <2>2. CASE UNCHANGED versionStatus
      BY <2>1, <2>2 DEF WorkerRow, HasRow
    <2>3. CASE SetVersionStatus(JobVersion(t), "error")
      BY <2>1, <2>3, RecordOutcome, SetStatusRefines
    <2>4. QED
      BY <1>6, <2>2, <2>3 DEF FailVersion
  <1>7. ASSUME NEW t \in Threads, FailWorker(t)
        PROVE  UNCHANGED Records!vars
    <2>1. UNCHANGED <<activeVersion, versionWorker, versionStatus>>
      BY <1>7 DEF FailWorker, versionVars
    <2>2. WorkerRow' = WorkerRow
      BY <1>7 DEF FailWorker, SetWorkerStatus, IInv, TypeOK, WorkerRow, HasRow, RowStatus
    <2>3. QED
      BY <2>1, <2>2
  <1>8. ASSUME NEW t \in Threads, DeployVersionSuccess(t)
        PROVE  \/ \E v \in Versions : Records!Succeed(v)
               \/ UNCHANGED Records!vars
    <2>1. PICK w \in Workers, v \in Versions :
             /\ w = JobWorker(t) /\ v = JobVersion(t) /\ versionWorker[v] = w
             /\ HasVersion(v) <=> HasRow(w)
             /\ HasVersion(v) => versionStatus[v] = "loading"
      BY <1>8, RecordOutcome DEF DeployVersionSuccess
    <2>2. UNCHANGED versionWorker
      BY <1>8 DEF DeployVersionSuccess
    <2>3. CASE UNCHANGED <<workerVars, versionStatus>>
      BY <2>2, <2>3 DEF workerVars, WorkerRow, HasRow
    <2>4. CASE /\ SetVersionStatus(v, "success") /\ SetWorkerStatus(w, "active")
               /\ activeVersion' = IF HasRow(w) THEN [activeVersion EXCEPT ![w] = v]
                                                ELSE activeVersion
      <3>1. WorkerRow' = WorkerRow
        BY <2>4 DEF SetWorkerStatus, IInv, TypeOK, WorkerRow, HasRow, RowStatus
      <3>2. CASE HasVersion(v)
        BY <2>1, <2>2, <2>4, <3>1, <3>2 DEF SetVersionStatus, Records!Succeed
      <3>3. CASE ~HasVersion(v)
        BY <2>1, <2>2, <2>4, <3>1, <3>3 DEF SetVersionStatus
      <3>4. QED
        BY <3>2, <3>3
    <2>5. QED
      BY <1>8, <2>1, <2>3, <2>4 DEF DeployVersionSuccess
  <1>9. ASSUME \/ \E w \in Workers : UpdateStatus(w)
               \/ \E c \in Clients : SendDeploy(c) \/ SendSync(c)
               \/ \E c \in Clients, w \in Workers : DeleteWorker(c, w)
               \/ \E t \in Threads : \/ StartJob(t) \/ DeployGet(t) \/ ApplyCR(t) \/ DeleteCR(t)
                                    \/ SyncConfig(t) \/ AuditLoad(t) \/ AuditList(t) \/ AuditDelete(t)
               \/ InnerRestart \/ OuterRestart
               \/ UNCHANGED vars
        PROVE  UNCHANGED <<workerStatus, activeVersion, versionWorker, versionStatus>>
    BY <1>9 DEF SendSync, SyncConfig, AuditLoad, AuditList, AuditDelete, UpdateStatus, SendDeploy, DeleteWorker, StartJob, DeployGet, ApplyCR, DeleteCR,
       InnerRestart, OuterRestart, vars, dbVars, workerVars, versionVars
  <1>10. ASSUME \/ \E c \in Clients, w \in Workers : SetWorkerConfig(c, w)
                \/ \E t \in Threads : SyncStatus(t)
         PROVE  UNCHANGED Records!vars
    <2>1. UNCHANGED <<activeVersion, versionWorker, versionStatus>>
      BY <1>10 DEF SetWorkerConfig, SyncStatus, versionVars
    <2>2. \/ workerStatus' = workerStatus
          \/ \E w \in Workers : HasRow(w) /\ workerStatus' = [workerStatus EXCEPT ![w] = "loading"]
          \/ \E t \in Threads, st \in {"active", "error"} : SetWorkerStatus(JobWorker(t), st)
      BY <1>10 DEF SetWorkerConfig, SyncStatus
    <2>3. WorkerRow' = WorkerRow
      BY <2>2 DEF SetWorkerStatus, IInv, TypeOK, WorkerRow, HasRow, RowStatus
    <2>4. QED
      BY <2>1, <2>3
  <1>11. QED
    BY <1>1, <1>2, <1>3, <1>4, <1>5, <1>6, <1>7, <1>8, <1>9, <1>10 DEF Next, RunJob

(* The rows behave as DeployRecords promises: one outcome per deployment,  *)
(* and the active version set in the step that records the success.        *)
THEOREM Refinement == Spec => ImplementsRecords
  <1>1. Init => Records!Init
    BY DEF Init, Records!Init, WorkerRow, HasRow, RowStatus
  <1>2. IInv /\ [Next]_vars => [Records!Next]_(Records!vars)
    BY StepRefines
  <1>3. QED
    BY Invariance, <1>1, <1>2, PTL DEF Spec, ImplementsRecords, Records!Spec

(* Once decided, the outcome of a version stays until its row goes.        *)
LEMMA OutcomeKept ==
  ASSUME IInv, [Records!Next]_(Records!vars)
  PROVE  \A v \in Versions : versionStatus[v] \in {"success", "error"} =>
           versionStatus'[v] \in {versionStatus[v], "none"}
  <1> SUFFICES ASSUME NEW v \in Versions, versionStatus[v] \in {"success", "error"}
               PROVE  versionStatus'[v] \in {versionStatus[v], "none"}
    OBVIOUS
  <1> USE DEF IInv, TypeOK
  <1>1. CASE UNCHANGED Records!vars
    BY <1>1 DEF Records!vars
  <1>2. CASE \E w \in Workers : Records!Create(w) \/ Records!Remove(w)
    BY <1>2 DEF Records!Create, Records!Remove
  <1>3. CASE \E w \in Workers, x \in Versions : Records!Request(w, x)
    <2>1. PICK w \in Workers, x \in Versions : Records!Request(w, x)
      BY <1>3
    <2>2. x # v
      <3>1. v \in Nat /\ nextVersion \in Nat /\ ~(v >= nextVersion)
        BY ConstantsAssumption DEF Rows, Versions
      <3>2. versionWorker[v] \in Workers
        BY <3>1 DEF Rows
      <3>3. QED
        BY <2>1, <3>2, ConstantsAssumption DEF Records!Request
    <2>3. QED
      BY <2>1, <2>2 DEF Records!Request
  <1>4. CASE \E x \in Versions : Records!Succeed(x) \/ Records!Fail(x)
    BY <1>4 DEF Records!Succeed, Records!Fail
  <1>5. QED
    BY <1>1, <1>2, <1>3, <1>4 DEF Records!Next

(* The status of a version is decided once: no later statement, of any     *)
(* handler or job, turns a success into an error or an error into a        *)
(* success.                                                                *)
THEOREM OutcomeFinal == Spec => VersionOutcomeFinal
  <1> DEFINE Decided(v) == versionStatus[v] \in {"success", "error"}
             Kept(v)    == versionStatus'[v] \in {versionStatus[v], "none"}
  <1>1. IInv /\ [Next]_vars => [\A v \in Versions : Decided(v) => Kept(v)]_vars
    BY OutcomeKept, StepRefines
  <1>2. QED
    BY Invariance, <1>1, PTL DEF Spec, VersionOutcomeFinal
-----------------------------------------------------------------------------
(* An active worker has a CR unless its deletion was asked for, or an      *)
(* audit took it away and nobody deployed since.                           *)

(* A task that deletes a CR was announced, and between the write of a CR   *)
(* and the record of its success only such a task, or an audit, could have *)
(* removed it.                                                             *)
Announced ==
  /\ \A i \in 1..Len(queue) : queue[i].kind = "delete" => queue[i].worker \in deleteSent
  /\ \A t \in Threads : pool[t].step = "deleteCR" => JobWorker(t) \in deleteSent

WrittenStays ==
  \A t \in Threads : pool[t].step = "succeed" /\ JobWorker(t) \notin deleteSent \cup swept =>
    cr[JobWorker(t)] # 0

CRInv == Announced /\ WrittenStays /\ ActiveWorkerHasCR

LEMMA CRInit == Init => CRInv
  <1> SUFFICES ASSUME Init PROVE CRInv
    OBVIOUS
  <1>1. Len(queue) = 1 /\ queue[1].kind = "audit"
    <2>1. AuditJob \in Job /\ AuditJob.kind = "audit"
      BY ConstantsAssumption DEF AuditJob, Job
    <2>2. QED
      BY <2>1, OneTask DEF Init
  <1>2. QED
    BY <1>1 DEF Init, CRInv, Announced, WrittenStays, ActiveWorkerHasCR, Idle

(* Steps of requests and of the controller: no CR goes, no goroutine moves. *)
LEMMA CRRequests ==
  ASSUME IInv, CRInv,
         \/ \E w \in Workers : CreateWorker(w) \/ UpdateStatus(w)
         \/ \E c \in Clients, w \in Workers : DeployWorker(c, w) \/ SetWorkerConfig(c, w)
         \/ \E c \in Clients : DeleteRow(c)
         \/ UNCHANGED vars
  PROVE  CRInv'
  <1>1. UNCHANGED <<cr, queue, pool, deleteSent, swept>>
    BY DEF SetWorkerConfig, CreateWorker, UpdateStatus, DeployWorker, DeleteRow, vars, crVars, history
  <1>2. \A w \in Workers : activeVersion'[w] \in {0, activeVersion[w]}
    <2>1. CASE UNCHANGED activeVersion
      BY <2>1
    <2>2. CASE \E c \in Clients : DeleteRow(c)
      BY <2>2 DEF DeleteRow, workerVars, IInv, TypeOK
    <2>3. QED
      BY <2>1, <2>2 DEF SetWorkerConfig, CreateWorker, UpdateStatus, DeployWorker, vars, dbVars, workerVars
  <1>3. QED
    BY <1>1, <1>2 DEF CRInv, Announced, WrittenStays, ActiveWorkerHasCR, JobWorker

(* A task is posted.                                                       *)
LEMMA CRPost ==
  ASSUME IInv, CRInv, NEW c \in Clients,
         SendDeploy(c) \/ SendSync(c) \/ \E w \in Workers : DeleteWorker(c, w)
  PROVE  CRInv'
  <1>1. PICK job \in Job : /\ \E ok \in BOOLEAN : SendTask(job, ok)
                           /\ job.kind = "delete" => job.worker \in deleteSent'
    <2>1. CASE SendDeploy(c)
      <3>1. request[c].job \in Job /\ request[c].job.kind = "deploy"
        BY <2>1 DEF SendDeploy, IInv, TypeOK, Tasks, RequestWell
      <3>2. QED
        BY <2>1, <3>1 DEF SendDeploy
    <2>2. CASE \E w \in Workers : DeleteWorker(c, w)
      <3>1. PICK w \in Workers : DeleteWorker(c, w)
        BY <2>2
      <3>2. DeleteJob(w) \in Job /\ DeleteJob(w).worker = w
        BY ConstantsAssumption DEF DeleteJob, Job
      <3>3. QED
        BY <3>1, <3>2 DEF DeleteWorker
    <2>3. CASE SendSync(c)
      <3>1. request[c].job \in Job /\ request[c].job.kind = "sync"
        BY <2>3 DEF SendSync, IInv, TypeOK, Tasks, RequestWell
      <3>2. QED
        BY <2>3, <3>1 DEF SendSync
    <2>4. QED
      BY <2>1, <2>2, <2>3
  <1>2. UNCHANGED <<cr, pool, activeVersion, swept>> /\ deleteSent \subseteq deleteSent'
    BY DEF SendDeploy, SendSync, DeleteWorker, history, dbVars, workerVars, crVars
  <1>3. \A i \in 1..Len(queue') :
          (i \in 1..Len(queue) /\ queue'[i] = queue[i]) \/ queue'[i] = job
    BY <1>1, SendTaskEffect DEF IInv
  <1>4. Announced'
    BY <1>1, <1>2, <1>3 DEF CRInv, Announced, JobWorker
  <1>5. WrittenStays' /\ ActiveWorkerHasCR'
    BY <1>2 DEF CRInv, WrittenStays, ActiveWorkerHasCR, JobWorker
  <1>6. QED
    BY <1>4, <1>5 DEF CRInv

LEMMA CRStart ==
  ASSUME IInv, CRInv, NEW t \in Threads, StartJob(t)
  PROVE  CRInv'
  <1>1. /\ Len(queue) \in Nat \ {0}
        /\ Len(queue') = Len(queue) - 1
        /\ \A i \in 1..Len(queue') : i + 1 \in 1..Len(queue) /\ queue'[i] = queue[i + 1]
        /\ Head(queue) = queue[1] /\ 1 \in 1..Len(queue) /\ Head(queue) \in Job
    BY HeadTailFacts DEF StartJob, IInv, TypeOK
  <1>2. PICK job \in Job : job = queue[1]
    BY <1>1
  <1>3. /\ job.kind # "none"
        /\ FirstStep[job.kind] # "succeed"
        /\ FirstStep[job.kind] = "deleteCR" => job.kind = "delete"
    <2>1. job.kind # "none"
      BY <1>1, <1>2 DEF IInv, Tasks, TaskWell
    <2>2. QED
      BY <2>1, FirstStepOf
  <1>4. /\ UNCHANGED <<cr, activeVersion, deleteSent, swept>>
        /\ \A u \in Threads : u # t => pool'[u] = pool[u]
        /\ pool'[t].step = FirstStep[job.kind]
        /\ pool'[t].job = job
    BY <1>1, <1>2 DEF StartJob, dbVars, workerVars, crVars, history, IInv, TypeOK
  <1>5. Announced'
    BY <1>1, <1>2, <1>3, <1>4 DEF CRInv, Announced, JobWorker
  <1>6. WrittenStays' /\ ActiveWorkerHasCR'
    BY <1>3, <1>4 DEF CRInv, WrittenStays, ActiveWorkerHasCR, JobWorker
  <1>7. QED
    BY <1>5, <1>6 DEF CRInv

(* The steps of a job that neither write a CR nor record a success.        *)
LEMMA CRBookkeeping ==
  ASSUME IInv, CRInv, NEW t \in Threads,
         \/ DeployLoad(t) \/ DeployGet(t) \/ FailVersion(t) \/ FailWorker(t)
         \/ SyncConfig(t) \/ SyncStatus(t) \/ AuditLoad(t) \/ AuditList(t)
  PROVE  CRInv'
  <1>1. /\ UNCHANGED <<cr, activeVersion, queue, deleteSent, swept>>
        /\ \A u \in Threads : u # t => pool'[u] = pool[u]
        /\ pool'[t].step \notin {"deleteCR", "succeed"}
    <2>1. /\ UNCHANGED <<cr, activeVersion, queue, deleteSent, swept>>
          /\ \/ \E s \in {"get", "create", "failWorker", "syncActive", "syncError", "auditList",
                         "auditDelete"} : Goto(t, s)
             \/ Finish(t)
             \/ pool' = [pool EXCEPT ![t].step = "update", ![t].seen = revision[JobWorker(t)]]
      BY DEF DeployLoad, DeployGet, FailVersion, FailWorker, SyncConfig, SyncStatus, AuditLoad,
         AuditList, dbVars, workerVars, crVars, history
    <2>2. QED
      BY <2>1 DEF Goto, Finish, Idle, IInv, TypeOK
  <1>2. QED
    BY <1>1 DEF CRInv, Announced, WrittenStays, ActiveWorkerHasCR, JobWorker

(* ApplyCR: no CR goes, and "succeed" is reached only after a write.       *)
LEMMA CRApply ==
  ASSUME IInv, CRInv, NEW t \in Threads, ApplyCR(t)
  PROVE  CRInv'
  <1>1. pool[t].step \in DeploySteps /\ pool[t].step # "failWorker"
    BY DEF ApplyCR, DeploySteps
  <1>2. JobWorker(t) \in Workers /\ JobVersion(t) \in Nat \ {0}
    BY <1>1, DeployTask, ConstantsAssumption DEF Versions
  <1>3. /\ UNCHANGED <<activeVersion, queue, deleteSent>>
        /\ \A u \in Threads : u # t => pool'[u] = pool[u]
        /\ pool'[t].job = pool[t].job
        /\ \/ /\ cr' = [cr EXCEPT ![JobWorker(t)] = JobVersion(t)]
              /\ swept' = swept \ {JobWorker(t)}
           \/ pool'[t].step = "failVersion" /\ cr' = cr /\ swept' = swept
        /\ pool'[t].step \in {"succeed", "failVersion"}
    BY DEF ApplyCR, Goto, WriteCR, dbVars, workerVars, crVars, history, IInv, TypeOK
  <1>d. cr \in [Workers -> 0..MaxVersion]
    BY DEF IInv, TypeOK
  <1>4. \A w \in Workers : cr[w] # 0 => cr'[w] # 0
    BY <1>2, <1>3, <1>d
  <1>a. \A w \in Workers : w \notin swept' => w \notin swept \/ cr'[w] # 0
    BY <1>2, <1>3, <1>d
  <1>5. pool'[t].step = "succeed" => cr'[JobWorker(t)] # 0
    BY <1>2, <1>3 DEF IInv, TypeOK
  <1>6. \A u \in Threads : pool[u].step = "succeed" => JobWorker(u) \in Workers
    BY DeployTask DEF DeploySteps
  <1>b. \A u \in Threads : pool'[u].step = "deleteCR" =>
          pool'[u].job = pool[u].job /\ pool[u].step = "deleteCR"
    BY <1>3
  <1>7. Announced'
    BY <1>3, <1>b DEF CRInv, Announced, JobWorker
  <1>c. ActiveWorkerHasCR'
    BY <1>3, <1>4, <1>a DEF CRInv, ActiveWorkerHasCR
  <1>8. WrittenStays'
    <2> SUFFICES ASSUME NEW u \in Threads, pool'[u].step = "succeed",
                        JobWorker(u)' \notin deleteSent' \cup swept'
                 PROVE  cr'[JobWorker(u)'] # 0
      BY DEF WrittenStays
    <2>1. CASE u = t
      BY <2>1, <1>3, <1>5 DEF JobWorker
    <2>2. CASE u # t
      <3>1. pool'[u] = pool[u] /\ JobWorker(u)' = JobWorker(u)
        BY <2>2, <1>3 DEF JobWorker
      <3>2. JobWorker(u) \in Workers /\ JobWorker(u) \notin deleteSent
        BY <3>1, <1>3, <1>6
      <3>3. JobWorker(u) \in swept \/ cr[JobWorker(u)] # 0
        BY <3>1, <3>2 DEF CRInv, WrittenStays
      <3>4. QED
        BY <3>1, <3>2, <3>3, <1>4, <1>a
    <2>3. QED
      BY <2>1, <2>2
  <1>9. QED
    BY <1>7, <1>8, <1>c DEF CRInv

(* DeployVersionSuccess: the worker that becomes active has its CR.        *)
LEMMA CRSuccess ==
  ASSUME IInv, CRInv, NEW t \in Threads, DeployVersionSuccess(t)
  PROVE  CRInv'
  <1>1. /\ UNCHANGED <<cr, queue, deleteSent, swept>>
        /\ \A u \in Threads : u # t => pool'[u] = pool[u]
        /\ pool'[t].step = "idle"
        /\ \A w \in Workers : w # JobWorker(t) => activeVersion'[w] = activeVersion[w]
    BY DEF DeployVersionSuccess, Finish, Idle, workerVars, crVars, history, IInv, TypeOK
  <1>2. JobWorker(t) \notin deleteSent \cup swept => cr[JobWorker(t)] # 0
    BY DEF DeployVersionSuccess, CRInv, WrittenStays
  <1>3. Announced' /\ WrittenStays'
    BY <1>1 DEF CRInv, Announced, WrittenStays, JobWorker
  <1>4. ActiveWorkerHasCR'
    BY <1>1, <1>2 DEF CRInv, ActiveWorkerHasCR
  <1>5. QED
    BY <1>3, <1>4 DEF CRInv

(* DeleteCR: only the CR of a worker whose deletion was announced goes.    *)
LEMMA CRDelete ==
  ASSUME IInv, CRInv, NEW t \in Threads, DeleteCR(t)
  PROVE  CRInv'
  <1>1. /\ UNCHANGED <<activeVersion, queue, deleteSent, swept>>
        /\ \A u \in Threads : u # t => pool'[u] = pool[u]
        /\ pool'[t].step = "idle"
        /\ \A w : w \in Workers /\ w # JobWorker(t) => cr'[w] = cr[w]
    BY DEF DeleteCR, Finish, Idle, dbVars, workerVars, history, IInv, TypeOK
  <1>2. JobWorker(t) \in deleteSent
    BY DEF DeleteCR, CRInv, Announced
  <1>3. \A u \in Threads : pool[u].step = "succeed" => JobWorker(u) \in Workers
    BY DeployTask DEF DeploySteps
  <1>4. Announced' /\ WrittenStays'
    BY <1>1, <1>2, <1>3 DEF CRInv, Announced, WrittenStays, JobWorker
  <1>5. ActiveWorkerHasCR'
    BY <1>1, <1>2 DEF CRInv, ActiveWorkerHasCR
  <1>6. QED
    BY <1>4, <1>5 DEF CRInv

(* AuditDelete: the workers whose CR goes are noted.                       *)
LEMMA CRAudit ==
  ASSUME IInv, CRInv, NEW t \in Threads, AuditDelete(t)
  PROVE  CRInv'
  <1>1. /\ UNCHANGED <<activeVersion, queue, deleteSent>> /\ swept \subseteq swept'
        /\ \A w \in Workers : cr'[w] = cr[w] \/ w \in swept'
    BY DEF AuditDelete, dbVars, workerVars, IInv, TypeOK
  <1>2. \A u \in Threads : pool'[u] = pool[u] \/ pool'[u].step = "idle"
    BY DEF AuditDelete, Finish, Idle, IInv, TypeOK
  <1>3. \A u \in Threads : pool[u].step = "succeed" => JobWorker(u) \in Workers
    BY DeployTask DEF DeploySteps
  <1>4. Announced' /\ WrittenStays'
    BY <1>1, <1>2, <1>3 DEF CRInv, Announced, WrittenStays, JobWorker
  <1>5. ActiveWorkerHasCR'
    BY <1>1 DEF CRInv, ActiveWorkerHasCR
  <1>6. QED
    BY <1>4, <1>5 DEF CRInv

LEMMA CRRestart ==
  ASSUME IInv, CRInv, InnerRestart \/ OuterRestart
  PROVE  CRInv'
  <1>1. /\ UNCHANGED <<cr, activeVersion, deleteSent, swept>>
        /\ queue' = queue \/ queue' = <<AuditJob>>
        /\ pool' = pool \/ pool' = [t \in Threads |-> Idle]
    BY DEF InnerRestart, OuterRestart, dbVars, workerVars, crVars, history
  <1>a. AuditJob \in Job /\ AuditJob.kind = "audit"
    BY ConstantsAssumption DEF AuditJob, Job
  <1>2. /\ \A i \in 1..Len(queue') : \/ i \in 1..Len(queue) /\ queue'[i] = queue[i]
                                    \/ queue'[i].kind = "audit"
        /\ \A t \in Threads : pool'[t] = pool[t] \/ pool'[t].step = "idle"
    BY <1>1, <1>a, OneTask DEF Idle
  <1>3. QED
    BY <1>1, <1>2 DEF CRInv, Announced, WrittenStays, ActiveWorkerHasCR, JobWorker

(* A failed deploy, a lost answer or a restart never leaves an active      *)
(* worker without a CR: only a deletion that somebody asked for does, or   *)
(* an audit that did not know the owner, until the next deployment.        *)
THEOREM ActiveRuns == Spec => []ActiveWorkerHasCR
  <1>1. IInv /\ CRInv /\ [Next]_vars => CRInv'
    <2> SUFFICES ASSUME IInv, CRInv, [Next]_vars PROVE CRInv'
      OBVIOUS
    <2>1. CASE UNCHANGED vars
      BY <2>1, CRRequests
    <2>2. CASE \E w \in Workers : CreateWorker(w) \/ UpdateStatus(w)
      BY <2>2, CRRequests
    <2>3. CASE \E c \in Clients, w \in Workers :
                 DeployWorker(c, w) \/ DeleteWorker(c, w) \/ SetWorkerConfig(c, w)
      BY <2>3, CRRequests, CRPost
    <2>4. CASE \E c \in Clients : SendDeploy(c) \/ DeleteRow(c) \/ SendSync(c)
      BY <2>4, CRRequests, CRPost
    <2>5. CASE \E t \in Threads : RunJob(t)
      BY <2>5, CRStart, CRBookkeeping, CRApply, CRSuccess, CRDelete, CRAudit DEF RunJob
    <2>6. CASE InnerRestart \/ OuterRestart
      BY <2>6, CRRestart
    <2>7. QED
      BY <2>1, <2>2, <2>3, <2>4, <2>5, <2>6 DEF Next
  <1>2. CRInv => ActiveWorkerHasCR
    BY DEF CRInv
  <1>3. QED
    BY Invariance, CRInit, <1>1, <1>2, PTL DEF Spec
-----------------------------------------------------------------------------
(* Nothing is stuck, and errors are explained.                             *)

(* Where a deploy task can be.                                             *)
DeployOf(job, v) == job.kind = "deploy" /\ job.version = v

Carried(v) ==
  \/ \E c \in Clients : DeployOf(request[c].job, v)
  \/ \E i \in 1..Len(queue) : DeployOf(queue[i], v)
  \/ \E t \in Threads : DeployOf(pool[t].job, v)

LEMMA CarriedIsDeploying ==
  ASSUME IInv, NEW v
  PROVE  Deploying(v) <=> Carried(v)
  <1>1. DOMAIN queue = 1..Len(queue)
    BY DEF IInv, TypeOK
  <1>2. QED
    BY <1>1 DEF Deploying, InFlight, Queued, Carried, DeployOf

(* What was answered 200 has left its handler; what the cluster runs was   *)
(* created for the worker.                                                 *)
Answered ==
  /\ \A v \in acked : v < nextVersion
  /\ \A c \in Clients : request[c].step = "sendDeploy" => request[c].job.version \notin acked

Written ==
  \A w \in Workers : cr[w] # 0 =>
    cr[w] \in Versions /\ cr[w] < nextVersion /\ versionWorker[cr[w]] = w

(* A job that still has to mark its worker has marked its version.         *)
Marked ==
  \A t \in Threads : pool[t].step = "failWorker" =>
    versionStatus[JobVersion(t)] \in {"error", "none"}

(* What a worker's status is to deployments: nothing, when a change of its *)
(* environment or secrets was the last to write it.                        *)
DeployStatus == [w \in Workers |-> IF w \in configured THEN "configured" ELSE workerStatus[w]]

VersionsMove == \A v \in acked : versionStatus[v] = "loading" => Carried(v)

WorkersMove ==
  \A w \in Workers : DeployStatus[w] = "loading" =>
    \E v \in Versions : versionWorker[v] = w /\ (versionStatus[v] = "loading" \/ Carried(v))

RunningExplained ==
  \A w \in Workers : HasRow(w) /\ cr[w] # 0 =>
    \/ versionStatus[cr[w]] = "success"
    \/ \E t \in Threads : pool[t].step = "succeed" /\ JobVersion(t) = cr[w]

WorkerExplained ==
  \A w \in Workers : DeployStatus[w] = "error" =>
    \E v \in Versions : versionWorker[v] = w /\ versionStatus[v] = "error"

TrueAnswers == "timeout" \notin Faults

SInv ==
  /\ Answered /\ Written
  /\ JobsRecord => Marked /\ VersionsMove /\ WorkersMove /\ WorkerExplained
  /\ JobsRecord /\ TrueAnswers => RunningExplained

LEMMA SInit == Init => SInv
  <1>1. Init => \A w \in Workers : DeployStatus[w] = "none"
    BY DEF Init, DeployStatus
  <1>2. QED
    BY <1>1 DEF Init, SInv, Answered, Written, Marked, VersionsMove, WorkersMove, WorkerExplained,
       RunningExplained, NoRequest, Idle, HasRow, RowStatus

(* The two statuses of a worker differ only where nothing is said of it.   *)
LEMMA StatusAgrees ==
  ASSUME NEW w \in Workers
  PROVE  /\ DeployStatus[w] \in {workerStatus[w], "configured"}
         /\ DeployStatus'[w] \in {workerStatus'[w], "configured"}
         /\ UNCHANGED <<workerStatus, configured>> => UNCHANGED DeployStatus
  BY DEF DeployStatus

(* A task that ends leaves nothing that waits for it.                      *)
Ended(v) ==
  /\ versionStatus'[v] # "loading" \/ v \notin acked'
  /\ versionStatus'[v] = "loading" \/ DeployStatus'[versionWorker'[v]] # "loading"

(* What a step has to show about tasks ...                                 *)
Flows ==
  /\ \A v \in Versions : Carried(v) => Carried(v)' \/ Ended(v)
  /\ \A v \in acked' : v \in acked \/ Carried(v)'
  /\ \A v \in acked' : versionStatus'[v] = "loading" => versionStatus[v] = "loading"
  /\ \A w \in Workers : DeployStatus'[w] = "loading" =>
       \/ DeployStatus[w] = "loading"
       \/ \E v \in Versions : versionWorker'[v] = w /\ versionStatus'[v] = "loading"
  /\ \A v \in Versions : versionStatus[v] = "loading" =>
       \/ versionStatus'[v] = "loading" \/ Carried(v)'
       \/ DeployStatus'[versionWorker'[v]] # "loading"

(* ... about versions ...                                                  *)
Stands ==
  /\ \A v \in Versions : v < nextVersion => versionWorker'[v] = versionWorker[v]
  /\ \A v \in Versions : v < nextVersion /\ versionStatus[v] = "none" => versionStatus'[v] = "none"

(* ... and about outcomes.                                                 *)
Records1 ==
  /\ \A t \in Threads : pool'[t].step = "failWorker" =>
       pool'[t] = pool[t] \/ versionStatus'[pool'[t].job.version] \in {"error", "none"}
  /\ \A w \in Workers : DeployStatus'[w] = "error" =>
       \/ DeployStatus[w] = "error"
       \/ \E v \in Versions : versionWorker'[v] = w /\ versionStatus'[v] = "error"

Records2 ==
  /\ \A w \in Workers : HasRow(w)' /\ cr'[w] # 0 =>
       \/ HasRow(w) /\ cr'[w] = cr[w]
       \/ \E t \in Threads : pool'[t].step = "succeed" /\ pool'[t].job.version = cr'[w]
  /\ \A t \in Threads : pool[t].step = "succeed" =>
       \/ pool'[t] = pool[t]
       \/ versionStatus'[JobVersion(t)] = "success"
       \/ workerStatus'[JobWorker(t)] \notin RowStatus

LEMMA FlowsSuffices ==
  ASSUME IInv, SInv, JobsRecord, Flows, Stands
  PROVE  VersionsMove' /\ WorkersMove'
  <1>1. VersionsMove'
    <2> SUFFICES ASSUME NEW v \in acked', versionStatus'[v] = "loading" PROVE Carried(v)'
      BY DEF VersionsMove
    <2>1. CASE v \notin acked
      BY <2>1 DEF Flows
    <2>2. CASE v \in acked
      <3>1. v \in Versions /\ Carried(v)
        BY <2>2 DEF Flows, SInv, VersionsMove, IInv, TypeOK
      <3>2. QED
        BY <3>1 DEF Flows, Ended
    <2>3. QED
      BY <2>1, <2>2
  <1>2. WorkersMove'
    <2> SUFFICES ASSUME NEW w \in Workers, DeployStatus'[w] = "loading"
                 PROVE  \E v \in Versions :
                          versionWorker'[v] = w /\ (versionStatus'[v] = "loading" \/ Carried(v)')
      BY DEF WorkersMove
    <2>1. CASE \E v \in Versions : versionWorker'[v] = w /\ versionStatus'[v] = "loading"
      BY <2>1
    <2>2. CASE DeployStatus[w] = "loading"
      <3>1. PICK v \in Versions :
              versionWorker[v] = w /\ (versionStatus[v] = "loading" \/ Carried(v))
        BY <2>2 DEF SInv, WorkersMove
      <3>2. v < nextVersion
        BY <3>1, ConstantsAssumption DEF IInv, Rows, TypeOK, Versions
      <3>3. versionWorker'[v] = w
        BY <3>1, <3>2 DEF Stands
      <3>4. CASE versionStatus[v] = "loading"
        BY <3>3, <3>4 DEF Flows
      <3>5. CASE Carried(v)
        BY <3>3, <3>5 DEF Flows, Ended
      <3>6. QED
        BY <3>1, <3>4, <3>5
    <2>3. QED
      BY <2>1, <2>2 DEF Flows
  <1>3. QED
    BY <1>1, <1>2

(* The rows of a version and of its worker go together.                    *)
LEMMA GoneTogether ==
  ASSUME IInv, IInv', Stands, NEW v \in Versions, v < nextVersion,
         versionStatus'[v] = "none"
  PROVE  workerStatus'[versionWorker[v]] \notin RowStatus
  <1>1. versionWorker'[v] = versionWorker[v] /\ versionWorker[v] \in Workers
    BY DEF Stands, IInv, Rows
  <1>2. v < nextVersion'
    <2>1. v \in Nat /\ nextVersion' \in Nat
      BY DEF IInv, TypeOK, Versions
    <2>2. v >= nextVersion' => versionWorker'[v] = NoWorker
      BY DEF IInv, Rows
    <2>3. QED
      BY <1>1, <2>1, <2>2, ConstantsAssumption
  <1>3. QED
    BY <1>1, <1>2 DEF IInv, Rows, HasVersion, HasRow

LEMMA Records1Suffices ==
  ASSUME IInv, IInv', SInv, JobsRecord, Stands, Records1,
         \A v \in Versions : versionStatus[v] \in {"success", "error"} =>
           versionStatus'[v] \in {versionStatus[v], "none"}
  PROVE  Marked' /\ WorkerExplained'
  <1>1. Marked'
    <2> SUFFICES ASSUME NEW t \in Threads, pool'[t].step = "failWorker"
                 PROVE  versionStatus'[pool'[t].job.version] \in {"error", "none"}
      BY DEF Marked, JobVersion
    <2>1. CASE pool'[t] = pool[t]
      <3>1. pool[t].step = "failWorker" /\ pool[t].step \in DeploySteps
        BY <2>1 DEF DeploySteps
      <3>2. JobVersion(t) \in Versions /\ JobVersion(t) < nextVersion
        BY <3>1, DeployTask
      <3>3. versionStatus[JobVersion(t)] \in {"error", "none"}
        BY <3>1 DEF SInv, Marked
      <3>4. QED
        BY <2>1, <3>2, <3>3 DEF Stands, JobVersion
    <2>2. QED
      BY <2>1 DEF Records1
  <1>2. WorkerExplained'
    <2> SUFFICES ASSUME NEW w \in Workers, DeployStatus'[w] = "error"
                 PROVE  \E v \in Versions : versionWorker'[v] = w /\ versionStatus'[v] = "error"
      BY DEF WorkerExplained
    <2>1. CASE DeployStatus[w] = "error"
      <3>1. PICK v \in Versions : versionWorker[v] = w /\ versionStatus[v] = "error"
        BY <2>1 DEF SInv, WorkerExplained
      <3>2. v < nextVersion
        BY <3>1, ConstantsAssumption DEF IInv, Rows, TypeOK, Versions
      <3>3. HasRow(w)'
        BY StatusAgrees DEF HasRow, RowStatus
      <3>4. versionStatus'[v] # "none"
        BY <3>1, <3>2, <3>3, GoneTogether DEF HasRow
      <3>5. QED
        BY <3>1, <3>2, <3>4 DEF Stands
    <2>2. QED
      BY <2>1 DEF Records1
  <1>3. QED
    BY <1>1, <1>2

LEMMA Records2Suffices ==
  ASSUME IInv, IInv', SInv, JobsRecord, TrueAnswers, Stands, Records2,
         \A v \in Versions : versionStatus[v] \in {"success", "error"} =>
           versionStatus'[v] \in {versionStatus[v], "none"}
  PROVE  RunningExplained'
  <1> SUFFICES ASSUME NEW w \in Workers, HasRow(w)', cr'[w] # 0
               PROVE  \/ versionStatus'[cr'[w]] = "success"
                      \/ \E t \in Threads : pool'[t].step = "succeed"
                                         /\ pool'[t].job.version = cr'[w]
    BY DEF RunningExplained, JobVersion
  <1>1. CASE HasRow(w) /\ cr'[w] = cr[w]
    <2>1. cr[w] \in Versions /\ cr[w] < nextVersion /\ versionWorker[cr[w]] = w
      BY <1>1 DEF SInv, Written
    <2>2. CASE versionStatus[cr[w]] = "success"
      <3>1. versionStatus'[cr[w]] # "none"
        BY <2>1, GoneTogether DEF HasRow
      <3>2. QED
        BY <1>1, <2>1, <2>2, <3>1
    <2>3. CASE \E t \in Threads : pool[t].step = "succeed" /\ JobVersion(t) = cr[w]
      <3>1. PICK t \in Threads : pool[t].step = "succeed" /\ JobVersion(t) = cr[w]
        BY <2>3
      <3>2. JobWorker(t) = w
        BY <2>1, <3>1, DeployTask DEF DeploySteps
      <3>3. \/ pool'[t] = pool[t]
            \/ versionStatus'[cr[w]] = "success"
        BY <3>1, <3>2 DEF Records2, HasRow
      <3>4. QED
        BY <1>1, <3>1, <3>3 DEF JobVersion
    <2>4. QED
      BY <1>1, <2>2, <2>3 DEF SInv, RunningExplained
  <1>2. QED
    BY <1>1 DEF Records2

Progress ==
  /\ Answered' /\ Written' /\ Stands
  /\ JobsRecord => Flows /\ Records1
  /\ JobsRecord /\ TrueAnswers => Records2

(* Requests that post nothing, and the controller.                         *)
LEMMA ProgressElsewhere ==
  ASSUME IInv, SInv, \/ \E w \in Workers : CreateWorker(w) \/ UpdateStatus(w)
                     \/ UNCHANGED vars
  PROVE  Progress
  <1>1. /\ UNCHANGED <<versionWorker, versionStatus, nextVersion, cr, request, queue, pool, acked>>
        /\ \A w \in Workers : \/ workerStatus'[w] = workerStatus[w]
                              \/ workerStatus[w] = "none" /\ workerStatus'[w] = "unloaded"
        /\ \A w \in Workers : DeployStatus'[w] \in {DeployStatus[w], "unloaded"}
    BY DEF CreateWorker, UpdateStatus, vars, dbVars, workerVars, versionVars, crVars, history,
       DeployStatus, IInv, TypeOK
  <1>2. Answered' /\ Written'
    BY <1>1 DEF SInv, Answered, Written
  <1>3. Stands
    BY <1>1 DEF Stands
  <1>4. Flows
    <2>1. \A v : Carried(v) => Carried(v)'
      BY <1>1 DEF Carried
    <2>2. QED
      BY <1>1, <2>1 DEF Flows
  <1>5. Records1
    BY <1>1 DEF Records1
  <1>6. Records2
    <2>1. \A w \in Workers : cr[w] # 0 => workerStatus[w] # "none"
      BY DEF SInv, Written, IInv, Rows
    <2>2. QED
      BY <1>1, <2>1 DEF Records2, HasRow, JobVersion
  <1>7. QED
    BY <1>2, <1>3, <1>4, <1>5, <1>6 DEF Progress

LEMMA ProgressDeployWorker ==
  ASSUME IInv, SInv, NEW c \in Clients, NEW w \in Workers, DeployWorker(c, w)
  PROVE  Progress
  <1> USE ConstantsAssumption
  <1>0. nextVersion \in Versions /\ nextVersion \in Nat /\ \A v \in Versions : v \in Nat
    BY DEF IInv, TypeOK, Versions, DeployWorker
  <1>1. /\ HasRow(w)
        /\ workerStatus' = [workerStatus EXCEPT ![w] = "loading"]
        /\ versionWorker' = [versionWorker EXCEPT ![nextVersion] = w]
        /\ versionStatus' = [versionStatus EXCEPT ![nextVersion] = "loading"]
        /\ nextVersion' = nextVersion + 1
        /\ UNCHANGED <<cr, queue, pool, acked>>
        /\ request[c].job.kind # "deploy"
        /\ \A d \in Clients : \/ request'[d] = request[d]
                              \/ d = c /\ request'[d].job.version = nextVersion
    BY DEF DeployWorker, history, crVars, DeployJob, IInv, Tasks, RequestWell, TypeOK
  <1>2. /\ \A v \in Versions : v # nextVersion =>
             versionWorker'[v] = versionWorker[v] /\ versionStatus'[v] = versionStatus[v]
        /\ versionWorker'[nextVersion] = w /\ versionStatus'[nextVersion] = "loading"
        /\ workerStatus'[w] = "loading"
        /\ \A x \in Workers : x # w => workerStatus'[x] = workerStatus[x]
    BY <1>0, <1>1 DEF IInv, TypeOK
  <1>s. /\ \A x \in Workers : x # w => DeployStatus'[x] = DeployStatus[x]
        /\ DeployStatus'[w] = "loading"
    BY <1>2 DEF DeployWorker, DeployStatus
  <1>3. Answered'
    <2>1. \A v \in acked : v < nextVersion /\ v \in Nat
      BY <1>0 DEF SInv, Answered, IInv, TypeOK
    <2>2. nextVersion \notin acked
      BY <1>0, <2>1
    <2>3. QED
      BY <1>0, <1>1, <2>1, <2>2 DEF SInv, Answered
  <1>a. \A v \in Versions : v < nextVersion => v # nextVersion /\ v < nextVersion + 1
    BY <1>0
  <1>4. Written'
    <2>1. ASSUME NEW x \in Workers, cr[x] # 0
          PROVE  cr[x] \in Versions /\ cr[x] < nextVersion' /\ versionWorker'[cr[x]] = x
      <3>1. cr[x] \in Versions /\ cr[x] < nextVersion /\ versionWorker[cr[x]] = x
        BY <2>1 DEF SInv, Written
      <3>2. QED
        BY <1>1, <1>2, <1>a, <3>1
    <2>2. QED
      BY <1>1, <2>1 DEF Written
  <1>5. Stands
    BY <1>2, <1>a DEF Stands
  <1>6. Flows
    <2>1. \A v : Carried(v) => Carried(v)'
      BY <1>1 DEF Carried, DeployOf
    <2>2. \A v \in acked : v \in Versions /\ v # nextVersion
      BY <1>0 DEF SInv, Answered, IInv, TypeOK
    <2>3. QED
      BY <1>0, <1>1, <1>2, <1>s, <2>1, <2>2 DEF Flows
  <1>7. Records1
    BY <1>1, <1>2, <1>s DEF Records1
  <1>8. Records2
    <2>1. \A x \in Workers : HasRow(x)' => HasRow(x)
      BY <1>1, <1>2 DEF HasRow
    <2>2. QED
      BY <1>1, <2>1 DEF Records2
  <1>9. QED
    BY <1>3, <1>4, <1>5, <1>6, <1>7, <1>8 DEF Progress

(* A task that is dropped by its handler was not answered 200.             *)
LEMMA DroppedRequest ==
  ASSUME IInv, SInv, NEW d \in Clients, NEW v \in Versions, DeployOf(request[d].job, v),
         UNCHANGED <<workerStatus, configured, versionStatus, versionWorker>>, v \notin acked'
  PROVE  Ended(v)
  <1>1. /\ v < nextVersion /\ versionWorker[v] \in Workers
        /\ versionStatus[v] \in {"loading", "none"}
    BY DEF IInv, Tasks, Known, Undecided, DeployOf, Rows
  <1>2. versionStatus[v] = "none" => ~HasRow(versionWorker[v])
    BY <1>1 DEF IInv, Rows, HasVersion
  <1>3. DeployStatus'[versionWorker[v]] \in {workerStatus[versionWorker[v]], "configured"}
    BY <1>1, StatusAgrees
  <1>4. QED
    BY <1>1, <1>2, <1>3 DEF Ended, HasRow, RowStatus

LEMMA ProgressSendDeploy ==
  ASSUME IInv, SInv, NEW c \in Clients, SendDeploy(c)
  PROVE  Progress
  <1>1. PICK job \in Job : job = request[c].job
    BY DEF IInv, TypeOK
  <1>2. job.kind = "deploy" /\ job.version \in Versions /\ job.version < nextVersion
    BY <1>1 DEF IInv, Tasks, RequestWell, SendDeploy, Known
  <1>3. /\ UNCHANGED <<workerStatus, configured, nextVersion, versionWorker, versionStatus, cr, pool>>
        /\ \A d \in Clients : request'[d] = IF d = c THEN NoRequest ELSE request[d]
    BY DEF SendDeploy, dbVars, workerVars, versionVars, crVars, IInv, TypeOK
  <1>s. UNCHANGED DeployStatus
    BY <1>3 DEF DeployStatus
  <1>4. /\ queue \in Seq(Job)
        /\ queue' = queue \/ queue' = Append(queue, job)
        /\ acked' = acked \/ (acked' = acked \cup {job.version} /\ queue' = Append(queue, job))
    <2>1. queue \in Seq(Job)
      BY DEF IInv, TypeOK
    <2>2. PICK ok \in BOOLEAN :
            /\ SendTask(job, ok)
            /\ acked' = IF ok THEN acked \cup {job.version} ELSE acked
      BY <1>1 DEF SendDeploy
    <2>3. QED
      BY <2>1, <2>2 DEF SendTask, Submit
  <1>5. /\ \A i \in 1..Len(queue) : i \in 1..Len(queue') /\ queue'[i] = queue[i]
        /\ queue' = Append(queue, job) => \E i \in 1..Len(queue') : queue'[i] = job
    <2>1. /\ Len(queue) \in Nat /\ Len(Append(queue, job)) = Len(queue) + 1
          /\ \A i \in 1..Len(queue) : Append(queue, job)[i] = queue[i]
          /\ Append(queue, job)[Len(queue) + 1] = job
      BY <1>4, AppendFacts
    <2>2. /\ \A i \in 1..Len(queue) : i \in 1..(Len(queue) + 1)
          /\ Len(queue) + 1 \in 1..(Len(queue) + 1)
      BY <2>1
    <2>3. QED
      BY <1>4, <2>1, <2>2
  <1>6. \A v : Carried(v) => Carried(v)' \/ (v = job.version /\ acked' = acked)
    <2>1. ASSUME NEW v, NEW d \in Clients, DeployOf(request[d].job, v)
          PROVE  Carried(v)' \/ (v = job.version /\ acked' = acked)
      <3>1. CASE d # c
        BY <1>3, <2>1, <3>1 DEF Carried, DeployOf
      <3>2. CASE d = c /\ acked' = acked
        BY <1>1, <2>1, <3>2 DEF DeployOf
      <3>3. CASE d = c /\ queue' = Append(queue, job)
        BY <1>1, <1>5, <2>1, <3>3 DEF Carried, DeployOf
      <3>4. QED
        BY <1>4, <3>1, <3>2, <3>3
    <2>2. ASSUME NEW v, NEW i \in 1..Len(queue), DeployOf(queue[i], v) PROVE Carried(v)'
      BY <1>5, <2>2 DEF Carried
    <2>3. ASSUME NEW v, NEW t \in Threads, DeployOf(pool[t].job, v) PROVE Carried(v)'
      BY <1>3, <2>3 DEF Carried
    <2>4. QED
      BY <2>1, <2>2, <2>3 DEF Carried
  <1>7. job.version \notin acked
    BY <1>1 DEF SInv, Answered, SendDeploy
  <1>8. Answered'
    <2>1. \A v \in acked' : v < nextVersion
      BY <1>2, <1>4 DEF SInv, Answered
    <2>2. ASSUME NEW d \in Clients, request'[d].step = "sendDeploy"
          PROVE  request'[d].job.version \notin acked'
      <3>1. d # c /\ request'[d] = request[d]
        BY <1>3, <2>2 DEF NoRequest
      <3>2. request[d].job.kind = "deploy"
        BY <2>2, <3>1 DEF IInv, Tasks, RequestWell
      <3>3. request[d].job.version # job.version
        BY <1>1, <1>2, <3>1, <3>2 DEF IInv, OneJobPerVersion, SameDeploy
      <3>4. QED
        BY <1>4, <2>2, <3>1, <3>3 DEF SInv, Answered
    <2>3. QED
      BY <1>3, <2>1, <2>2 DEF Answered
  <1>9. Written' /\ Stands
    BY <1>3 DEF SInv, Written, Stands
  <1>10. Flows
    <2>1. ASSUME NEW v \in Versions, Carried(v) PROVE Carried(v)' \/ Ended(v)
      <3>1. CASE v = job.version /\ acked' = acked
        BY <1>1, <1>2, <1>3, <1>7, <3>1, DroppedRequest DEF DeployOf
      <3>2. QED
        BY <1>6, <2>1, <3>1
    <2>2. \A v \in acked' : v \in acked \/ Carried(v)'
      BY <1>2, <1>4, <1>5 DEF Carried, DeployOf
    <2>3. QED
      BY <1>3, <1>s, <2>1, <2>2 DEF Flows
  <1>11. Records1 /\ Records2
    BY <1>3, <1>s DEF Records1, Records2, HasRow
  <1>12. QED
    BY <1>8, <1>9, <1>10, <1>11 DEF Progress

LEMMA QueueGrows ==
  ASSUME NEW job \in Job, queue \in Seq(Job), queue' = queue \/ queue' = Append(queue, job)
  PROVE  \A i \in 1..Len(queue) : i \in 1..Len(queue') /\ queue'[i] = queue[i]
  <1>1. /\ Len(queue) \in Nat /\ Len(Append(queue, job)) = Len(queue) + 1
        /\ \A i \in 1..Len(queue) : Append(queue, job)[i] = queue[i]
    BY AppendFacts
  <1>2. \A i \in 1..Len(queue) : i \in 1..(Len(queue) + 1)
    BY <1>1
  <1>3. QED
    BY <1>1, <1>2

(* A request that carries no deploy task.                                  *)
LEMMA OtherRequest ==
  ASSUME IInv, SInv, NEW c \in Clients,
         UNCHANGED <<nextVersion, versionWorker, versionStatus, cr, pool, acked>>,
         request[c].job.kind # "deploy", request'[c].step # "sendDeploy",
         \A d \in Clients : d # c => request'[d] = request[d],
         \A i \in 1..Len(queue) : i \in 1..Len(queue') /\ queue'[i] = queue[i],
         \A w \in Workers : DeployStatus'[w] \in {DeployStatus[w], "configured"},
         \A w \in Workers : HasRow(w)' <=> HasRow(w)
  PROVE  Progress
  <1>1. \A v : Carried(v) => Carried(v)'
    BY DEF Carried, DeployOf
  <1>2. Answered' /\ Written' /\ Stands
    BY DEF SInv, Answered, Written, Stands
  <1>3. Flows
    BY <1>1 DEF Flows
  <1>4. Records1 /\ Records2
    BY DEF Records1, Records2, HasRow
  <1>5. QED
    BY <1>2, <1>3, <1>4 DEF Progress

LEMMA ProgressDeleteWorker ==
  ASSUME IInv, SInv, NEW c \in Clients, NEW w \in Workers, DeleteWorker(c, w)
  PROVE  Progress
  <1>0. PICK job \in Job : job = DeleteJob(w)
    <2>1. DeleteJob(w) \in Job
      BY ConstantsAssumption DEF DeleteJob, Job
    <2>2. QED
      BY <2>1
  <1>1. /\ UNCHANGED <<workerStatus, configured, nextVersion, versionWorker, versionStatus, cr,
                       pool, acked>>
        /\ request[c].job.kind # "deploy"
        /\ \A d \in Clients : d # c => request'[d] = request[d]
        /\ request'[c].step = "deleteRow"
        /\ queue \in Seq(Job) /\ (queue' = queue \/ queue' = Append(queue, job))
    BY <1>0 DEF DeleteWorker, SendTask, Submit, dbVars, workerVars, versionVars, crVars, IInv,
       TypeOK, Tasks, RequestWell
  <1>2. UNCHANGED DeployStatus /\ \A x \in Workers : HasRow(x)' <=> HasRow(x)
    BY <1>1 DEF DeployStatus, HasRow
  <1>3. \A i \in 1..Len(queue) : i \in 1..Len(queue') /\ queue'[i] = queue[i]
    BY <1>1, QueueGrows
  <1>4. QED
    BY <1>1, <1>2, <1>3, OtherRequest

LEMMA ProgressSetWorkerConfig ==
  ASSUME IInv, SInv, NEW c \in Clients, NEW w \in Workers, SetWorkerConfig(c, w)
  PROVE  Progress
  <1>1. /\ UNCHANGED <<nextVersion, versionWorker, versionStatus, cr, pool, acked, queue>>
        /\ request[c].job.kind # "deploy"
        /\ \A d \in Clients : d # c => request'[d] = request[d]
        /\ request'[c].step # "sendDeploy"
    BY DEF SetWorkerConfig, dbVars, versionVars, crVars, IInv, TypeOK, Tasks, RequestWell
  <1>2. \A x \in Workers : DeployStatus'[x] \in {DeployStatus[x], "configured"}
    BY DEF SetWorkerConfig, DeployStatus, IInv, TypeOK
  <1>3. \A x \in Workers : HasRow(x)' <=> HasRow(x)
    BY DEF SetWorkerConfig, HasRow, RowStatus, IInv, TypeOK
  <1>4. QED
    BY <1>1, <1>2, <1>3, OtherRequest

LEMMA ProgressSendSync ==
  ASSUME IInv, SInv, NEW c \in Clients, SendSync(c)
  PROVE  Progress
  <1>0. PICK job \in Job : job = request[c].job
    BY DEF IInv, TypeOK
  <1>1. /\ UNCHANGED <<workerStatus, configured, nextVersion, versionWorker, versionStatus, cr,
                       pool, acked>>
        /\ request[c].job.kind # "deploy"
        /\ \A d \in Clients : d # c => request'[d] = request[d]
        /\ request'[c].step = "idle"
        /\ queue \in Seq(Job) /\ (queue' = queue \/ queue' = Append(queue, job))
    BY <1>0 DEF SendSync, SendTask, Submit, NoRequest, dbVars, workerVars, versionVars, crVars,
       history, IInv, TypeOK, Tasks, RequestWell
  <1>2. UNCHANGED DeployStatus /\ \A x \in Workers : HasRow(x)' <=> HasRow(x)
    BY <1>1 DEF DeployStatus, HasRow
  <1>3. \A i \in 1..Len(queue) : i \in 1..Len(queue') /\ queue'[i] = queue[i]
    BY <1>1, QueueGrows
  <1>4. QED
    BY <1>1, <1>2, <1>3, OtherRequest

LEMMA ProgressDeleteRow ==
  ASSUME IInv, SInv, NEW c \in Clients, DeleteRow(c)
  PROVE  Progress
  <1>1. PICK w \in Workers : w = request[c].job.worker
    BY DEF DeleteRow, IInv, Tasks, RequestWell
  <1>2. /\ UNCHANGED <<configured, nextVersion, versionWorker, cr, queue, pool, acked>>
        /\ request[c].job.kind # "deploy"
        /\ \A d \in Clients : request'[d] = IF d = c THEN NoRequest ELSE request[d]
    BY DEF DeleteRow, crVars, history, IInv, TypeOK, Tasks, RequestWell
  <1>3. \/ UNCHANGED <<workerStatus, versionStatus>>
        \/ /\ workerStatus'[w] = "deleted"
           /\ \A x \in Workers : x # w => workerStatus'[x] = workerStatus[x]
           /\ \A v \in Versions : versionStatus'[v] =
                IF versionWorker[v] = w THEN "none" ELSE versionStatus[v]
    BY <1>1 DEF DeleteRow, workerVars, IInv, TypeOK
  <1>s. /\ \A x \in Workers : x # w => DeployStatus'[x] = DeployStatus[x]
        /\ \/ UNCHANGED <<DeployStatus, versionStatus>>
           \/ /\ DeployStatus'[w] \in {"deleted", "configured"}
              /\ DeployStatus'[w] = "configured" => DeployStatus[w] = "configured"
    BY <1>2, <1>3 DEF DeployStatus
  <1>4. \A v : Carried(v) => Carried(v)'
    BY <1>2 DEF Carried, DeployOf
  <1>5. Answered' /\ Written'
    BY <1>2 DEF SInv, Answered, Written, NoRequest
  <1>6. Stands
    BY <1>2, <1>3 DEF Stands
  <1>7. Flows
    <2>1. \A v \in Versions : versionStatus'[v] = versionStatus[v] \/ versionStatus'[v] = "none"
      BY <1>3
    <2>2. \A x \in Workers : DeployStatus'[x] = DeployStatus[x] \/ DeployStatus'[x] = "deleted"
      BY <1>2, <1>3, <1>s
    <2>3. \A v \in Versions : versionStatus[v] = "loading" =>
            versionStatus'[v] = "loading" \/ DeployStatus'[versionWorker'[v]] # "loading"
      BY <1>2, <1>3, <1>s
    <2>4. acked' = acked /\ acked \subseteq Versions
      BY <1>2 DEF IInv, TypeOK
    <2>5. QED
      BY <1>4, <2>1, <2>2, <2>3, <2>4 DEF Flows
  <1>8. Records1 /\ Records2
    BY <1>2, <1>3, <1>s DEF Records1, Records2, HasRow, RowStatus
  <1>9. QED
    BY <1>5, <1>6, <1>7, <1>8 DEF Progress

LEMMA ProgressStartJob ==
  ASSUME IInv, SInv, NEW t \in Threads, StartJob(t)
  PROVE  Progress
  <1>1. /\ Len(queue) \in Nat \ {0} /\ Len(queue') = Len(queue) - 1
        /\ \A i \in 1..Len(queue') : queue'[i] = queue[i + 1]
        /\ Head(queue) = queue[1]
    BY HeadTailFacts DEF StartJob, IInv, TypeOK
  <1>2. \A i \in 1..Len(queue) : i = 1 \/ \E j \in 1..Len(queue') : queue'[j] = queue[i]
    <2> SUFFICES ASSUME NEW i \in 1..Len(queue), i # 1
                 PROVE  \E j \in 1..Len(queue') : queue'[j] = queue[i]
      OBVIOUS
    <2>1. i - 1 \in 1..Len(queue') /\ (i - 1) + 1 = i
      BY <1>1
    <2>2. QED
      BY <1>1, <2>1
  <1>3. /\ UNCHANGED <<workerStatus, configured, nextVersion, versionWorker, versionStatus, cr, request, acked>>
        /\ \A u \in Threads : u # t => pool'[u] = pool[u]
        /\ pool[t].step = "idle"
        /\ pool'[t].job = queue[1] /\ pool'[t].step = FirstStep[queue[1].kind]
    BY <1>1 DEF StartJob, dbVars, workerVars, versionVars, crVars, history, IInv, TypeOK
  <1>4. pool[t].job.kind # "deploy"
    BY <1>3 DEF IInv, Tasks, DeploySteps, EntryWell
  <1>s. UNCHANGED DeployStatus
    BY <1>3 DEF DeployStatus
  <1>f. pool'[t].step # "failWorker" /\ pool'[t].step # "succeed"
    <2>1. PICK job \in Job : job = queue[1]
      BY <1>1 DEF IInv, TypeOK
    <2>2. job.kind # "none"
      BY <1>1, <2>1 DEF IInv, Tasks, TaskWell
    <2>3. QED
      BY <1>3, <2>1, <2>2, FirstStepOf
  <1>5. \A v : Carried(v) => Carried(v)'
    <2>1. ASSUME NEW v, NEW i \in 1..Len(queue), DeployOf(queue[i], v) PROVE Carried(v)'
      BY <1>2, <1>3, <2>1 DEF Carried, DeployOf
    <2>2. ASSUME NEW v, NEW u \in Threads, DeployOf(pool[u].job, v) PROVE Carried(v)'
      <3>1. u # t
        BY <1>4, <2>2 DEF DeployOf
      <3>2. QED
        BY <1>3, <2>2, <3>1 DEF Carried, DeployOf
    <2>3. ASSUME NEW v, NEW c \in Clients, DeployOf(request[c].job, v) PROVE Carried(v)'
      BY <1>3, <2>3 DEF Carried, DeployOf
    <2>4. QED
      BY <2>1, <2>2, <2>3 DEF Carried
  <1>6. Answered' /\ Written' /\ Stands
    BY <1>3 DEF SInv, Answered, Written, Stands
  <1>7. Flows
    BY <1>3, <1>s, <1>5 DEF Flows
  <1>8. Records1 /\ Records2
    BY <1>3, <1>s, <1>f DEF Records1, Records2, HasRow
  <1>9. QED
    BY <1>6, <1>7, <1>8 DEF Progress

(* A step of a job moves one goroutine.                                    *)
LEMMA ProgressOneThread ==
  ASSUME IInv, SInv, NEW t \in Threads,
         UNCHANGED <<nextVersion, versionWorker, request, queue, acked>>,
         \A u \in Threads : u # t => pool'[u] = pool[u],
         pool'[t].job = pool[t].job \/ ~(pool'[t].job.kind = "deploy")
  PROVE  /\ Answered'
         /\ \A v : Carried(v) => Carried(v)' \/ DeployOf(pool[t].job, v)
         /\ pool'[t].job = pool[t].job => \A v : Carried(v) => Carried(v)'
         /\ cr' = cr => Written'
  <1>1. Answered'
    BY DEF SInv, Answered
  <1>2. ASSUME NEW v, Carried(v) PROVE Carried(v)' \/ DeployOf(pool[t].job, v)
    BY <1>2 DEF Carried, DeployOf
  <1>3. ASSUME pool'[t].job = pool[t].job, NEW v, Carried(v) PROVE Carried(v)'
    BY <1>3 DEF Carried, DeployOf
  <1>4. cr' = cr => Written'
    BY DEF SInv, Written
  <1>5. QED
    BY <1>1, <1>2, <1>3, <1>4

(* ... and when it ends without a word, it has a reason.                   *)
LEMMA ProgressQuietStep ==
  ASSUME IInv, SInv, NEW t \in Threads,
         \/ DeployGet(t) \/ DeleteCR(t) \/ SyncConfig(t) \/ SyncStatus(t)
         \/ AuditLoad(t) \/ AuditList(t) \/ AuditDelete(t)
  PROVE  Progress
  <1>0. \/ \E s \in {"create", "syncActive", "syncError", "auditList", "auditDelete"} : Goto(t, s)
        \/ pool' = [pool EXCEPT ![t].step = "update", ![t].seen = revision[JobWorker(t)]]
        \/ pool[t].step # "get" /\ Finish(t)
        \/ UNCHANGED pool
    BY DEF DeployGet, DeleteCR, SyncConfig, SyncStatus, AuditLoad, AuditList, AuditDelete
  <1>1. /\ UNCHANGED <<nextVersion, versionWorker, versionStatus, request, queue, acked>>
        /\ pool[t].step \in {"get", "deleteCR", "sync", "syncActive", "syncError", "auditLoad",
                             "auditList", "auditDelete"}
    BY DEF DeployGet, DeleteCR, SyncConfig, SyncStatus, AuditLoad, AuditList, AuditDelete,
       dbVars, versionVars, history
  <1>p. /\ \A u \in Threads : u # t => pool'[u] = pool[u]
        /\ pool'[t].step # "failWorker"
        /\ \/ pool'[t].job = pool[t].job
           \/ pool[t].step # "get" /\ pool'[t].job.kind = "none"
    BY <1>0, <1>1 DEF Goto, Finish, Idle, NoJob, IInv, TypeOK
  <1>2. \A w \in Workers : cr'[w] = cr[w] \/ cr'[w] = 0
    BY DEF DeployGet, DeleteCR, SyncConfig, SyncStatus, AuditLoad, AuditList, AuditDelete, dbVars,
       crVars, IInv, TypeOK
  <1>s. \/ UNCHANGED <<workerStatus, configured>>
        \/ /\ SetWorkerStatus(JobWorker(t), "active") \/ SetWorkerStatus(JobWorker(t), "error")
           /\ configured' = configured \cup {JobWorker(t)}
    BY DEF DeployGet, DeleteCR, SyncConfig, SyncStatus, AuditLoad, AuditList, AuditDelete, dbVars,
       workerVars, history
  <1>t. /\ \A w \in Workers : DeployStatus'[w] \in {DeployStatus[w], "configured"}
        /\ \A w \in Workers : HasRow(w)' <=> HasRow(w)
    <2>1. CASE UNCHANGED <<workerStatus, configured>>
      BY <2>1 DEF DeployStatus, HasRow
    <2>2. CASE \E x \in {"active", "error"} :
                 SetWorkerStatus(JobWorker(t), x) /\ configured' = configured \cup {JobWorker(t)}
      BY <2>2 DEF DeployStatus, SetWorkerStatus, HasRow, RowStatus, IInv, TypeOK
    <2>3. QED
      BY <1>s, <2>1, <2>2
  <1>4. \A v : Carried(v) => Carried(v)'
    <2>1. CASE pool'[t].job = pool[t].job
      BY <1>1, <1>p, <2>1, ProgressOneThread
    <2>2. CASE pool[t].job.kind # "deploy" /\ pool'[t].job.kind = "none"
      BY <1>1, <1>p, <2>2, ProgressOneThread DEF DeployOf
    <2>3. pool[t].step # "get" => pool[t].job.kind # "deploy"
      BY <1>1 DEF IInv, Tasks, DeploySteps, EntryWell
    <2>4. QED
      BY <1>p, <2>1, <2>2, <2>3
  <1>5. Answered' /\ Stands
    BY <1>1, <1>p, ProgressOneThread DEF Stands
  <1>6. Written'
    BY <1>1, <1>2 DEF SInv, Written
  <1>7. Flows
    BY <1>1, <1>t, <1>4 DEF Flows
  <1>8. Records1 /\ Records2
    BY <1>1, <1>p, <1>2, <1>t DEF Records1, Records2
  <1>9. QED
    BY <1>5, <1>6, <1>7, <1>8 DEF Progress

LEMMA ProgressLoad ==
  ASSUME IInv, SInv, NEW t \in Threads, DeployLoad(t)
  PROVE  Progress
  <1>1. /\ UNCHANGED <<workerStatus, configured, nextVersion, versionWorker, cr, request, queue, acked>>
        /\ \A u \in Threads : u # t => pool'[u] = pool[u]
        /\ pool[t].step = "load" /\ pool'[t].step \in {"get", "idle"}
        /\ pool'[t].job = pool[t].job \/ pool'[t].job.kind = "none"
    BY DEF DeployLoad, Goto, Finish, Idle, NoJob, workerVars, crVars, history, IInv, TypeOK
  <1>2. /\ pool[t].job.kind = "deploy" /\ JobVersion(t) = pool[t].job.version
        /\ JobVersion(t) \in Versions
        /\ versionWorker[JobVersion(t)] = JobWorker(t)
        /\ HasVersion(JobVersion(t)) <=> HasRow(JobWorker(t))
    BY <1>1, DeployTask DEF DeploySteps
  <1>s. UNCHANGED DeployStatus
    BY <1>1 DEF DeployStatus
  <1>3. Answered' /\ Written'
    BY <1>1, ProgressOneThread
  <1>4. \A v \in Versions : \/ versionStatus'[v] = versionStatus[v]
                            \/ versionStatus[v] # "none" /\ versionStatus'[v] = "error"
    BY <1>2 DEF DeployLoad, SetVersionStatus, HasVersion, IInv, TypeOK
  <1>5. Stands
    BY <1>1, <1>4 DEF Stands
  <1>6. ASSUME JobsRecord
        PROVE  /\ versionStatus' = versionStatus
               /\ pool'[t].job = pool[t].job \/ ~HasVersion(JobVersion(t))
    BY <1>2, <1>6 DEF DeployLoad, JobsRecord, SetVersionStatus, Goto, IInv, TypeOK
  <1>7. ASSUME JobsRecord PROVE Flows
    <2>1. ASSUME NEW v \in Versions, Carried(v) PROVE Carried(v)' \/ Ended(v)
      <3>1. CASE pool'[t].job = pool[t].job
        BY <1>1, <2>1, <3>1, ProgressOneThread
      <3>2. CASE ~HasVersion(JobVersion(t)) /\ DeployOf(pool[t].job, v)
        <4>1. v = JobVersion(t)
          BY <1>2, <3>2 DEF DeployOf
        <4>a. DeployStatus'[JobWorker(t)] \in {workerStatus[JobWorker(t)], "configured"}
          BY <1>1, StatusAgrees, DeployTask DEF DeploySteps
        <4>2. QED
          BY <4>a, <1>1, <1>2, <1>6, <1>7, <3>2, <4>1 DEF Ended, HasVersion, HasRow, RowStatus
      <3>3. Carried(v)' \/ DeployOf(pool[t].job, v)
        BY <1>1, <2>1, ProgressOneThread
      <3>4. QED
        BY <1>6, <1>7, <3>1, <3>2, <3>3
    <2>2. QED
      BY <1>1, <1>s, <1>6, <1>7, <2>1 DEF Flows
  <1>8. Records1 /\ Records2
    BY <1>1, <1>s DEF Records1, Records2, HasRow
  <1>9. QED
    BY <1>3, <1>5, <1>7, <1>8 DEF Progress

LEMMA ProgressApply ==
  ASSUME IInv, SInv, NEW t \in Threads, ApplyCR(t)
  PROVE  Progress
  <1>1. /\ UNCHANGED <<workerStatus, configured, nextVersion, versionWorker, versionStatus, request, queue, acked>>
        /\ \A u \in Threads : u # t => pool'[u] = pool[u]
        /\ pool[t].step \in {"create", "update"}
        /\ pool'[t].job = pool[t].job
        /\ \/ pool'[t].step = "succeed" /\ cr' = [cr EXCEPT ![JobWorker(t)] = JobVersion(t)]
           \/ /\ pool'[t].step = "failVersion"
              /\ cr' = cr \/ ("timeout" \in Faults /\ cr' = [cr EXCEPT ![JobWorker(t)] = JobVersion(t)])
    BY DEF ApplyCR, Goto, WriteCR, dbVars, workerVars, versionVars, crVars, history, IInv, TypeOK
  <1>s. UNCHANGED DeployStatus
    BY <1>1 DEF DeployStatus
  <1>2. /\ JobVersion(t) = pool[t].job.version
        /\ JobVersion(t) \in Versions /\ JobVersion(t) < nextVersion
        /\ JobWorker(t) \in Workers /\ versionWorker[JobVersion(t)] = JobWorker(t)
    BY <1>1, DeployTask DEF DeploySteps
  <1>3. \A w \in Workers :
          cr'[w] = cr[w] \/ (w = JobWorker(t) /\ cr'[w] = JobVersion(t))
    BY <1>1, <1>2 DEF IInv, TypeOK
  <1>4. Answered' /\ Stands /\ \A v : Carried(v) => Carried(v)'
    BY <1>1, ProgressOneThread DEF Stands
  <1>5. Written'
    BY <1>1, <1>2, <1>3 DEF SInv, Written
  <1>6. Flows
    BY <1>1, <1>s, <1>4 DEF Flows
  <1>7. Records1
    BY <1>1, <1>s DEF Records1
  <1>8. ASSUME TrueAnswers PROVE Records2
    <2>1. cr' = cr \/ pool'[t].step = "succeed"
      BY <1>1, <1>8 DEF TrueAnswers
    <2>2. \A w \in Workers : HasRow(w)' <=> HasRow(w)
      BY <1>1 DEF HasRow
    <2>3. \A w \in Workers : HasRow(w)' /\ cr'[w] # 0 =>
            \/ HasRow(w) /\ cr'[w] = cr[w]
            \/ \E u \in Threads : pool'[u].step = "succeed" /\ pool'[u].job.version = cr'[w]
      BY <1>1, <1>2, <1>3, <2>1, <2>2
    <2>4. QED
      BY <1>1, <2>3 DEF Records2
  <1>9. QED
    BY <1>4, <1>5, <1>6, <1>7, <1>8 DEF Progress

LEMMA ProgressFailVersion ==
  ASSUME IInv, SInv, NEW t \in Threads, FailVersion(t)
  PROVE  Progress
  <1>1. /\ UNCHANGED <<workerStatus, configured, nextVersion, versionWorker, cr, request, queue, acked>>
        /\ \A u \in Threads : u # t => pool'[u] = pool[u]
        /\ pool[t].step = "failVersion" /\ pool'[t].step = "failWorker"
        /\ pool'[t].job = pool[t].job
    BY DEF FailVersion, Goto, workerVars, crVars, history, IInv, TypeOK
  <1>s. UNCHANGED DeployStatus
    BY <1>1 DEF DeployStatus
  <1>2. /\ pool[t].job.kind = "deploy" /\ JobVersion(t) = pool[t].job.version
        /\ JobVersion(t) \in Versions
    BY <1>1, DeployTask DEF DeploySteps
  <1>3. Answered' /\ Written' /\ \A v : Carried(v) => Carried(v)'
    BY <1>1, ProgressOneThread
  <1>4. \A v \in Versions :
          \/ versionStatus'[v] = versionStatus[v]
          \/ v = JobVersion(t) /\ versionStatus[v] # "none" /\ versionStatus'[v] = "error"
    BY <1>2 DEF FailVersion, SetVersionStatus, HasVersion, IInv, TypeOK
  <1>5. Stands
    BY <1>1, <1>4 DEF Stands
  <1>6. Flows
    <2>1. \A v : v = JobVersion(t) => Carried(v)
      BY <1>2 DEF Carried, DeployOf
    <2>2. \A v \in Versions : v = JobVersion(t) => Carried(v)'
      BY <1>3, <2>1
    <2>3. \A v \in Versions : versionStatus'[v] = "loading" => versionStatus[v] = "loading"
      BY <1>4
    <2>4. \A v \in Versions : versionStatus[v] = "loading" =>
            versionStatus'[v] = "loading" \/ Carried(v)'
      BY <1>4, <2>2
    <2>5. acked' = acked /\ acked \subseteq Versions
      BY <1>1 DEF IInv, TypeOK
    <2>6. QED
      BY <1>1, <1>s, <1>3, <2>3, <2>4, <2>5 DEF Flows
  <1>7. ASSUME JobsRecord PROVE Records1
    <2>1. versionStatus'[JobVersion(t)] \in {"error", "none"}
      BY <1>2, <1>7 DEF FailVersion, JobsRecord, SetVersionStatus, HasVersion, IInv, TypeOK
    <2>2. QED
      BY <1>1, <1>s, <1>2, <2>1 DEF Records1
  <1>8. Records2
    BY <1>1 DEF Records2, HasRow
  <1>9. QED
    BY <1>3, <1>5, <1>6, <1>7, <1>8 DEF Progress

LEMMA ProgressFailWorker ==
  ASSUME IInv, SInv, NEW t \in Threads, FailWorker(t)
  PROVE  Progress
  <1>1. /\ UNCHANGED <<nextVersion, versionWorker, versionStatus, cr, request, queue, acked>>
        /\ \A u \in Threads : u # t => pool'[u] = pool[u]
        /\ pool[t].step = "failWorker" /\ pool'[t].step = "idle" /\ pool'[t].job.kind = "none"
    BY DEF FailWorker, Finish, Idle, NoJob, versionVars, crVars, history, IInv, TypeOK
  <1>2. /\ pool[t].job.kind = "deploy" /\ JobVersion(t) = pool[t].job.version
        /\ JobVersion(t) \in Versions /\ JobWorker(t) \in Workers
        /\ versionWorker[JobVersion(t)] = JobWorker(t)
        /\ HasVersion(JobVersion(t)) <=> HasRow(JobWorker(t))
    BY <1>1, DeployTask DEF DeploySteps
  <1>3. /\ Answered' /\ Written'
        /\ \A v : Carried(v) => Carried(v)' \/ DeployOf(pool[t].job, v)
    BY <1>1, ProgressOneThread
  <1>4. \A w \in Workers :
          \/ workerStatus'[w] = workerStatus[w]
          \/ w = JobWorker(t) /\ HasRow(w) /\ workerStatus'[w] = "error"
    BY <1>2 DEF FailWorker, SetWorkerStatus, IInv, TypeOK
  <1>s. \A w \in Workers :
          \/ DeployStatus'[w] = DeployStatus[w]
          \/ w = JobWorker(t) /\ HasRow(w) /\ DeployStatus'[w] = "error"
          \/ DeployStatus'[w] \notin RowStatus
    BY <1>2 DEF FailWorker, SetWorkerStatus, DeployStatus, HasRow, IInv, TypeOK
  <1>5. Stands
    BY <1>1 DEF Stands
  <1>6. ASSUME JobsRecord
        PROVE  /\ versionStatus[JobVersion(t)] \in {"error", "none"}
               /\ DeployStatus'[JobWorker(t)] # "loading"
    <2>1. versionStatus[JobVersion(t)] \in {"error", "none"}
      BY <1>1, <1>6 DEF SInv, Marked
    <2>2. DeployStatus'[JobWorker(t)] # "loading"
      BY <1>2, <1>6 DEF FailWorker, JobsRecord, SetWorkerStatus, HasRow, RowStatus, DeployStatus,
         IInv, TypeOK
    <2>3. QED
      BY <2>1, <2>2
  <1>7. ASSUME JobsRecord PROVE Flows
    <2>1. ASSUME NEW v \in Versions, DeployOf(pool[t].job, v) PROVE Ended(v)
      <3>1. v = JobVersion(t)
        BY <1>2, <2>1 DEF DeployOf
      <3>2. QED
        BY <1>1, <1>2, <1>6, <1>7, <3>1 DEF Ended
    <2>2. \A w \in Workers : DeployStatus'[w] = "loading" => DeployStatus[w] = "loading"
      BY <1>s DEF RowStatus
    <2>3. QED
      BY <1>1, <1>3, <2>1, <2>2 DEF Flows
  <1>8. ASSUME JobsRecord PROVE Records1
    <2>1. ASSUME NEW w \in Workers, DeployStatus'[w] = "error", DeployStatus[w] # "error"
          PROVE  versionWorker'[JobVersion(t)] = w /\ versionStatus'[JobVersion(t)] = "error"
      <3>1. w = JobWorker(t) /\ HasRow(w)
        BY <1>s, <2>1 DEF RowStatus
      <3>2. versionStatus[JobVersion(t)] # "none"
        BY <1>2, <3>1 DEF HasVersion
      <3>3. QED
        BY <1>1, <1>2, <1>6, <1>8, <3>1, <3>2
    <2>2. \A w \in Workers : DeployStatus'[w] = "error" =>
            \/ DeployStatus[w] = "error"
            \/ \E v \in Versions : versionWorker'[v] = w /\ versionStatus'[v] = "error"
      BY <1>2, <2>1
    <2>3. QED
      BY <1>1, <2>2 DEF Records1
  <1>9. Records2
    <2>1. \A w \in Workers : HasRow(w)' <=> HasRow(w)
      BY <1>4 DEF HasRow, RowStatus
    <2>2. QED
      BY <1>1, <2>1 DEF Records2
  <1>10. QED
    BY <1>3, <1>5, <1>7, <1>8, <1>9 DEF Progress

LEMMA ProgressSuccess ==
  ASSUME IInv, SInv, NEW t \in Threads, DeployVersionSuccess(t)
  PROVE  Progress
  <1>1. /\ UNCHANGED <<nextVersion, versionWorker, cr, request, queue, acked>>
        /\ \A u \in Threads : u # t => pool'[u] = pool[u]
        /\ pool[t].step = "succeed" /\ pool'[t].step = "idle" /\ pool'[t].job.kind = "none"
    BY DEF DeployVersionSuccess, Finish, Idle, NoJob, crVars, history, IInv, TypeOK
  <1>2. /\ pool[t].job.kind = "deploy" /\ JobVersion(t) = pool[t].job.version
        /\ JobVersion(t) \in Versions /\ JobWorker(t) \in Workers
        /\ versionWorker[JobVersion(t)] = JobWorker(t)
        /\ HasVersion(JobVersion(t)) <=> HasRow(JobWorker(t))
    BY <1>1, DeployTask DEF DeploySteps
  <1>3. /\ Answered' /\ Written'
        /\ \A v : Carried(v) => Carried(v)' \/ DeployOf(pool[t].job, v)
    BY <1>1, ProgressOneThread
  <1>w. \A w \in Workers :
          \/ workerStatus'[w] = workerStatus[w]
          \/ HasRow(w) /\ workerStatus'[w] = "active"
    BY <1>2 DEF DeployVersionSuccess, SetWorkerStatus, workerVars, IInv, TypeOK
  <1>v. \A v \in Versions :
          \/ versionStatus'[v] = versionStatus[v]
          \/ v = JobVersion(t) /\ versionStatus[v] # "none" /\ versionStatus'[v] = "success"
    BY <1>2 DEF DeployVersionSuccess, SetVersionStatus, HasVersion, IInv, TypeOK
  <1>s. \A w \in Workers :
          \/ DeployStatus'[w] = DeployStatus[w]
          \/ DeployStatus'[w] \notin {"loading", "error"}
    BY <1>2 DEF DeployVersionSuccess, SetWorkerStatus, DeployStatus, workerVars, HasRow, RowStatus,
       IInv, TypeOK
  <1>5. Stands
    BY <1>1, <1>w, <1>v DEF Stands
  <1>6. ASSUME JobsRecord
        PROVE  \/ /\ versionStatus'[JobVersion(t)] = "success"
                  /\ workerStatus'[JobWorker(t)] = "active"
               \/ /\ versionStatus'[JobVersion(t)] = "none"
                  /\ workerStatus'[JobWorker(t)] \notin RowStatus
    <2>1. /\ SetVersionStatus(JobVersion(t), "success")
          /\ SetWorkerStatus(JobWorker(t), "active")
      BY <1>6 DEF DeployVersionSuccess, JobsRecord
    <2>2. CASE HasVersion(JobVersion(t))
      BY <1>2, <2>1, <2>2 DEF SetVersionStatus, SetWorkerStatus, IInv, TypeOK
    <2>3. CASE ~HasVersion(JobVersion(t))
      BY <1>2, <2>1, <2>3 DEF SetVersionStatus, SetWorkerStatus, HasVersion, HasRow
    <2>4. QED
      BY <2>2, <2>3
  <1>7. ASSUME JobsRecord PROVE Flows
    <2>1. versionStatus'[JobVersion(t)] # "loading" /\ DeployStatus'[JobWorker(t)] # "loading"
      BY <1>2, <1>6, <1>7, StatusAgrees DEF RowStatus
    <2>2. ASSUME NEW v \in Versions, DeployOf(pool[t].job, v) PROVE Ended(v)
      <3>1. v = JobVersion(t)
        BY <1>2, <2>2 DEF DeployOf
      <3>2. QED
        BY <1>1, <1>2, <2>1, <3>1 DEF Ended
    <2>3. /\ \A w \in Workers : DeployStatus'[w] = "loading" => DeployStatus[w] = "loading"
          /\ \A v \in Versions : versionStatus'[v] = "loading" => versionStatus[v] = "loading"
      BY <1>s, <1>v
    <2>4. \A v \in Versions : versionStatus[v] = "loading" =>
            versionStatus'[v] = "loading" \/ DeployStatus'[versionWorker'[v]] # "loading"
      BY <1>1, <1>2, <1>s, <1>v, <2>1
    <2>5. acked' = acked /\ acked \subseteq Versions
      BY <1>1 DEF IInv, TypeOK
    <2>6. QED
      BY <1>3, <2>2, <2>3, <2>4, <2>5 DEF Flows
  <1>8. Records1
    BY <1>1, <1>s, <1>v DEF Records1
  <1>9. ASSUME JobsRecord PROVE Records2
    <2>1. \A w \in Workers : HasRow(w)' => HasRow(w)
      BY <1>w, <1>v DEF HasRow
    <2>2. versionStatus'[JobVersion(t)] = "success" \/ workerStatus'[JobWorker(t)] \notin RowStatus
      BY <1>6, <1>9
    <2>3. QED
      BY <1>1, <2>1, <2>2 DEF Records2
  <1>10. QED
    BY <1>3, <1>5, <1>7, <1>8, <1>9 DEF Progress

LEMMA ProgressRestart ==
  ASSUME IInv, SInv, InnerRestart \/ OuterRestart
  PROVE  Progress
  <1>1. /\ UNCHANGED <<workerStatus, configured, nextVersion, versionWorker, versionStatus, cr, acked>>
        /\ \A c \in Clients : request'[c] = request[c] \/ request'[c] = NoRequest
    BY DEF InnerRestart, OuterRestart, EndRequests, dbVars, workerVars, versionVars, crVars, history
  <1>s. UNCHANGED DeployStatus
    BY <1>1 DEF DeployStatus
  <1>2. Answered' /\ Written'
    BY <1>1 DEF SInv, Answered, Written, NoRequest
  <1>3. Stands
    BY <1>1 DEF Stands
  <1>4. ASSUME JobsRecord PROVE UNCHANGED <<queue, pool>>
    BY <1>4 DEF JobsRecord, InnerRestart, OuterRestart
  <1>5. ASSUME JobsRecord PROVE Flows
    <2>1. ASSUME NEW v \in Versions, Carried(v) PROVE Carried(v)' \/ Ended(v)
      <3>1. CASE \E i \in 1..Len(queue) : DeployOf(queue[i], v)
        BY <1>4, <1>5, <3>1 DEF Carried, DeployOf
      <3>2. CASE \E t \in Threads : DeployOf(pool[t].job, v)
        BY <1>4, <1>5, <3>2 DEF Carried, DeployOf
      <3>3. ASSUME NEW c \in Clients, DeployOf(request[c].job, v)
            PROVE  Carried(v)' \/ Ended(v)
        <4>1. CASE request'[c] = request[c]
          BY <3>3, <4>1 DEF Carried, DeployOf
        <4>2. CASE v \notin acked'
          BY <1>1, <3>3, <4>2, DroppedRequest
        <4>3. v \notin acked
          BY <3>3 DEF SInv, Answered, IInv, Tasks, RequestWell, DeployOf
        <4>4. QED
          BY <1>1, <4>2, <4>3
      <3>4. QED
        BY <2>1, <3>1, <3>2, <3>3 DEF Carried
    <2>2. QED
      BY <1>1, <1>s, <2>1 DEF Flows
  <1>6. ASSUME JobsRecord PROVE Records1 /\ Records2
    BY <1>1, <1>s, <1>4, <1>6 DEF Records1, Records2, HasRow
  <1>7. QED
    BY <1>2, <1>3, <1>5, <1>6 DEF Progress

LEMMA SPreserved ==
  ASSUME IInv, IInv', SInv, [Next]_vars
  PROVE  SInv'
  <1>1. Progress
    <2>1. CASE UNCHANGED vars
      BY <2>1, ProgressElsewhere
    <2>2. CASE \E w \in Workers : CreateWorker(w) \/ UpdateStatus(w)
      BY <2>2, ProgressElsewhere
    <2>3. CASE \E c \in Clients, w \in Workers :
                 DeployWorker(c, w) \/ DeleteWorker(c, w) \/ SetWorkerConfig(c, w)
      BY <2>3, ProgressDeployWorker, ProgressDeleteWorker, ProgressSetWorkerConfig
    <2>4. CASE \E c \in Clients : SendDeploy(c) \/ DeleteRow(c) \/ SendSync(c)
      BY <2>4, ProgressSendDeploy, ProgressDeleteRow, ProgressSendSync
    <2>5. CASE \E t \in Threads : RunJob(t)
      BY <2>5, ProgressStartJob, ProgressQuietStep, ProgressLoad, ProgressApply,
         ProgressFailVersion, ProgressFailWorker, ProgressSuccess DEF RunJob
    <2>6. CASE InnerRestart \/ OuterRestart
      BY <2>6, ProgressRestart
    <2>7. QED
      BY <2>1, <2>2, <2>3, <2>4, <2>5, <2>6 DEF Next
  <1>2. Answered' /\ Written' /\ Stands
    BY <1>1 DEF Progress
  <1>3. \A v \in Versions : versionStatus[v] \in {"success", "error"} =>
          versionStatus'[v] \in {versionStatus[v], "none"}
    BY OutcomeKept, StepRefines
  <1>4. ASSUME JobsRecord PROVE (Marked /\ VersionsMove /\ WorkersMove /\ WorkerExplained)'
    <2>1. Flows /\ Records1
      BY <1>1, <1>4 DEF Progress
    <2>2. (VersionsMove /\ WorkersMove)'
      BY <1>2, <1>4, <2>1, FlowsSuffices
    <2>3. (Marked /\ WorkerExplained)'
      BY <1>2, <1>3, <1>4, <2>1, Records1Suffices
    <2>4. QED
      BY <2>2, <2>3
  <1>5. ASSUME JobsRecord, TrueAnswers PROVE RunningExplained'
    <2>1. Records2
      BY <1>1, <1>5 DEF Progress
    <2>2. QED
      BY <1>2, <1>3, <1>5, <2>1, Records2Suffices
  <1>6. QED
    BY <1>2, <1>4, <1>5 DEF SInv, JobsRecord, TrueAnswers

(* What was answered 200 and is still loading has a task on its way, and a *)
(* worker that a deployment, not a change of its environment or secrets,   *)
(* left loading has a version that explains it.                            *)
THEOREM NothingForgotten == Spec => []NothingStuck
  <1>1. IInv /\ SInv => NothingStuck
    <2> SUFFICES ASSUME IInv, SInv PROVE NothingStuck
      OBVIOUS
    <2>1. \A v : Deploying(v) <=> Carried(v)
      BY CarriedIsDeploying
    <2>2. \A w \in Workers : w \notin configured => DeployStatus[w] = workerStatus[w]
      BY DEF DeployStatus
    <2>3. QED
      BY <2>1, <2>2 DEF SInv, VersionsMove, WorkersMove, NothingStuck
  <1>2. IInv /\ IInv' /\ SInv /\ [Next]_vars => SInv'
    BY SPreserved
  <1>3. QED
    BY Invariance, SInit, <1>1, <1>2, PTL DEF Spec

(* A worker that a deployment left in error has a version that says why,   *)
(* and what the cluster runs is recorded as a success, or is about to be.  *)
THEOREM Explained == Spec => []ErrorsExplained
  <1>0. \A w \in Workers : w \notin configured => DeployStatus[w] = workerStatus[w]
    BY DEF DeployStatus
  <1>1. IInv /\ SInv => ErrorsExplained
    BY <1>0 DEF SInv, RunningExplained, WorkerExplained, TrueAnswers, ErrorsExplained
  <1>2. IInv /\ IInv' /\ SInv /\ [Next]_vars => SInv'
    BY SPreserved
  <1>3. QED
    BY Invariance, SInit, <1>1, <1>2, PTL DEF Spec
=============================================================================
