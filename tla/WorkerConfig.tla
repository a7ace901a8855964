---------------------------- MODULE WorkerConfig ----------------------------
(***************************************************************************)
(* The environment and the secrets of one worker: the requests that change *)
(* them (handlers/worker.handler.go), the jobs that carry the change to    *)
(* the ConfigMap and the Secret (jobs/worker.jobs.go), and the controller, *)
(* which creates both and restarts the pods when one is updated.           *)
(*                                                                         *)
(* A request stands for the value it sets, and for the task it posts.      *)
(***************************************************************************)
EXTENDS Naturals, FiniteSets

CONSTANTS
  Requests,
  Keys,
  Asks,        \* what requests may ask for, a subset of AllAsks
  MaxDeploys,  \* bound: how many deploys there are
  MaxKinds,    \* bound: how many kinds of faults meet in one behaviour
  Faults       \* the faults that may happen, a subset of FaultKinds

Parts == {"env", "secret"}
AllAsks == [part : Parts, key : Keys, delete : BOOLEAN]

(* "db": a statement fails, perhaps with effect; "net": a task cannot be   *)
(* posted, or its answer is lost; "api": a call of the Kubernetes API      *)
(* fails, perhaps with effect; "outer", "inner": a gateway restarts.       *)
FaultKinds == {"db", "net", "api", "outer", "inner"}

ASSUME ConfigAssumption ==
  /\ Asks \subseteq AllAsks /\ Faults \subseteq FaultKinds 
  /\ MaxDeploys \in Nat /\ MaxKinds \in Nat
  /\ Requests \cap {"none", "listed", "empty"} = {}

(* A request's own value; a key that is listed in secrets_json, or holds   *)
(* the empty string.                                                       *)
Values == Requests \cup {"none", "listed", "empty"}

VARIABLES
  row,       \* env_json, and the keys in secrets_json
  status,    \* workers.status
  req,       \* what each request is doing
  job,       \* the sync job of each request's task
  object,    \* the ConfigMap and the Secret; version 0: there is none
  deploy,    \* the deploy in progress
  deploys,   \* how many deploys there were
  cr,        \* whether there is a WorkerApp CR
  control,   \* what the controller does next for the CR
  listening, \* the informers of ConfigMaps and Secrets have listed them
  updates,   \* updates onConfigUpdate has to handle
  second,    \* the second of the last restart annotation, counting restarts
  template,  \* pod template: 0 no Deployment, 1 as written by
             \* EnsureDeployment, 1 + s annotated in second s
  pods,      \* what the pods were started from
  wanted,    \* history: what the requests wrote, key by key
  crossed,   \* history: parts with two changes under way at a time
  early,     \* history: parts whose change found no object
  twice,     \* history: two restarts fell into one second
  happened   \* history: faults there have been

handlerVars == <<row, status, req>>
clusterVars == <<object, template, pods>>
deployVars  == <<deploy, deploys, cr>>
controlVars == <<control, listening, updates, second>>
history == <<wanted, crossed, early, twice, happened>>
vars == <<handlerVars, job, clusterVars, deployVars, controlVars, history>>

Nothing == [k \in Keys |-> "none"]
NoObject == [data |-> Nothing, version |-> 0]
Fresh == [stage |-> "new", key |-> "none", data |-> Nothing]
Done  == [stage |-> "done", key |-> "none", data |-> Nothing]
NoJob == [stage |-> "none", part |-> "env", data |-> Nothing, version |-> 0]

Init ==
  /\ row = [p \in Parts |-> Nothing] /\ status = "unloaded"
  /\ req = [r \in Requests |-> Fresh]
  /\ job = [r \in Requests |-> NoJob]
  /\ object = [p \in Parts |-> NoObject]
  /\ deploy = "idle" /\ deploys = 0 /\ cr = FALSE
  /\ control = "idle" /\ listening = TRUE /\ updates = 0 /\ second = 0
  /\ template = 0
  /\ pods = [template |-> 0, data |-> [p \in Parts |-> Nothing]]
  /\ wanted = row /\ crossed = {} /\ early = {} /\ twice = FALSE /\ happened = {}

Fault(kind) ==
  /\ kind \in Faults /\ happened' = happened \cup {kind}
  /\ Cardinality(happened') <= MaxKinds

(* A change is under way from the read to the end of its job.              *)
Busy(r) == job[r].stage # "none"
Part(r) == job[r].part

-----------------------------------------------------------------------------
(***************************************************************************)
(* SetWorkerEnv and SetWorkerSecrets.                                      *)
(***************************************************************************)

\* Mutant: the new map has the request's key alone.
NewRowWithoutMerge(r, ask) ==
  [Nothing EXCEPT ![ask.key] = IF ask.delete THEN "none" ELSE r]

(* What the request writes: the row it has read, with its key changed.     *)
NewRow(r, ask) ==
  [row[ask.part] EXCEPT ![ask.key] =
     IF ask.delete THEN "none" ELSE IF ask.part = "env" THEN r ELSE "listed"]

\* Mutant: the task of an environment carries the one key that changed.
TaskDataOneKey(r, ask) == [Nothing EXCEPT ![ask.key] = IF ask.delete THEN "empty" ELSE r]

(* What its task carries: the whole environment, or the one secret, which  *)
(* a deletion sets to the empty string.                                    *)
TaskData(r, ask) ==
  IF ask.part = "env" THEN NewRow(r, ask)
  ELSE [Nothing EXCEPT ![ask.key] = IF ask.delete THEN "empty" ELSE r]

(* GetWorkerEnvByOwner, GetWorkerSecretsByOwner.                           *)
ReadRow(r, ask) ==
  /\ req[r].stage = "new"
  /\ req' = [req EXCEPT ![r] = [stage |-> "write", key |-> ask.key, data |-> NewRow(r, ask)]]
  /\ job' = [job EXCEPT ![r] = [stage |-> "unposted", part |-> ask.part,
                                data |-> TaskData(r, ask), version |-> 0]]
  /\ crossed' = IF \E q \in Requests : Busy(q) /\ Part(q) = ask.part
                THEN crossed \cup {ask.part} ELSE crossed
  /\ UNCHANGED <<row, status, clusterVars, deployVars, controlVars,
                 wanted, early, twice, happened>>

(* SetWorkerEnvByOwner, SetWorkerSecretsByOwner: the new value, and status *)
(* loading.                                                                *)
WriteRow(r) ==
  LET p == Part(r)
      k == req[r].key
      Write == /\ row' = [row EXCEPT ![p] = req[r].data]
               /\ status' = "loading"
               /\ wanted' = [wanted EXCEPT ![p][k] = req[r].data[k]] IN
  /\ req[r].stage = "write"
  /\ \/ /\ Write /\ req' = [req EXCEPT ![r] = [Done EXCEPT !.stage = "post"]]
        /\ UNCHANGED <<job, happened>>
     \/ /\ Fault("db") /\ req' = [req EXCEPT ![r] = Done] /\ job' = [job EXCEPT ![r] = NoJob]
        /\ Write \/ UNCHANGED <<row, status, wanted>>
  /\ UNCHANGED <<clusterVars, deployVars, controlVars, crossed, early, twice>>

(* SendTask.                                                               *)
SendTask(r) ==
  LET queued == [job EXCEPT ![r].stage = "queued"] IN
  /\ req[r].stage = "post"
  /\ req' = [req EXCEPT ![r] = Done]
  /\ \/ job' = queued /\ UNCHANGED happened
     \/ Fault("net") /\ job' \in {queued, [job EXCEPT ![r] = NoJob]}
  /\ UNCHANGED <<row, status, clusterVars, deployVars, controlVars,
                 wanted, crossed, early, twice>>

-----------------------------------------------------------------------------
(***************************************************************************)
(* syncEnvJob and syncSecretJob, which differ in the object they update.   *)
(***************************************************************************)
\* Mutant: a worker without a ConfigMap is active at once.
SyncGetOrActive(r) ==
  /\ job[r].stage = "queued"
  /\ job' = IF object[Part(r)].version = 0
            THEN [job EXCEPT ![r].stage = "active"]
            ELSE [job EXCEPT ![r].stage = "update", ![r].version = object[Part(r)].version]
  /\ UNCHANGED <<handlerVars, clusterVars, deployVars, controlVars, history>>

(* Get: every error, NotFound or not, ends the job without a trace.        *)
SyncGet(r) ==
  LET p == Part(r) IN
  /\ job[r].stage = "queued"
  /\ \/ /\ object[p].version = 0
        /\ job' = [job EXCEPT ![r] = NoJob]
        /\ early' = early \cup {p} /\ UNCHANGED happened
     \/ /\ object[p].version # 0
        /\ job' = [job EXCEPT ![r].stage = "update", ![r].version = object[p].version]
        /\ UNCHANGED <<early, happened>>
     \/ /\ Fault("api") /\ job' = [job EXCEPT ![r] = NoJob] /\ UNCHANGED early
  /\ UNCHANGED <<handlerVars, clusterVars, deployVars, controlVars,
                 wanted, crossed, twice>>

\* Mutant: the Secrets have no informer.
UpdateSecretUnnoticed(p, data) ==
  /\ object' = [object EXCEPT ![p] = [data |-> data, version |-> @.version + 1]]
  /\ updates' = IF listening /\ p = "env" THEN updates + 1 ELSE updates

(* The object changes, and its informer, once it has listed, reports it.   *)
UpdateObject(p, data) ==
  /\ object' = [object EXCEPT ![p] = [data |-> data, version |-> @.version + 1]]
  /\ updates' = IF listening THEN updates + 1 ELSE updates

\* Mutant: only a refused update changes the status.
SyncUpdateSilently(r) ==
  LET p == Part(r) IN
  /\ job[r].stage = "update"
  /\ IF job[r].version = object[p].version
     THEN UpdateObject(p, job[r].data) /\ job' = [job EXCEPT ![r] = NoJob]
     ELSE UNCHANGED <<object, updates>> /\ job' = [job EXCEPT ![r].stage = "error"]
  /\ UNCHANGED <<handlerVars, template, pods, deployVars, control, listening, second, history>>

(* Update, which is refused when the object changed since it was read.     *)
SyncUpdate(r) ==
  LET p == Part(r)
      current == job[r].version = object[p].version
      Goes(stage) == job' = [job EXCEPT ![r] = [NoJob EXCEPT !.stage = stage, !.part = p]] IN
  /\ job[r].stage = "update"
  /\ \/ /\ current /\ UpdateObject(p, job[r].data)
        /\ Goes("active") /\ UNCHANGED happened
     \/ /\ ~current /\ Goes("error")
        /\ UNCHANGED <<object, updates, happened>>
     \/ /\ Fault("api") /\ Goes("error")
        /\ \/ current /\ UpdateObject(p, job[r].data)
           \/ UNCHANGED <<object, updates>>
  /\ UNCHANGED <<handlerVars, template, pods, deployVars, control, listening, second,
                 wanted, crossed, early, twice>>

(* UpdateWorkerStatus, whose error is dropped.                             *)
SyncStatus(r) ==
  /\ job[r].stage \in {"active", "error"}
  /\ \/ status' = job[r].stage /\ UNCHANGED happened
     \/ Fault("db") /\ UNCHANGED status
  /\ job' = [job EXCEPT ![r] = NoJob]
  /\ UNCHANGED <<row, req, clusterVars, deployVars, controlVars,
                 wanted, crossed, early, twice>>

-----------------------------------------------------------------------------
(***************************************************************************)
(* Deploys, as far as they meet the configuration: one at a time, the row  *)
(* is loading, the CR is written, the row is active or the error is shown. *)
(***************************************************************************)
DeployWorker ==
  /\ deploy = "idle" /\ deploys < MaxDeploys
  /\ deploy' = "loading" /\ deploys' = deploys + 1
  /\ status' = "loading"
  /\ UNCHANGED <<row, req, job, clusterVars, cr, controlVars, history>>

(* CreateWorkerAppCR.                                                      *)
WriteCR ==
  /\ deploy = "loading"
  /\ \/ deploy' = "written" /\ cr' = TRUE /\ control' = "ConfigMap" /\ UNCHANGED happened
     \/ Fault("api") /\ deploy' = "refused" /\ UNCHANGED <<cr, control>>
  /\ UNCHANGED <<handlerVars, job, clusterVars, deploys, listening, updates, second,
                 wanted, crossed, early, twice>>

DeployEnds ==
  /\ deploy \in {"written", "refused"} /\ deploy' = "idle"
  /\ \/ status' = (IF deploy = "written" THEN "active" ELSE "error") /\ UNCHANGED happened
     \/ Fault("db") /\ UNCHANGED status
  /\ UNCHANGED <<row, req, job, clusterVars, deploys, cr, controlVars,
                 wanted, crossed, early, twice>>

-----------------------------------------------------------------------------
(***************************************************************************)
(* The controller.                                                         *)
(***************************************************************************)
PartOf == [ConfigMap |-> "env", Secret |-> "secret"]

(* EnsureConfigMap and EnsureSecret create an empty object or leave what   *)
(* is there; an error ends the reconciliation.                             *)
EnsureObject ==
  /\ control \in {"ConfigMap", "Secret"}
  /\ LET p == PartOf[control] IN
     \/ /\ object' = IF object[p].version = 0
                     THEN [object EXCEPT ![p] = [data |-> Nothing, version |-> 1]] ELSE object
        /\ control' = IF control = "ConfigMap" THEN "Secret" ELSE "Deployment"
        /\ UNCHANGED happened
     \/ Fault("api") /\ control' = "idle" /\ UNCHANGED object
  /\ UNCHANGED <<handlerVars, job, template, pods, deployVars, listening, updates, second,
                 wanted, crossed, early, twice>>

(* EnsureDeployment creates the Deployment, or replaces it whole: the      *)
(* annotation of the last restart goes.                                    *)
EnsureDeployment ==
  /\ control = "Deployment" /\ control' = "idle"
  /\ \/ template' = 1 /\ UNCHANGED happened
     \/ Fault("api") /\ UNCHANGED template
  /\ UNCHANGED <<handlerVars, job, object, pods, deployVars, listening, updates, second,
                 wanted, crossed, early, twice>>

(* onConfigUpdate calls restartDeployment, which sets the annotation to    *)
(* the time in seconds.                                                    *)
RestartDeployment ==
  /\ updates > 0 /\ updates' = updates - 1
  /\ \/ /\ template = 0 /\ UNCHANGED <<second, template, twice, happened>>
     \/ /\ template # 0 /\ UNCHANGED happened
        /\ \/ /\ second' = second + 1 /\ template' = 1 + second' /\ UNCHANGED twice
           \/ /\ second > 0 /\ template' = 1 + second /\ twice' = TRUE /\ UNCHANGED second
     \/ Fault("api") /\ UNCHANGED <<second, template, twice>>
  /\ UNCHANGED <<handlerVars, job, object, pods, deployVars, control, listening,
                 wanted, crossed, early>>

(* After a start the informers list what there is, which is no update.     *)
List ==
  /\ ~listening /\ listening' = TRUE
  /\ UNCHANGED <<handlerVars, job, clusterVars, deployVars, control, updates, second, history>>

(* Kubernetes replaces the pods when the template is another one.          *)
StartPods ==
  /\ template # pods.template
  /\ pods' = [template |-> template, data |-> [p \in Parts |-> object[p].data]]
  /\ UNCHANGED <<handlerVars, job, object, template, deployVars, controlVars, history>>

-----------------------------------------------------------------------------
OuterRestart ==
  /\ Fault("outer")
  /\ \E r \in Requests : req[r].stage \in {"write", "post"}
  /\ req' = [r \in Requests |->
       IF req[r].stage \in {"write", "post"} THEN Done ELSE req[r]]
  /\ job' = [r \in Requests |-> IF req[r].stage \in {"write", "post"} THEN NoJob ELSE job[r]]
  /\ UNCHANGED <<row, status, clusterVars, deployVars, controlVars,
                 wanted, crossed, early, twice>>

(* Tasks and jobs are gone; the controller finds the CR and reconciles it. *)
InnerRestart ==
  /\ "inner" \notin happened   \* one restart
  /\ Fault("inner")
  /\ job' = [r \in Requests |-> IF req[r].stage \in {"write", "post"} THEN job[r] ELSE NoJob]
  /\ deploy' = "idle"
  /\ control' = IF cr THEN "ConfigMap" ELSE "idle"
  /\ listening' = FALSE /\ updates' = 0
  /\ UNCHANGED <<handlerVars, clusterVars, deploys, cr, second, wanted, crossed, early, twice>>

RequestNext(r) == WriteRow(r) \/ SendTask(r)
SyncNext(r) == SyncGet(r) \/ SyncUpdate(r) \/ SyncStatus(r)
ControlNext == EnsureObject \/ EnsureDeployment

Next ==
  \/ \E r \in Requests : RequestNext(r) \/ SyncNext(r) \/ \E ask \in Asks : ReadRow(r, ask)
  \/ DeployWorker \/ WriteCR \/ DeployEnds
  \/ ControlNext \/ RestartDeployment \/ List \/ StartPods
  \/ OuterRestart \/ InnerRestart

Spec == Init /\ [][Next]_vars

(* Requests and jobs go on, informers deliver, and Kubernetes rolls out.   *)
FairSpec ==
  /\ Spec
  /\ \A r \in Requests : WF_vars(RequestNext(r)) /\ WF_vars(SyncNext(r))
  /\ WF_vars(WriteCR \/ DeployEnds) /\ WF_vars(ControlNext)
  /\ WF_vars(RestartDeployment) /\ WF_vars(List) /\ WF_vars(StartPods)

-----------------------------------------------------------------------------
(***************************************************************************)
(* Properties.                                                             *)
(***************************************************************************)
Maps == [Keys -> Values]

(* Types.                                                                  *)
TypeOK ==
  /\ row \in [Parts -> Maps] /\ wanted \in [Parts -> Maps]
  /\ status \in {"unloaded", "loading", "active", "error"}
  /\ req \in [Requests -> [stage : {"new", "write", "post", "done"},
                           key : Keys \cup {"none"}, data : Maps]]
  /\ job \in [Requests -> [stage : {"none", "unposted", "queued", "update", "active", "error"},
                           part : Parts, data : Maps, version : Nat]]
  /\ object \in [Parts -> [data : Maps, version : Nat]]
  /\ deploy \in {"idle", "loading", "written", "refused"} /\ deploys \in 0..MaxDeploys
  /\ cr \in BOOLEAN
  /\ control \in {"idle", "ConfigMap", "Secret", "Deployment"}
  /\ listening \in BOOLEAN /\ updates \in Nat /\ second \in Nat
  /\ template \in 0..(1 + second)
  /\ pods \in [template : 0..(1 + second), data : [Parts -> Maps]]
  /\ {crossed, early} \subseteq SUBSET Parts
  /\ twice \in BOOLEAN /\ happened \in SUBSET FaultKinds

(* As long as no two requests change a part at the same time, the row has  *)
(* what they asked for, key by key: no key of another is lost.             *)
RowKept == \A p \in Parts \ crossed : row[p] = wanted[p]

Quiet(p) ==
  /\ p \notin crossed \cup early /\ happened = {}
  /\ object[p].version # 0
  /\ \A r \in Requests : Busy(r) => Part(r) # p

(* When the changes of a part come one after the other, to a worker that   *)
(* has been deployed, the cluster follows the row in the end: the          *)
(* ConfigMap is what the row says, and a secret set in the cluster is      *)
(* listed in the row.  Not every secret listed is set: the Secret has the  *)
(* key of the last request alone.                                          *)
ClusterFollowsRow ==
  /\ Quiet("env") => object["env"].data = row["env"]
  /\ Quiet("secret") => \A k \in Keys :
       object["secret"].data[k] \in Requests => row["secret"][k] = "listed"

(* A worker that was never deployed is never shown active, whatever is     *)
(* configured and in whatever order jobs end.                              *)
ActiveWasDeployed == status = "active" => cr

(* No loading is forgotten, also when deploys, two changes and the         *)
(* controller overlap, unless a change met a worker that was not deployed, *)
(* or there was a fault.                                                   *)
StatusResolves == <>[](status = "loading" => early # {} \/ happened # {})

(* In the end the pods have been started with what the ConfigMap and the   *)
(* Secret say, unless two updates fell into one second, a call of the      *)
(* controller failed, or it was restarted.                                 *)
PodsFollow ==
  <>[](\/ pods.template = 0 \/ twice \/ happened \cap {"api", "inner"} # {}
       \/ \A p \in Parts : pods.data[p] = object[p].data)
=============================================================================
