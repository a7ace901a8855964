--------------------------- MODULE WorkerController ---------------------------
(***************************************************************************)
(* The WorkerApp controller (k8s/controller), for one name of a CR: the    *)
(* informers that watch the CR and the objects made for it, the event      *)
(* handlers, and the reconciliation they run.                              *)
(*                                                                         *)
(* Each informer runs its handlers one after the other on a goroutine of   *)
(* its own, so up to four reconciliations of the same CR overlap: one for  *)
(* an event of the CR, one for each informer that reports that an object   *)
(* was deleted.  Every call of the Kubernetes API is a step.               *)
(*                                                                         *)
(* A number stands for a spec of the CR (image, port, owner), and an       *)
(* object "has" the spec it was last written with.                         *)
(***************************************************************************)
EXTENDS Naturals, Sequences, FiniteSets

CONSTANTS
  MaxSpec,    \* bound: how often the CR's spec is written
  MaxFaults,  \* bound: how many faults happen
  Scenarios   \* which faults may happen together: a set of sets of FaultKinds

(***************************************************************************)
(* api           a call of the controller fails without effect             *)
(* restart       the inner gateway, and the controller in it, restarts     *)
(* relist        a watch breaks, and its informer lists the objects anew   *)
(* recreate      a CR is created again after it was deleted                *)
(* subDelete     somebody deletes an object, and its informer sees it      *)
(* blindDelete   somebody deletes an object before its informer has listed *)
(***************************************************************************)
FaultKinds == {"api", "restart", "relist", "recreate", "subDelete", "blindDelete"}

ASSUME ControllerAssumption ==
  /\ MaxSpec \in Nat /\ MaxFaults \in Nat
  /\ Scenarios \subseteq SUBSET FaultKinds

Watched == {"Deployment", "Service", "IngressRoute"}  \* with a DeleteFunc
Kinds   == Watched \cup {"ConfigMap", "Secret"}
Handlers == Watched \cup {"CR"}     \* the goroutine of each informer's handlers

VARIABLES
  cr,        \* the CR in the API server: its spec, 0 if none, and generation
  phase,     \* its status.phase
  lastSpec,  \* the last spec any CR of this name was written with
  object,    \* the spec each object has, 0 if there is no such object
  listed,    \* informers that have listed their objects since the last start
  watch,     \* changes of the CR its informer has not stored yet
  crCache,   \* the CR in the informer's store
  notices,   \* specs onAdd and onUpdate have to reconcile; 0: onDelete
  deleted,   \* deletions onSubResourceDelete has to handle, for each informer
  work,      \* what each handler is doing
  happened,  \* history: the kinds of faults there have been ...
  faults     \* ... and their number

apiVars == <<cr, phase, lastSpec, object>>
informerVars == <<listed, watch, crCache, notices, deleted>>
history == <<happened, faults>>
vars == <<apiVars, informerVars, work, history>>

NoCR == [spec |-> 0, gen |-> 0]
Idle == [stage |-> "idle", call |-> "none", spec |-> 0, fresh |-> FALSE]

Init ==
  /\ cr = NoCR /\ phase = "none" /\ lastSpec = 0
  /\ object = [k \in Kinds |-> 0]
  /\ listed = {} /\ watch = <<>> /\ crCache = NoCR /\ notices = <<>>
  /\ deleted = [k \in Watched |-> 0]
  /\ work = [h \in Handlers |-> Idle]
  /\ happened = {} /\ faults = 0

Occurs(fault) ==
  /\ faults < MaxFaults
  /\ happened' = happened \cup {fault}
  /\ \E s \in Scenarios : happened' \subseteq s
  /\ faults' = faults + 1

-----------------------------------------------------------------------------
(***************************************************************************)
(* The API server.                                                         *)
(***************************************************************************)
StatusStages == {"deploying", "running", "failed"}

(* An Update of an object that changed since it was read is refused: what  *)
(* every other handler has read of it is no longer fresh.                  *)
Outdate(w, stages) ==
  [h \in Handlers |-> IF w[h].stage \in stages THEN [w[h] EXCEPT !.fresh = FALSE] ELSE w[h]]

CRChanges(c) ==
  /\ cr' = c
  /\ watch' = IF "CR" \in listed THEN Append(watch, c) ELSE watch
  /\ work' = Outdate(work, StatusStages)
  /\ UNCHANGED <<object, listed, crCache, notices, deleted>>

(* A deploy job creates the CR or replaces its spec.                       *)
WriteSpec ==
  /\ lastSpec < MaxSpec /\ lastSpec' = lastSpec + 1
  /\ CRChanges([spec |-> lastSpec + 1, gen |-> cr.gen + 1])
  /\ IF cr = NoCR /\ lastSpec > 0 THEN Occurs("recreate") ELSE UNCHANGED history
  /\ UNCHANGED phase

(* A delete job, or the audit, deletes the CR.                             *)
DeleteCR ==
  /\ cr # NoCR
  /\ CRChanges(NoCR) /\ phase' = "none"
  /\ UNCHANGED <<lastSpec, history>>

\* Mutant: no DeleteFunc for the informer of Services.
GoneUnnoticed(k) ==
  /\ object' = [object EXCEPT ![k] = 0]
  /\ deleted' = IF k \in listed \ {"Service"} /\ object[k] # 0
                THEN [deleted EXCEPT ![k] = @ + 1] ELSE deleted
  /\ UNCHANGED <<cr, phase, lastSpec, listed, watch, crCache, notices>>

(* An object goes; an informer that has listed it reports the deletion.    *)
Gone(k) ==
  /\ object' = [object EXCEPT ![k] = 0]
  /\ deleted' = IF k \in listed /\ object[k] # 0 THEN [deleted EXCEPT ![k] = @ + 1] ELSE deleted
  /\ UNCHANGED <<cr, phase, lastSpec, listed, watch, crCache, notices>>

DeleteObject(k) ==
  /\ object[k] # 0
  /\ Gone(k)
  /\ work' = Outdate(work, {k})
  /\ Occurs(IF k \in listed THEN "subDelete" ELSE "blindDelete")

-----------------------------------------------------------------------------
(***************************************************************************)
(* The informers.                                                          *)
(***************************************************************************)

(* onUpdate returns when the generation is the same, which no two specs of *)
(* one CR have; the other events all reach reconcile or DeleteAll.         *)
Notice(old, new) ==
  IF new = NoCR THEN IF old = NoCR THEN <<>> ELSE <<0>>
  ELSE IF old # NoCR /\ old.gen = new.gen THEN <<>> ELSE <<new.spec>>

(* The first list of an informer after start: objects that exist are added. *)
List(i) ==
  /\ i \notin listed
  /\ listed' = listed \cup {i}
  /\ IF i = "CR" THEN crCache' = cr /\ notices' = Notice(NoCR, cr)
                 ELSE UNCHANGED <<crCache, notices>>
  /\ UNCHANGED <<apiVars, watch, deleted, work, history>>

(* The informer stores a change, then queues the notice for its handlers.  *)
Observe ==
  /\ watch # <<>>
  /\ watch' = Tail(watch)
  /\ crCache' = Head(watch)
  /\ notices' = notices \o Notice(crCache, Head(watch))
  /\ UNCHANGED <<apiVars, listed, deleted, work, history>>

(* A relist finds the present state.  It reports a deletion it had missed  *)
(* as DeletedFinalStateUnknown, which neither onDelete nor                 *)
(* onSubResourceDelete takes for an object.                                *)
Relist(i) ==
  /\ i \in listed
  /\ Occurs("relist")
  /\ \/ /\ i = "CR"
        /\ watch' = <<>> /\ crCache' = cr
        /\ notices' = IF cr = NoCR THEN notices ELSE notices \o Notice(crCache, cr)
        /\ UNCHANGED deleted
     \/ /\ i \in Watched
        /\ \E n \in 0..deleted[i] : deleted' = [deleted EXCEPT ![i] = n]
        /\ UNCHANGED <<watch, crCache, notices>>
  /\ UNCHANGED <<apiVars, listed, work>>

(* The process ends with everything in it, and starts again.               *)
Restart ==
  /\ Occurs("restart")
  /\ listed' = {} /\ watch' = <<>> /\ crCache' = NoCR /\ notices' = <<>>
  /\ deleted' = [k \in Watched |-> 0]
  /\ work' = [h \in Handlers |-> Idle]
  /\ UNCHANGED apiVars

-----------------------------------------------------------------------------
(***************************************************************************)
(* The handlers.                                                           *)
(***************************************************************************)
Reconcile(spec) == [stage |-> "deploying", call |-> "get", spec |-> spec, fresh |-> FALSE]
DeleteAll       == [stage |-> "Deployment", call |-> "delete", spec |-> 0, fresh |-> FALSE]

(* onAdd, onUpdate and onDelete use the object of the event.               *)
OnCR ==
  /\ work["CR"].stage = "idle" /\ notices # <<>>
  /\ notices' = Tail(notices)
  /\ work' = [work EXCEPT !["CR"] = IF Head(notices) = 0 THEN DeleteAll
                                                          ELSE Reconcile(Head(notices))]
  /\ UNCHANGED <<apiVars, listed, watch, crCache, deleted, history>>

\* Mutant: the cache is not asked whether the CR still exists.
OnSubResourceDeleteUnchecked(k) ==
  /\ work[k].stage = "idle" /\ deleted[k] > 0
  /\ deleted' = [deleted EXCEPT ![k] = @ - 1]
  /\ work' = [work EXCEPT ![k] = Reconcile(crCache.spec)]
  /\ UNCHANGED <<apiVars, listed, watch, crCache, notices, history>>

(* onSubResourceDelete uses the CR in the cache, if it is there.           *)
OnSubResourceDelete(k) ==
  /\ work[k].stage = "idle" /\ deleted[k] > 0
  /\ deleted' = [deleted EXCEPT ![k] = @ - 1]
  /\ work' = [work EXCEPT ![k] = IF crCache = NoCR THEN Idle ELSE Reconcile(crCache.spec)]
  /\ UNCHANGED <<apiVars, listed, watch, crCache, notices, history>>

NextStage == [deploying |-> "ConfigMap", ConfigMap |-> "Secret", Secret |-> "Deployment",
              Deployment |-> "Service", Service |-> "IngressRoute",
              IngressRoute |-> "running", running |-> "idle", failed |-> "idle"]

Enter(h, stage) ==
  IF stage = "idle" THEN Idle
                    ELSE [work[h] EXCEPT !.stage = stage, !.call = "get", !.fresh = FALSE]

Continue(h) == Enter(h, NextStage[work[h].stage])

Step(h, w) ==
  /\ work' = [work EXCEPT ![h] = w]
  /\ UNCHANGED informerVars

(* updateStatus: errors and conflicts are only logged.                     *)
GetStatus(h) ==
  /\ work[h].stage \in StatusStages /\ work[h].call = "get"
  /\ \/ /\ cr # NoCR
        /\ Step(h, [work[h] EXCEPT !.call = "update", !.fresh = TRUE])
        /\ UNCHANGED history
     \/ /\ IF cr = NoCR THEN UNCHANGED history ELSE Occurs("api")
        /\ Step(h, Continue(h))
  /\ UNCHANGED apiVars

Phase == [deploying |-> "Deploying", running |-> "Running", failed |-> "Failed"]

PutStatus(h) ==
  /\ work[h].stage \in StatusStages /\ work[h].call = "update"
  /\ \/ /\ work[h].fresh
        /\ phase' = Phase[work[h].stage]
        /\ work' = [Outdate(work, StatusStages) EXCEPT ![h] = Continue(h)]
        /\ UNCHANGED history
     \/ /\ IF work[h].fresh THEN Occurs("api") ELSE UNCHANGED history
        /\ work' = [work EXCEPT ![h] = Continue(h)]
        /\ UNCHANGED phase
  /\ UNCHANGED <<cr, lastSpec, object, informerVars>>

\* Mutant: EnsureDeployment leaves a Deployment that exists as it is.
GetObjectCreateOnly(h) ==
  LET k == work[h].stage IN
  /\ k \in Kinds /\ work[h].call = "get"
  /\ \/ /\ UNCHANGED history
        /\ Step(h, IF object[k] = 0 THEN [work[h] EXCEPT !.call = "create"]
                   ELSE IF k = "IngressRoute"
                        THEN [work[h] EXCEPT !.call = "update", !.fresh = TRUE]
                   ELSE Continue(h))
     \/ Occurs("api") /\ Step(h, Enter(h, "failed"))
  /\ UNCHANGED apiVars

(* Ensure...: what Get finds decides.  The ConfigMap, the Secret and the   *)
(* Service are left as they are when they exist.                           *)
GetObject(h) ==
  LET k == work[h].stage IN
  /\ k \in Kinds /\ work[h].call = "get"
  /\ \/ /\ UNCHANGED history
        /\ Step(h, IF object[k] = 0 THEN [work[h] EXCEPT !.call = "create"]
                   ELSE IF k \in {"Deployment", "IngressRoute"}
                        THEN [work[h] EXCEPT !.call = "update", !.fresh = TRUE]
                   ELSE Continue(h))
     \/ Occurs("api") /\ Step(h, Enter(h, "failed"))
  /\ UNCHANGED apiVars

(* Create is refused when the object exists, Update when it does not, and  *)
(* that of an IngressRoute, which names the version it read, when that is  *)
(* not fresh.  The Update of a Deployment names no version.                *)
Accepted(h, k) ==
  CASE work[h].call = "create" -> object[k] = 0
    [] work[h].call = "update" -> object[k] # 0 /\ (k = "IngressRoute" => work[h].fresh)

\* Mutant: reconcile logs an error and goes on with the next object.
PutObjectIgnoring(h) ==
  LET k == work[h].stage IN
  /\ k \in Kinds /\ work[h].call \in {"create", "update"}
  /\ \/ /\ Accepted(h, k)
        /\ object' = [object EXCEPT ![k] = work[h].spec]
        /\ UNCHANGED history
     \/ /\ IF Accepted(h, k) THEN Occurs("api") ELSE UNCHANGED history
        /\ UNCHANGED object
  /\ work' = [Outdate(work, {k}) EXCEPT ![h] = Continue(h)]
  /\ UNCHANGED <<cr, phase, lastSpec, informerVars>>

(* An error ends the reconciliation, which nothing starts again.           *)
PutObject(h) ==
  LET k == work[h].stage IN
  /\ k \in Kinds /\ work[h].call \in {"create", "update"}
  /\ \/ /\ Accepted(h, k)
        /\ object' = [object EXCEPT ![k] = work[h].spec]
        /\ work' = [Outdate(work, {k}) EXCEPT ![h] = Continue(h)]
        /\ UNCHANGED history
     \/ /\ IF Accepted(h, k) THEN Occurs("api") ELSE UNCHANGED history
        /\ work' = [work EXCEPT ![h] = Enter(h, "failed")]
        /\ UNCHANGED object
  /\ UNCHANGED <<cr, phase, lastSpec, informerVars>>

(* DeleteAll: the five objects in turn, errors ignored.                    *)
NextDelete == [Deployment |-> "Service", Service |-> "ConfigMap",
               ConfigMap |-> "Secret", Secret |-> "IngressRoute"]

\* Mutant: the IngressRoute, in another namespace, is forgotten.
DeleteNextButRoute(h) ==
  LET k == work[h].stage IN
  /\ work[h].call = "delete"
  /\ work' = [Outdate(work, {k}) EXCEPT ![h] =
       IF k = "Secret" THEN Idle ELSE [work[h] EXCEPT !.stage = NextDelete[k]]]
  /\ \/ Gone(k) /\ UNCHANGED history
     \/ Occurs("api") /\ UNCHANGED <<apiVars, informerVars>>

DeleteNext(h) ==
  LET k == work[h].stage IN
  /\ work[h].call = "delete"
  /\ work' = [Outdate(work, {k}) EXCEPT ![h] =
       IF k = "IngressRoute" THEN Idle ELSE [work[h] EXCEPT !.stage = NextDelete[k]]]
  /\ \/ Gone(k) /\ UNCHANGED history
     \/ Occurs("api") /\ UNCHANGED <<apiVars, informerVars>>

HandlerNext(h) ==
  \/ h = "CR" /\ OnCR
  \/ h \in Watched /\ OnSubResourceDelete(h)
  \/ GetStatus(h) \/ PutStatus(h)
  \/ GetObject(h) \/ PutObject(h)
  \/ DeleteNext(h)

Next ==
  \/ WriteSpec \/ DeleteCR
  \/ \E k \in Watched : DeleteObject(k)
  \/ Observe \/ Restart
  \/ \E i \in Handlers : List(i) \/ Relist(i) \/ HandlerNext(i)

Spec == Init /\ [][Next]_vars

-----------------------------------------------------------------------------
(***************************************************************************)
(* Properties.                                                             *)
(***************************************************************************)
Snapshot == [spec : 0..MaxSpec, gen : 0..MaxSpec]

(* Types, and whatever a handler reconciles is a spec the CR once had.      *)
TypeOK ==
  /\ cr \in Snapshot /\ (cr = NoCR <=> cr.spec = 0)
  /\ phase \in {"none", "Deploying", "Running", "Failed"}
  /\ lastSpec \in 0..MaxSpec
  /\ object \in [Kinds -> 0..MaxSpec]
  /\ listed \subseteq Handlers
  /\ watch \in Seq(Snapshot) /\ crCache \in Snapshot
  /\ notices \in Seq(0..MaxSpec)
  /\ deleted \in [Watched -> Nat]
  /\ work \in [Handlers -> [stage : {"idle"} \cup StatusStages \cup Kinds,
                            call  : {"none", "get", "create", "update", "delete"},
                            spec  : 0..lastSpec, fresh : BOOLEAN]]
  /\ \A h \in Handlers : work[h].spec = 0 <=> work[h].call \in {"none", "delete"}
  /\ happened \subseteq FaultKinds /\ faults \in 0..MaxFaults

(* Nothing is under way that would touch the objects.                      *)
Settled ==
  /\ listed = Handlers /\ watch = <<>> /\ notices = <<>>
  /\ \A k \in Watched : deleted[k] = 0
  /\ \A h \in Handlers : work[h].stage = "idle"

Complete == \A k \in Kinds : object[k] # 0
Follows  == Complete /\ object["Deployment"] = cr.spec /\ object["IngressRoute"] = cr.spec

(* Whatever the order of a worker's deploys, and although the controller   *)
(* restarts or loses its watches between any two calls, the cluster ends   *)
(* up with the CR's spec in the Deployment and the route, and says so.     *)
ClusterFollowsCR ==
  Settled /\ cr # NoCR /\ happened \subseteq {"restart", "relist"} =>
    Follows /\ phase = "Running"

(* ... and nothing is left of a worker whose CR was deleted, whatever the  *)
(* handlers were doing when it was.                                        *)
NothingLeft ==
  Settled /\ cr = NoCR /\ happened = {} => \A k \in Kinds : object[k] = 0

(* The Deployment, the Service or the route that somebody deletes comes    *)
(* back, and so do those DeleteAll deletes while the CR is created again,  *)
(* although up to four reconciliations may then run at the same time and   *)
(* stop at each other's objects.                                           *)
Healed ==
  Settled /\ cr # NoCR /\ happened \subseteq {"subDelete", "restart", "recreate"} =>
    \A k \in Watched : object[k] # 0

(* A CR that says Running has all its objects, also after calls failed.    *)
RunningIsTrue ==
  Settled /\ phase = "Running" /\ happened \subseteq {"api", "restart", "relist"} => Complete
=============================================================================
