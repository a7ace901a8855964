-------------------------- MODULE CombinatorResource --------------------------
(***************************************************************************)
(* The databases (rdb) and key-value stores (kv) of one user: the rows of  *)
(* combinator_resources, the schemas in the user's CockroachDB database,   *)
(* and the jobs that create and delete them (combinator.handler.go and     *)
(* jobs/combinator.jobs.go).  A handler and a job take one step per        *)
(* statement; jobs of one resource may run on several goroutines at once.  *)
(*                                                                         *)
(* The audit of the users is UserAudit's; what it does to this user's      *)
(* database is here: it creates one that is missing, and drops that of a   *)
(* user it has not loaded, who registered later.                           *)
(*                                                                         *)
(* The pods that the deletion jobs notify are not part of this repository, *)
(* and a notification that fails is only logged: a step without effect.    *)
(***************************************************************************)
EXTENDS Naturals, Sequences

CONSTANTS
  Rdbs, Kvs,   \* resource ids, each drawn at most once
  Clients,     \* HTTP requests that can be in progress at the same time
  Threads,     \* goroutines of the processor's pool
  QueueSize,   \* capacity of Processor.JobQueue
  Faults       \* the faults that may happen, a subset of FaultKinds

(* "send": a post fails, before or after it was queued; "db", "rdb": a     *)
(* statement to Postgres or to CockroachDB fails, possibly with effect;    *)
(* "inner", "outer": a gateway restarts.                                   *)
FaultKinds == {"send", "db", "rdb", "inner", "outer"}

Resources == Rdbs \cup Kvs

ASSUME ResourceAssumption ==
  /\ Rdbs \cap Kvs = {}
  /\ QueueSize \in Nat \ {0}
  /\ Faults \subseteq FaultKinds

VARIABLES
  row,       \* status of the row; "none": id not drawn, "deleted": row gone
  database,  \* the user's database exists
  schema,    \* the schema of each rdb exists
  unknown,   \* an audit under way has not loaded the user
  request,   \* what each client's handler still has to do
  queue,     \* Processor.JobQueue
  pool,      \* what each goroutine of the pool is doing
  acked,     \* history: resources whose creation was answered 200
  hasty,     \* history: rdbs deleted before their creation was decided
  lost,      \* history: rdbs whose schema was dropped with the database
  disturbed  \* history: the worst fault there has been

rdbVars == <<database, schema>>
audit == <<unknown, lost>>
history == <<acked, hasty, disturbed>>
vars == <<row, rdbVars, audit, request, queue, pool, history>>

Job(kind, r) == [kind |-> kind, resource |-> r]
Jobs  == [kind : {"create", "delete"}, resource : Resources]
NoJob == Job("none", "none")

RowStatus   == {"loading", "active", "error"}
RequestStep == {"idle", "deleteRow", "send"}
JobStep     == {"idle", "init", "schema", "grant", "activate", "fail", "drop", "notify"}

NoRequest == [step |-> "idle", job |-> NoJob]
Idle      == [step |-> "idle", job |-> NoJob]

Init ==
  /\ row = [r \in Resources |-> "none"]
  /\ database = FALSE
  /\ schema = [r \in Rdbs |-> FALSE]
  /\ unknown \in BOOLEAN /\ lost = {}
  /\ request = [c \in Clients |-> NoRequest]
  /\ queue = <<>>
  /\ pool = [t \in Threads |-> Idle]
  /\ acked = {} /\ hasty = {} /\ disturbed = "no"

(* A fault after which a handler or a job goes on or ends as it is meant   *)
(* to, and one that keeps a job from recording its outcome.                *)
Fault(kind) ==
  /\ kind \in Faults
  /\ disturbed' = IF disturbed = "record" THEN "record" ELSE "some"

RecordFault(kind) == kind \in Faults /\ disturbed' = "record"

HasRow(r) == row[r] \in RowStatus

-----------------------------------------------------------------------------
(***************************************************************************)
(* Requests.                                                               *)
(***************************************************************************)
Ask(c, step, job) == request' = [request EXCEPT ![c] = [step |-> step, job |-> job]]

(* CreateRDB and CreateKV insert the row, then post the task.  When only   *)
(* the answer to the INSERT is lost the row stays and no task is sent.     *)
CreateResource(c, r) ==
  /\ request[c].step = "idle" /\ row[r] = "none"
  /\ row' = [row EXCEPT ![r] = "loading"]
  /\ \/ Ask(c, "send", Job("create", r)) /\ UNCHANGED disturbed
     \/ Fault("db") /\ UNCHANGED request
  /\ UNCHANGED <<rdbVars, audit, queue, pool, acked, hasty>>

(* DeleteRDB and DeleteKV look for the row, whatever its status, ...       *)
DeleteResource(c, r) ==
  /\ request[c].step = "idle" /\ HasRow(r)
  /\ Ask(c, "deleteRow", Job("delete", r))
  /\ UNCHANGED <<row, rdbVars, audit, queue, pool, history>>

\* Mutant: the task is posted although the row could not be deleted.
DeleteRowUnchecked(c) ==
  LET r == request[c].job.resource IN
  /\ request[c].step = "deleteRow"
  /\ \/ /\ row' = [row EXCEPT ![r] = "deleted"]
        /\ hasty' = IF row[r] = "loading" THEN hasty \cup ({r} \cap Rdbs) ELSE hasty
        /\ UNCHANGED disturbed
     \/ Fault("db") /\ UNCHANGED <<row, hasty>>
  /\ Ask(c, "send", request[c].job)
  /\ UNCHANGED <<rdbVars, audit, queue, pool, acked>>

(* ... delete it, if another request has not done so, and post the task.   *)
DeleteRow(c) ==
  LET r == request[c].job.resource IN
  /\ request[c].step = "deleteRow"
  /\ \/ /\ row' = [row EXCEPT ![r] = "deleted"]
        /\ hasty' = IF row[r] = "loading" THEN hasty \cup ({r} \cap Rdbs) ELSE hasty
        /\ Ask(c, "send", request[c].job)
        /\ UNCHANGED disturbed
     \/ /\ Fault("db")
        /\ request' = [request EXCEPT ![c] = NoRequest]
        /\ \/ UNCHANGED <<row, hasty>>
           \/ /\ row' = [row EXCEPT ![r] = "deleted"]
              /\ hasty' = IF row[r] = "loading" THEN hasty \cup ({r} \cap Rdbs) ELSE hasty
  /\ UNCHANGED <<rdbVars, audit, queue, pool, acked>>

(* SendTask and AcceptTask.  A request that fails here leaves its row, or  *)
(* the absence of one, as it is.                                           *)
Submit(job) == Len(queue) < QueueSize /\ queue' = Append(queue, job)

SendTask(c) ==
  LET job == request[c].job IN
  /\ request[c].step = "send"
  /\ \/ /\ Submit(job)
        /\ acked' = IF job.kind = "create" THEN acked \cup {job.resource} ELSE acked
        /\ UNCHANGED disturbed
     \/ /\ Fault("send")
        /\ UNCHANGED queue \/ Submit(job)
        /\ UNCHANGED acked
  /\ request' = [request EXCEPT ![c] = NoRequest]
  /\ UNCHANGED <<row, rdbVars, audit, pool, hasty>>

-----------------------------------------------------------------------------
(***************************************************************************)
(* Jobs.                                                                   *)
(***************************************************************************)
Resource(t)   == pool[t].job.resource
At(t, step)   == pool[t].step = step
Goto(t, step) == pool' = [pool EXCEPT ![t].step = step]
Finish(t)     == pool' = [pool EXCEPT ![t] = Idle]

FirstStep(job) ==
  IF job.resource \in Rdbs THEN IF job.kind = "create" THEN "init" ELSE "drop"
                           ELSE IF job.kind = "create" THEN "activate" ELSE "notify"

StartJob(t) ==
  /\ At(t, "idle") /\ queue # <<>>
  /\ queue' = Tail(queue)
  /\ pool' = [pool EXCEPT ![t] = [step |-> FirstStep(Head(queue)), job |-> Head(queue)]]
  /\ UNCHANGED <<row, rdbVars, audit, request, history>>

(* InitUserRDB: only CREATE DATABASE IF NOT EXISTS leaves something here.  *)
InitUserRDB(t) ==
  /\ At(t, "init")
  /\ \/ database' = TRUE /\ Goto(t, "schema") /\ UNCHANGED disturbed
     \/ database' \in {database, TRUE} /\ Goto(t, "fail") /\ Fault("rdb")
  /\ UNCHANGED <<row, schema, audit, request, queue, acked, hasty>>

(* CreateSchema: CREATE SCHEMA IF NOT EXISTS, then GRANT.  Without the     *)
(* database there is nothing to connect to.                                *)
CreateSchema(t) ==
  /\ At(t, "schema")
  /\ \/ /\ database
        /\ schema' = [schema EXCEPT ![Resource(t)] = TRUE]
        /\ Goto(t, "grant") /\ UNCHANGED disturbed
     \/ /\ ~database
        /\ Goto(t, "fail") /\ UNCHANGED <<schema, disturbed>>
     \/ /\ database
        /\ schema' \in {schema, [schema EXCEPT ![Resource(t)] = TRUE]}
        /\ Goto(t, "fail") /\ Fault("rdb")
  /\ UNCHANGED <<row, database, audit, request, queue, acked, hasty>>

(* The schema stays when the GRANT fails, which it does without a fault    *)
(* when the schema has been dropped meanwhile.                             *)
GrantSchema(t) ==
  /\ At(t, "grant")
  /\ \/ /\ Goto(t, IF schema[Resource(t)] THEN "activate" ELSE "fail")
        /\ UNCHANGED disturbed
     \/ Goto(t, "fail") /\ Fault("rdb")
  /\ UNCHANGED <<row, rdbVars, audit, request, queue, acked, hasty>>

(* UpdateCombinatorResourceStatus: UPDATE ... WHERE, its error is dropped. *)
SetStatus(r, s) == row' = IF HasRow(r) THEN [row EXCEPT ![r] = s] ELSE row

\* Mutant: the status is not recorded when the creation failed.
RecordSuccessOnly(t) ==
  /\ pool[t].step \in {"activate", "fail"}
  /\ IF At(t, "activate") THEN SetStatus(Resource(t), "active") ELSE UNCHANGED row
  /\ Finish(t)
  /\ UNCHANGED <<rdbVars, audit, request, queue, history>>

Record(t) ==
  /\ pool[t].step \in {"activate", "fail"}
  /\ \/ SetStatus(Resource(t), IF At(t, "activate") THEN "active" ELSE "error")
        /\ UNCHANGED disturbed
     \/ RecordFault("db") /\ UNCHANGED row
  /\ Finish(t)
  /\ UNCHANGED <<rdbVars, audit, request, queue, acked, hasty>>

\* Mutant: the job looks its resource up first, as the deploy job does.
DropSchemaOfRow(t) ==
  /\ At(t, "drop")
  /\ schema' = [schema EXCEPT ![Resource(t)] = @ /\ ~HasRow(Resource(t))]
  /\ Goto(t, "notify")
  /\ UNCHANGED <<row, database, audit, request, queue, history>>

(* deleteRDBJob: DROP SCHEMA, which fails without a database to connect    *)
(* to; an error is only logged.                                            *)
DropSchema(t) ==
  /\ At(t, "drop")
  /\ \/ schema' = [schema EXCEPT ![Resource(t)] = FALSE] /\ UNCHANGED disturbed
     \/ Fault("rdb") /\ UNCHANGED schema
  /\ Goto(t, "notify")
  /\ UNCHANGED <<row, database, audit, request, queue, acked, hasty>>

(* notifyAllCombinatorPods.                                                *)
NotifyPods(t) ==
  /\ At(t, "notify")
  /\ Finish(t)
  /\ UNCHANGED <<row, rdbVars, audit, request, queue, history>>

RunJob(t) ==
  \/ StartJob(t)
  \/ InitUserRDB(t) \/ CreateSchema(t) \/ GrantSchema(t) \/ Record(t)
  \/ DropSchema(t) \/ NotifyPods(t)

-----------------------------------------------------------------------------
(***************************************************************************)
(* What others do to the user's database.                                  *)
(***************************************************************************)

(* The registration's job, or an audit that misses the database, calls     *)
(* InitUserRDB.                                                            *)
InitDatabase ==
  /\ ~database /\ database' = TRUE
  /\ UNCHANGED <<row, schema, audit, request, queue, pool, history>>

(* cleanOrphanRDBs: an audit that listed the database but had not loaded   *)
(* its user drops it, with all its schemas.  (A drop that fails is logged: *)
(* this step is then never taken.)                                         *)
DropDatabase ==
  /\ unknown /\ database
  /\ unknown' = FALSE /\ database' = FALSE
  /\ schema' = [r \in Rdbs |-> FALSE]
  /\ lost' = lost \cup {r \in Rdbs : schema[r]}
  /\ UNCHANGED <<row, request, queue, pool, history>>

-----------------------------------------------------------------------------
EndRequests(C) ==
  request' = [c \in Clients |-> IF c \in C THEN NoRequest ELSE request[c]]

(* The audit that follows a restart loads the user, who is registered, but *)
(* for a result that breaks off, which it takes for a short page.          *)
InnerRestart ==
  /\ RecordFault("inner")
  /\ \E C \in SUBSET {c \in Clients : request[c].step = "send"} : EndRequests(C)
  /\ queue' = <<>> /\ pool' = [t \in Threads |-> Idle]
  /\ unknown' \in BOOLEAN /\ (unknown' => "db" \in Faults)
  /\ UNCHANGED <<row, rdbVars, lost, acked, hasty>>

(* A post that is on its way may still be taken after its sender is gone.  *)
OuterRestart ==
  /\ Fault("outer")
  /\ \E C \in SUBSET Clients :
       /\ {c \in Clients : request[c].step = "deleteRow"} \subseteq C
       /\ EndRequests(C)
  /\ UNCHANGED <<row, rdbVars, audit, queue, pool, acked, hasty>>

Next ==
  \/ \E c \in Clients, r \in Resources : CreateResource(c, r) \/ DeleteResource(c, r)
  \/ \E c \in Clients : DeleteRow(c) \/ SendTask(c)
  \/ \E t \in Threads : RunJob(t)
  \/ InitDatabase \/ DropDatabase
  \/ InnerRestart \/ OuterRestart

Spec == Init /\ [][Next]_vars

(* As in WorkerDeploy: goroutines run, and blocked senders are served in   *)
(* turn.                                                                   *)
FairSpec ==
  /\ Spec
  /\ \A t \in Threads : WF_vars(RunJob(t))
  /\ \A c \in Clients : SF_vars(SendTask(c))

-----------------------------------------------------------------------------
(***************************************************************************)
(* Properties.                                                             *)
(***************************************************************************)
TypeOK ==
  /\ row \in [Resources -> RowStatus \cup {"none", "deleted"}]
  /\ database \in BOOLEAN /\ schema \in [Rdbs -> BOOLEAN]
  /\ unknown \in BOOLEAN /\ lost \subseteq Rdbs
  /\ request \in [Clients -> [step : RequestStep, job : Jobs \cup {NoJob}]]
  /\ queue \in Seq(Jobs) /\ Len(queue) <= QueueSize
  /\ pool \in [Threads -> [step : JobStep, job : Jobs \cup {NoJob}]]
  /\ acked \subseteq Resources /\ hasty \subseteq Rdbs
  /\ disturbed \in {"no", "some", "record"}

Settled ==
  /\ \A c \in Clients : request[c].step = "idle"
  /\ queue = <<>>
  /\ \A t \in Threads : At(t, "idle")

(* A database shown as active can be used, whatever failed, restarted or   *)
(* was deleted meanwhile: its schema is there.  The exception is one whose *)
(* schema an audit that did not know the user dropped with the database.   *)
ActiveHasSchema ==
  \A r \in Rdbs \ lost : row[r] = "active" => database /\ schema[r]

(* When nothing fails, deleting a database whose creation was decided      *)
(* leaves no schema behind, also when several requests delete it.  (One    *)
(* that is deleted while it is created may keep its schema for good: the   *)
(* two jobs run in any order.)                                             *)
DeletedSchemaGone ==
  Settled /\ disturbed = "no" =>
    \A r \in Rdbs \ hasty : row[r] = "deleted" => ~schema[r]

(* The creation of a resource that was answered 200 is decided, or the     *)
(* resource is deleted, also when CockroachDB or a post fails or the outer *)
(* gateway restarts; the exceptions are a status that cannot be written,   *)
(* and a restart of the inner gateway, which drops its tasks.              *)
AckedCreateResolves ==
  \A r \in Resources : r \in acked ~>
    row[r] # "loading" \/ disturbed = "record"
=============================================================================
