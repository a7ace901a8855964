---------------------- MODULE CombinatorResourceProofs ----------------------
(***************************************************************************)
(* Theorems of CombinatorResource, for every number of resources, clients  *)
(* and threads, every capacity of the queue and every set of faults.       *)
(*                                                                         *)
(* That an active database has its schema is not inductive: a deletion job *)
(* drops a schema without a look at the row.  What makes it safe is that   *)
(* every deletion task, wherever it is, belongs to a row that is gone for  *)
(* good (Tasks), and that a creation job on its way to record success has  *)
(* made its schema, which is still there, or lost its row to a deletion or *)
(* its schema to the audit (Steps).                                        *)
(***************************************************************************)
EXTENDS CombinatorResource, TLAPS, SequenceTheorems

(* The row of a task that deletes is gone.                                 *)
Due(job) == job.kind = "delete" => row[job.resource] = "deleted"

Tasks ==
  /\ \A c \in Clients : request[c].step # "idle" => request[c].job \in Jobs
  /\ \A c \in Clients : request[c].step = "deleteRow" => request[c].job.kind = "delete"
  /\ \A c \in Clients : request[c].step = "send" => Due(request[c].job)
  /\ \A i \in 1..Len(queue) : Due(queue[i])

(* A schema is in the database.                                            *)
Housed == \A r \in Rdbs : schema[r] => database

Made(r) == schema[r] \/ row[r] = "deleted" \/ r \in lost

Step(p) ==
  p.step # "idle" =>
    /\ p.job \in Jobs
    /\ p.step \in {"init", "schema", "grant", "drop"} => p.job.resource \in Rdbs
    /\ p.step = "drop" => row[p.job.resource] = "deleted"
    /\ p.step \in {"grant", "activate"} /\ p.job.resource \in Rdbs => Made(p.job.resource)

Steps == \A t \in Threads : Step(pool[t])

IInv == TypeOK /\ Housed /\ Tasks /\ Steps /\ ActiveHasSchema

-----------------------------------------------------------------------------
LEMMA InitEstablishes == Init => IInv
  <1> SUFFICES ASSUME Init PROVE IInv
    OBVIOUS
  <1> USE ResourceAssumption DEF Init
  <1>1. TypeOK
    <2>1. NoRequest \in [step : RequestStep, job : Jobs \cup {NoJob}]
      BY DEF NoRequest, RequestStep
    <2>2. Idle \in [step : JobStep, job : Jobs \cup {NoJob}]
      BY DEF Idle, JobStep
    <2>3. queue \in Seq(Jobs) /\ Len(queue) <= QueueSize
      OBVIOUS
    <2>4. QED
      BY <2>1, <2>2, <2>3 DEF TypeOK
  <1>2. Tasks
    BY DEF Tasks, NoRequest
  <1>3. Steps
    BY DEF Steps, Step, Idle
  <1>4. Housed /\ ActiveHasSchema
    BY DEF Housed, ActiveHasSchema, Resources
  <1>5. QED
    BY <1>1, <1>2, <1>3, <1>4 DEF IInv

(* What a step may not do to the rows and the schemas that a task or a job *)
(* relies on: a row that is gone stays gone, and a schema goes only when   *)
(* its row is gone, or with the database.                                  *)
Kept ==
  /\ \A r \in Resources : row[r] = "deleted" => row'[r] = "deleted"
  /\ \A r \in Rdbs : schema[r] => schema'[r] \/ row'[r] = "deleted" \/ r \in lost'
  /\ lost \subseteq lost'

(* Due of a task of this state in the next one.                            *)
StaysDue(job) == job.kind = "delete" => row'[job.resource] = "deleted"

LEMMA KeptDue ==
  ASSUME Kept, NEW job \in Jobs, Due(job)
  PROVE  StaysDue(job)
  BY DEF Kept, Due, StaysDue, Jobs

LEMMA KeptMade ==
  ASSUME Kept, NEW r \in Rdbs, Made(r)
  PROVE  Made(r)'
  BY DEF Kept, Made, Resources

LEMMA KeptStep ==
  ASSUME Kept, NEW p, Step(p)
  PROVE  Step(p)'
  <1> SUFFICES ASSUME p.step # "idle" PROVE Step(p)'
    BY DEF Step
  <1>1. p.job \in Jobs /\ p.job.resource \in Resources
    BY DEF Step, Jobs
  <1>2. p.step = "drop" => row'[p.job.resource] = "deleted"
    BY <1>1 DEF Step, Kept
  <1>3. p.step \in {"grant", "activate"} /\ p.job.resource \in Rdbs => Made(p.job.resource)'
    BY KeptMade DEF Step
  <1>4. QED
    BY <1>1, <1>2, <1>3 DEF Step

LEMMA RequestsKeep ==
  ASSUME IInv
  PROVE  /\ \A c \in Clients, r \in Resources :
              CreateResource(c, r) \/ DeleteResource(c, r) => Kept
         /\ \A c \in Clients : DeleteRow(c) \/ SendTask(c) => Kept
  <1> USE DEF IInv, Kept, rdbVars, audit
  <1>1. ASSUME NEW c \in Clients, NEW r \in Resources, CreateResource(c, r)
        PROVE  Kept
    BY <1>1 DEF CreateResource, TypeOK
  <1>2. ASSUME NEW c \in Clients, DeleteRow(c)
        PROVE  Kept
    BY <1>2 DEF DeleteRow, TypeOK
  <1>3. ASSUME NEW c \in Clients,
               (\E r \in Resources : DeleteResource(c, r)) \/ SendTask(c)
        PROVE  Kept
    BY <1>3 DEF DeleteResource, SendTask
  <1>4. QED
    BY <1>1, <1>2, <1>3

LEMMA JobsKeep ==
  ASSUME IInv, NEW t \in Threads, RunJob(t)
  PROVE  Kept
  <1> USE DEF IInv, Kept, rdbVars, audit
  <1>1. CASE Record(t)
    BY <1>1 DEF Record, SetStatus, HasRow, RowStatus, TypeOK
  <1>2. CASE CreateSchema(t)
    BY <1>2 DEF CreateSchema, TypeOK
  <1>3. CASE DropSchema(t)
    <2>1. row[Resource(t)] = "deleted"
      BY <1>3 DEF DropSchema, At, Resource, Steps, Step
    <2>2. QED
      BY <1>3, <2>1 DEF DropSchema, TypeOK
  <1>4. CASE InitUserRDB(t)
    <2>1. UNCHANGED <<row, schema, lost>>
      BY <1>4 DEF InitUserRDB
    <2>2. QED
      BY <2>1
  <1>5. CASE StartJob(t) \/ GrantSchema(t) \/ NotifyPods(t)
    BY <1>5 DEF StartJob, GrantSchema, NotifyPods
  <1>6. QED
    BY <1>1, <1>2, <1>3, <1>4, <1>5 DEF RunJob

-----------------------------------------------------------------------------
(* The types that requests, the queue and the pool have.                   *)
Requests == [step : RequestStep, job : Jobs \cup {NoJob}]
Pooled   == [step : JobStep, job : Jobs \cup {NoJob}]

LEMMA Records ==
  /\ NoRequest \in Requests /\ Idle \in Pooled
  /\ \A job \in Jobs : /\ job.resource \in Resources
                       /\ job.kind \in {"create", "delete"}
  /\ \A job \in Jobs, s \in RequestStep : [step |-> s, job |-> job] \in Requests
  /\ \A job \in Jobs, s \in JobStep : [step |-> s, job |-> job] \in Pooled
  /\ \A kind \in {"create", "delete"}, r \in Resources : Job(kind, r) \in Jobs
  BY DEF Requests, Pooled, NoRequest, Idle, RequestStep, JobStep, Jobs, Job

(* Posting a task leaves the queue as it was, or adds the task at its end. *)
Posted(job) ==
  /\ queue' \in Seq(Jobs) /\ Len(queue') <= QueueSize
  /\ \A i \in 1..Len(queue') :
       (i \in 1..Len(queue) /\ queue'[i] = queue[i]) \/ queue'[i] = job

LEMMA SendTaskPosts ==
  ASSUME IInv, NEW c \in Clients, SendTask(c)
  PROVE  request[c].job \in Jobs /\ Posted(request[c].job)
  <1> USE ResourceAssumption
  <1>0. queue \in Seq(Jobs) /\ Len(queue) \in Nat /\ Len(queue) <= QueueSize
    BY LenProperties DEF IInv, TypeOK
  <1>1. PICK job \in Jobs : job = request[c].job
    BY DEF IInv, Tasks, SendTask
  <1>2. CASE queue' = queue
    BY <1>0, <1>1, <1>2 DEF Posted
  <1>3. CASE Len(queue) < QueueSize /\ queue' = Append(queue, job)
    <2>1. /\ Append(queue, job) \in Seq(Jobs)
          /\ Len(Append(queue, job)) = Len(queue) + 1
          /\ \A i \in 1..Len(queue) : Append(queue, job)[i] = queue[i]
          /\ Append(queue, job)[Len(queue) + 1] = job
      BY <1>0, AppendProperties
    <2>2. QED
      BY <1>0, <1>1, <1>3, <2>1 DEF Posted
  <1>4. QED
    BY <1>1, <1>2, <1>3 DEF SendTask, Submit

(* Taking a task leaves the others.                                        *)
LEMMA StartJobTakes ==
  ASSUME IInv, NEW t \in Threads, StartJob(t)
  PROVE  /\ Head(queue) \in Jobs /\ Due(Head(queue))
         /\ queue' \in Seq(Jobs) /\ Len(queue') <= QueueSize
         /\ \A i \in 1..Len(queue') : Due(queue'[i])
  <1> USE ResourceAssumption
  <1>0. queue \in Seq(Jobs) /\ queue # <<>> /\ Len(queue) \in Nat /\ Len(queue) <= QueueSize
    BY LenProperties DEF IInv, TypeOK, StartJob
  <1>1. /\ Len(queue) > 0 /\ Tail(queue) \in Seq(Jobs) /\ Len(Tail(queue)) = Len(queue) - 1
        /\ \A i \in 1..Len(Tail(queue)) : Tail(queue)[i] = queue[i + 1]
        /\ Head(queue) = queue[1] /\ Head(queue) \in Jobs
    BY <1>0, HeadTailProperties, LenProperties
  <1>2. \A i \in 1..Len(queue) : Due(queue[i])
    BY DEF IInv, Tasks
  <1>3. queue' = Tail(queue)
    BY DEF StartJob
  <1>4. QED
    BY <1>0, <1>1, <1>2, <1>3

LEMMA FirstStepFits ==
  ASSUME NEW job \in Jobs, Due(job)
  PROVE  /\ FirstStep(job) \in JobStep
         /\ Step([step |-> FirstStep(job), job |-> job])
  <1>1. job.kind \in {"create", "delete"} /\ job.resource \in Resources
    BY Records
  <1>2. QED
    BY <1>1 DEF FirstStep, JobStep, Step, Due, Resources

LEMMA RequestTypes ==
  ASSUME IInv, NEW c \in Clients,
         (\E r \in Resources : CreateResource(c, r) \/ DeleteResource(c, r))
           \/ DeleteRow(c) \/ SendTask(c)
  PROVE  TypeOK'
  <1>0. /\ row \in [Resources -> RowStatus \cup {"none", "deleted"}]
        /\ request \in [Clients -> Requests]
        /\ hasty \subseteq Rdbs /\ acked \subseteq Resources
        /\ disturbed \in {"no", "some", "record"}
        /\ TypeOK
    BY DEF IInv, TypeOK, Requests
  <1>d. disturbed' = disturbed \/ (\E kind \in Faults : Fault(kind)) => disturbed' \in {"no", "some", "record"}
    BY <1>0 DEF Fault
  <1>1. CASE \E r \in Resources : CreateResource(c, r)
    <2>1. PICK r \in Resources : CreateResource(c, r)
      BY <1>1
    <2>2. request' \in [Clients -> Requests]
      BY <1>0, <2>1, Records DEF CreateResource, Ask, RequestStep
    <2>3. row' \in [Resources -> RowStatus \cup {"none", "deleted"}]
      BY <1>0, <2>1 DEF CreateResource, RowStatus
    <2>4. disturbed' \in {"no", "some", "record"}
      BY <1>d, <2>1 DEF CreateResource, Fault
    <2>5. UNCHANGED <<database, schema, unknown, lost, queue, pool, acked, hasty>>
      BY <2>1 DEF CreateResource, rdbVars, audit
    <2>6. QED
      BY <1>0, <2>2, <2>3, <2>4, <2>5 DEF TypeOK, Requests
  <1>2. CASE \E r \in Resources : DeleteResource(c, r)
    <2>1. PICK r \in Resources : DeleteResource(c, r)
      BY <1>2
    <2>2. request' \in [Clients -> Requests]
      BY <1>0, <2>1, Records DEF DeleteResource, Ask, RequestStep
    <2>3. QED
      BY <1>0, <2>1, <2>2 DEF TypeOK, DeleteResource, Requests, rdbVars, audit, history
  <1>3. CASE DeleteRow(c)
    <2>0. PICK job \in Jobs : job = request[c].job
      BY <1>3 DEF IInv, Tasks, DeleteRow
    <2>1. job.resource \in Resources
      BY Records
    <2>2. request' \in [Clients -> Requests]
      BY <1>0, <1>3, <2>0, Records DEF DeleteRow, Ask, RequestStep
    <2>3. row' \in [Resources -> RowStatus \cup {"none", "deleted"}]
      BY <1>0, <1>3, <2>0, <2>1 DEF DeleteRow
    <2>4. disturbed' \in {"no", "some", "record"}
      BY <1>d, <1>3 DEF DeleteRow, Fault
    <2>5. hasty' \subseteq Rdbs
      BY <1>0, <1>3 DEF DeleteRow
    <2>6. UNCHANGED <<database, schema, unknown, lost, queue, pool, acked>>
      BY <1>3 DEF DeleteRow, rdbVars, audit
    <2>7. QED
      BY <1>0, <2>2, <2>3, <2>4, <2>5, <2>6 DEF TypeOK, Requests
  <1>4. CASE SendTask(c)
    <2>0. request[c].job \in Jobs /\ Posted(request[c].job)
      BY <1>4, SendTaskPosts
    <2>1. request' \in [Clients -> Requests]
      BY <1>0, <1>4, Records DEF SendTask
    <2>2. disturbed' \in {"no", "some", "record"}
      BY <1>d, <1>4 DEF SendTask, Fault
    <2>3. acked' \subseteq Resources
      BY <1>0, <1>4, <2>0, Records DEF SendTask
    <2>4. UNCHANGED <<row, database, schema, unknown, lost, pool, hasty>>
      BY <1>4 DEF SendTask, rdbVars, audit
    <2>5. QED
      BY <1>0, <2>0, <2>1, <2>2, <2>3, <2>4 DEF TypeOK, Requests, Posted
  <1>5. QED
    BY <1>1, <1>2, <1>3, <1>4

LEMMA JobTypes ==
  ASSUME IInv, NEW t \in Threads, RunJob(t)
  PROVE  TypeOK'
  <1>0. /\ row \in [Resources -> RowStatus \cup {"none", "deleted"}]
        /\ database \in BOOLEAN /\ schema \in [Rdbs -> BOOLEAN]
        /\ pool \in [Threads -> Pooled]
        /\ disturbed \in {"no", "some", "record"}
        /\ TypeOK
    BY DEF IInv, TypeOK, Pooled
  <1>g. ASSUME NEW step \in JobStep, Goto(t, step) PROVE pool' \in [Threads -> Pooled]
    BY <1>0, <1>g DEF Goto, Pooled
  <1>f. Finish(t) => pool' \in [Threads -> Pooled]
    BY <1>0, Records DEF Finish
  <1>1. CASE StartJob(t)
    <2>1. PICK job \in Jobs, step \in JobStep : job = Head(queue) /\ step = FirstStep(job)
      BY <1>1, StartJobTakes, FirstStepFits
    <2>2. [step |-> step, job |-> job] \in Pooled
      BY Records
    <2>3. pool' \in [Threads -> Pooled]
      BY <1>0, <1>1, <2>1, <2>2 DEF StartJob
    <2>4. queue' \in Seq(Jobs) /\ Len(queue') <= QueueSize
      BY <1>1, StartJobTakes
    <2>5. UNCHANGED <<row, database, schema, unknown, lost, request, acked, hasty, disturbed>>
      BY <1>1 DEF StartJob, rdbVars, audit, history
    <2>6. QED
      BY <1>0, <2>3, <2>4, <2>5 DEF TypeOK, Pooled
  <1>2. CASE InitUserRDB(t)
    <2>1. pool' \in [Threads -> Pooled]
      BY <1>2, <1>g DEF InitUserRDB, JobStep
    <2>2. database' \in BOOLEAN
      BY <1>0, <1>2 DEF InitUserRDB
    <2>3. disturbed' \in {"no", "some", "record"}
      BY <1>0, <1>2 DEF InitUserRDB, Fault
    <2>4. UNCHANGED <<row, schema, unknown, lost, request, queue, acked, hasty>>
      BY <1>2 DEF InitUserRDB, audit
    <2>5. QED
      BY <1>0, <2>1, <2>2, <2>3, <2>4 DEF TypeOK, Pooled
  <1>3. CASE CreateSchema(t) \/ GrantSchema(t) \/ DropSchema(t)
    <2>1. pool' \in [Threads -> Pooled]
      BY <1>3, <1>g DEF CreateSchema, GrantSchema, DropSchema, JobStep
    <2>2. schema' \in [Rdbs -> BOOLEAN]
      BY <1>0, <1>3 DEF CreateSchema, GrantSchema, DropSchema, rdbVars, audit
    <2>3. disturbed' \in {"no", "some", "record"}
      BY <1>0, <1>3 DEF CreateSchema, GrantSchema, DropSchema, Fault
    <2>4. UNCHANGED <<row, database, unknown, lost, request, queue, acked, hasty>>
      BY <1>3 DEF CreateSchema, GrantSchema, DropSchema, rdbVars, audit
    <2>5. QED
      BY <1>0, <2>1, <2>2, <2>3, <2>4 DEF TypeOK, Pooled
  <1>4. CASE Record(t)
    <2>1. row' \in [Resources -> RowStatus \cup {"none", "deleted"}]
      BY <1>0, <1>4 DEF Record, SetStatus, RowStatus
    <2>2. disturbed' \in {"no", "some", "record"}
      BY <1>0, <1>4 DEF Record, RecordFault
    <2>3. pool' \in [Threads -> Pooled]
      BY <1>4, <1>f DEF Record
    <2>4. UNCHANGED <<database, schema, unknown, lost, request, queue, acked, hasty>>
      BY <1>4 DEF Record, rdbVars, audit
    <2>5. QED
      BY <1>0, <2>1, <2>2, <2>3, <2>4 DEF TypeOK, Pooled
  <1>5. CASE NotifyPods(t)
    <2>1. pool' \in [Threads -> Pooled]
      BY <1>5, <1>f DEF NotifyPods
    <2>2. QED
      BY <1>0, <1>5, <2>1 DEF TypeOK, NotifyPods, Pooled, rdbVars, audit, history
  <1>6. QED
    BY <1>1, <1>2, <1>3, <1>4, <1>5 DEF RunJob

-----------------------------------------------------------------------------
(* Requests preserve the invariant.                                        *)
LEMMA RequestsPreserve ==
  ASSUME IInv, NEW c \in Clients,
         (\E r \in Resources : CreateResource(c, r) \/ DeleteResource(c, r))
           \/ DeleteRow(c) \/ SendTask(c)
  PROVE  IInv'
  <1>1. TypeOK'
    BY RequestTypes
  <1>2. Kept /\ UNCHANGED <<pool, database, schema, lost>>
    BY RequestsKeep DEF CreateResource, DeleteResource, DeleteRow, SendTask, rdbVars, audit
  <1>3. Steps'
    BY <1>2, KeptStep DEF IInv, Steps
  <1>4. Housed' /\ ActiveHasSchema'
    <2>1. \A r \in Resources : row'[r] = "active" => row[r] = "active"
      BY DEF IInv, TypeOK, CreateResource, DeleteResource, DeleteRow, SendTask
    <2>2. QED
      BY <1>2, <2>1 DEF IInv, Housed, ActiveHasSchema, Resources
  <1>5. Tasks'
    <2>0. request \in [Clients -> Requests]
      BY DEF IInv, TypeOK, Requests
    <2>1. ASSUME NEW d \in Clients \ {c} PROVE request'[d] = request[d]
      BY <2>0 DEF CreateResource, DeleteResource, DeleteRow, SendTask, Ask
    <2>2. /\ request'[c].step # "idle" => request'[c].job \in Jobs
          /\ request'[c].step = "deleteRow" => request'[c].job.kind = "delete"
          /\ request'[c].step = "send" => StaysDue(request'[c].job)
      <3>1. CASE \E r \in Resources : CreateResource(c, r)
        <4>1. PICK r \in Resources : CreateResource(c, r)
          BY <3>1
        <4>2. CASE request' = request
          BY <1>2, <4>2, KeptDue DEF IInv, Tasks
        <4>3. CASE Ask(c, "send", Job("create", r))
          BY <2>0, <4>3, Records DEF Ask, StaysDue, Job
        <4>4. QED
          BY <4>1, <4>2, <4>3 DEF CreateResource
      <3>2. CASE \E r \in Resources : DeleteResource(c, r)
        BY <2>0, <3>2, Records DEF DeleteResource, Ask, Job
      <3>3. CASE DeleteRow(c)
        <4>1. PICK job \in Jobs : job = request[c].job
          BY <3>3 DEF IInv, Tasks, DeleteRow
        <4>2. CASE request' = [request EXCEPT ![c] = NoRequest]
          BY <2>0, <4>2 DEF NoRequest
        <4>3. CASE Ask(c, "send", job) /\ row' = [row EXCEPT ![job.resource] = "deleted"]
          BY <2>0, <4>3, Records DEF Ask, StaysDue, IInv, TypeOK
        <4>4. QED
          BY <3>3, <4>1, <4>2, <4>3 DEF DeleteRow
      <3>4. CASE SendTask(c)
        BY <2>0, <3>4 DEF SendTask, NoRequest
      <3>5. QED
        BY <3>1, <3>2, <3>3, <3>4
    <2>3. ASSUME NEW d \in Clients
          PROVE  /\ request'[d].step # "idle" => request'[d].job \in Jobs
                 /\ request'[d].step = "deleteRow" => request'[d].job.kind = "delete"
                 /\ request'[d].step = "send" => StaysDue(request'[d].job)
      <3>1. CASE d = c
        BY <2>2, <3>1
      <3>2. CASE d # c
        <4>1. request'[d] = request[d]
          BY <2>1, <3>2
        <4>2. QED
          BY <1>2, <4>1, KeptDue DEF IInv, Tasks
      <3>3. QED
        BY <3>1, <3>2
    <2>4. \A i \in 1..Len(queue) : StaysDue(queue[i])
      <3>1. \A i \in 1..Len(queue) : queue[i] \in Jobs /\ Due(queue[i])
        BY ElementOfSeq DEF IInv, TypeOK, Tasks
      <3>2. QED
        BY <1>2, <3>1, KeptDue
    <2>5. ASSUME NEW i \in 1..Len(queue') PROVE StaysDue(queue'[i])
      <3>1. CASE queue' = queue
        BY <2>4, <3>1
      <3>2. CASE SendTask(c)
        <4>1. request[c].job \in Jobs /\ Due(request[c].job) /\ Posted(request[c].job)
          BY <3>2, SendTaskPosts DEF IInv, Tasks, SendTask
        <4>2. StaysDue(request[c].job)
          BY <3>2, <4>1 DEF Due, StaysDue, SendTask
        <4>3. QED
          BY <2>4, <4>1, <4>2 DEF Posted
      <3>3. QED
        BY <3>1, <3>2 DEF CreateResource, DeleteResource, DeleteRow
    <2>6. QED
      BY <2>3, <2>5 DEF Tasks, Due, StaysDue
  <1>6. QED
    BY <1>1, <1>3, <1>4, <1>5 DEF IInv

(* Jobs preserve the invariant.                                            *)
LEMMA JobsPreserve ==
  ASSUME IInv, NEW t \in Threads, RunJob(t)
  PROVE  IInv'
  <1>0. /\ pool \in [Threads -> Pooled]
        /\ row \in [Resources -> RowStatus \cup {"none", "deleted"}]
        /\ schema \in [Rdbs -> BOOLEAN]
        /\ Step(pool[t])
    BY DEF IInv, TypeOK, Pooled, Steps
  <1>1. TypeOK'
    BY JobTypes
  <1>2. Kept /\ UNCHANGED request
    BY JobsKeep DEF RunJob, StartJob, InitUserRDB, CreateSchema, GrantSchema, Record,
       DropSchema, NotifyPods
  <1>h. Housed'
    <2>1. CASE CreateSchema(t)
      BY <1>0, <2>1 DEF CreateSchema, Goto, IInv, Housed
    <2>2. CASE InitUserRDB(t)
      <3>1. database => database'
        BY <2>2, Zenon DEF InitUserRDB
      <3>2. UNCHANGED schema
        BY <2>2 DEF InitUserRDB
      <3>3. QED
        BY <3>1, <3>2 DEF IInv, Housed
    <2>3. CASE DropSchema(t)
      BY <1>0, <2>3 DEF DropSchema, Goto, IInv, Housed
    <2>4. CASE UNCHANGED rdbVars
      BY <2>4 DEF rdbVars, IInv, Housed
    <2>5. QED
      BY <2>1, <2>2, <2>3, <2>4 DEF RunJob, StartJob, GrantSchema, Record, NotifyPods
  <1>3. Tasks'
    <2>1. \A i \in 1..Len(queue') : StaysDue(queue'[i])
      <3>1. CASE StartJob(t)
        BY <3>1, StartJobTakes DEF StartJob, Due, StaysDue
      <3>2. CASE queue' = queue
        <4>1. \A i \in 1..Len(queue) : queue[i] \in Jobs /\ Due(queue[i])
          BY ElementOfSeq DEF IInv, TypeOK, Tasks
        <4>2. QED
          BY <1>2, <3>2, <4>1, KeptDue
      <3>3. QED
        BY <3>1, <3>2 DEF RunJob, InitUserRDB, CreateSchema, GrantSchema, Record,
           DropSchema, NotifyPods
    <2>2. \A c \in Clients : request[c].step = "send" => StaysDue(request[c].job)
      BY <1>2, KeptDue DEF IInv, Tasks
    <2>3. QED
      BY <1>2, <2>1, <2>2 DEF IInv, Tasks, Due, StaysDue
  <1>4. Steps'
    <2>1. ASSUME NEW u \in Threads \ {t} PROVE pool'[u] = pool[u]
      BY <1>0 DEF RunJob, StartJob, InitUserRDB, CreateSchema, GrantSchema, Record,
         DropSchema, NotifyPods, Goto, Finish
    <2>2. Step(pool[t])'
      <3>1. CASE StartJob(t)
        <4>1. PICK job \in Jobs : job = Head(queue) /\ Due(job)
          BY <3>1, StartJobTakes
        <4>2. PICK p : p = [step |-> FirstStep(job), job |-> job]
          OBVIOUS
        <4>3. pool'[t] = p
          BY <1>0, <3>1, <4>1, <4>2 DEF StartJob
        <4>4. Step(p)
          BY <4>1, <4>2, FirstStepFits
        <4>5. QED
          BY <1>2, <4>3, <4>4, KeptStep DEF Step, Made
      <3>2. CASE Record(t) \/ NotifyPods(t)
        BY <1>0, <3>2 DEF Record, NotifyPods, Finish, Idle, Step
      <3>3. CASE InitUserRDB(t)
        <4>1. pool'[t].job = pool[t].job /\ pool[t].job \in Jobs /\ pool[t].job.resource \in Rdbs
          BY <1>0, <3>3 DEF InitUserRDB, At, Goto, Pooled, Step
        <4>2. pool'[t].step \in {"schema", "fail"}
          BY <1>0, <3>3 DEF InitUserRDB, Goto, Pooled
        <4>3. QED
          BY <4>1, <4>2 DEF Step
      <3>4. CASE CreateSchema(t)
        <4>1. /\ pool'[t].job = pool[t].job /\ pool[t].job \in Jobs
              /\ pool[t].job.resource \in Rdbs
          BY <1>0, <3>4 DEF CreateSchema, At, Goto, Pooled, Step
        <4>2. \/ pool'[t].step = "grant" /\ schema'[pool[t].job.resource]
              \/ pool'[t].step = "fail"
          BY <1>0, <3>4, <4>1 DEF CreateSchema, Goto, Pooled, Resource
        <4>3. QED
          BY <4>1, <4>2 DEF Step, Made
      <3>5. CASE GrantSchema(t)
        <4>1. /\ pool'[t].job = pool[t].job /\ pool[t].job \in Jobs
              /\ pool[t].job.resource \in Rdbs /\ Made(pool[t].job.resource)
          BY <1>0, <3>5 DEF GrantSchema, At, Goto, Pooled, Step
        <4>2. pool'[t].step \in {"activate", "fail"}
          BY <1>0, <3>5 DEF GrantSchema, Goto, Pooled
        <4>3. UNCHANGED <<row, schema, lost>>
          BY <3>5 DEF GrantSchema, rdbVars, audit
        <4>4. QED
          BY <4>1, <4>2, <4>3 DEF Step, Made
      <3>6. CASE DropSchema(t)
        <4>1. pool'[t].job = pool[t].job /\ pool[t].job \in Jobs /\ pool'[t].step = "notify"
          BY <1>0, <3>6 DEF DropSchema, At, Goto, Pooled, Step
        <4>2. QED
          BY <4>1 DEF Step
      <3>7. QED
        BY <3>1, <3>2, <3>3, <3>4, <3>5, <3>6 DEF RunJob
    <2>3. ASSUME NEW u \in Threads PROVE Step(pool[u])'
      <3>1. CASE u = t
        BY <2>2, <3>1
      <3>2. CASE u # t
        <4>1. PICK p : p = pool[u] /\ Step(p)
          BY DEF IInv, Steps
        <4>2. pool'[u] = p
          BY <2>1, <3>2, <4>1
        <4>3. QED
          BY <1>2, <4>1, <4>2, KeptStep DEF Step, Made
      <3>3. QED
        BY <3>1, <3>2
    <2>4. QED
      BY <2>3 DEF Steps
  <1>5. ActiveHasSchema'
    <2>1. CASE Record(t)
      <3>1. UNCHANGED <<database, schema, lost>>
        BY <2>1 DEF Record, rdbVars, audit
      <3>2. ASSUME NEW r \in Rdbs \ lost, row'[r] = "active", row[r] # "active"
            PROVE  database /\ schema[r]
        <4>1. pool[t].step = "activate" /\ r = pool[t].job.resource /\ row[r] # "deleted"
          BY <1>0, <2>1, <3>2 DEF Record, SetStatus, HasRow, RowStatus, At, Resource, Resources
        <4>2. QED
          BY <1>0, <4>1 DEF Step, Made, IInv, Housed
      <3>3. QED
        BY <3>1, <3>2 DEF IInv, ActiveHasSchema
    <2>2. CASE UNCHANGED row
      <3>1. \A r \in Rdbs : schema[r] => schema'[r] \/ row'[r] = "deleted" \/ r \in lost'
        BY <1>2 DEF Kept
      <3>2. QED
        BY <1>2, <1>h, <2>2, <3>1 DEF Kept, IInv, Housed, ActiveHasSchema
    <2>3. QED
      BY <2>1, <2>2 DEF RunJob, StartJob, InitUserRDB, CreateSchema, GrantSchema, DropSchema,
         NotifyPods
  <1>6. QED
    BY <1>1, <1>h, <1>3, <1>4, <1>5 DEF IInv

(* The audit and the registration's job make the database, which changes   *)
(* nothing of what is in it, or drop it, with all that is in it.           *)
LEMMA AuditPreserves ==
  ASSUME IInv, InitDatabase \/ DropDatabase
  PROVE  IInv'
  <1>1. UNCHANGED <<row, request, queue, pool, acked, hasty, disturbed>>
    BY DEF InitDatabase, DropDatabase, history
  <1>2. /\ \/ UNCHANGED <<schema, lost>> /\ database'
           \/ schema' = [r \in Rdbs |-> FALSE] /\ lost' = lost \cup {r \in Rdbs : schema[r]}
        /\ unknown' \in BOOLEAN /\ database' \in BOOLEAN
    BY DEF InitDatabase, DropDatabase, audit, IInv, TypeOK
  <1>3. TypeOK'
    BY <1>1, <1>2 DEF IInv, TypeOK
  <1>4. Housed'
    BY <1>2 DEF IInv, Housed
  <1>5. Kept
    BY <1>1, <1>2 DEF Kept
  <1>6. Tasks'
    BY <1>1 DEF IInv, Tasks, Due
  <1>7. Steps'
    <2>1. ASSUME NEW t \in Threads PROVE Step(pool[t])'
      <3>1. PICK p : p = pool[t] /\ Step(p)
        BY DEF IInv, Steps
      <3>2. QED
        BY <1>1, <1>5, <3>1, KeptStep DEF Step, Made
    <2>2. QED
      BY <2>1 DEF Steps
  <1>8. ActiveHasSchema'
    BY <1>1, <1>2 DEF IInv, ActiveHasSchema
  <1>9. QED
    BY <1>3, <1>4, <1>6, <1>7, <1>8 DEF IInv

(* Restarts only forget.                                                   *)
LEMMA RestartsPreserve ==
  ASSUME IInv, InnerRestart \/ OuterRestart
  PROVE  IInv'
  <1>1. PICK C \in SUBSET Clients : EndRequests(C)
    BY DEF InnerRestart, OuterRestart
  <1>2. UNCHANGED <<row, database, schema, lost, acked, hasty>>
    BY DEF InnerRestart, OuterRestart, rdbVars, audit
  <1>u. unknown' \in BOOLEAN
    <2>1. CASE OuterRestart
      BY <2>1 DEF OuterRestart, audit, IInv, TypeOK
    <2>2. CASE InnerRestart
      BY <2>2, Zenon DEF InnerRestart
    <2>3. QED
      BY <2>1, <2>2
  <1>3. \/ UNCHANGED <<queue, pool>>
        \/ queue' = <<>> /\ pool' = [t \in Threads |-> Idle]
    BY DEF InnerRestart, OuterRestart
  <1>4. \A c \in Clients : request'[c] = request[c] \/ request'[c] = NoRequest
    BY <1>1 DEF EndRequests
  <1>5. TypeOK'
    <2>1. /\ request \in [Clients -> Requests] /\ pool \in [Threads -> Pooled]
          /\ queue \in Seq(Jobs) /\ Len(queue) <= QueueSize
      BY DEF IInv, TypeOK, Requests, Pooled
    <2>2. request' \in [Clients -> Requests]
      BY <1>1, <2>1, Records DEF EndRequests
    <2>3. pool' \in [Threads -> Pooled]
      BY <1>3, <2>1, Records
    <2>4. queue' \in Seq(Jobs) /\ Len(queue') <= QueueSize
      <3>1. CASE queue' = queue
        BY <2>1, <3>1
      <3>2. CASE queue' = <<>>
        <4>1. <<>> \in Seq(Jobs) /\ Len(<<>>) = 0 /\ 0 <= QueueSize
          BY EmptySeq, ResourceAssumption
        <4>2. QED
          BY <3>2, <4>1
      <3>3. QED
        BY <1>3, <3>1, <3>2
    <2>5. disturbed' \in {"no", "some", "record"}
      BY DEF InnerRestart, OuterRestart, Fault, RecordFault, IInv, TypeOK
    <2>6. QED
      BY <1>2, <1>u, <2>2, <2>3, <2>4, <2>5 DEF IInv, TypeOK, Requests, Pooled
  <1>6. Tasks'
    BY <1>2, <1>3, <1>4 DEF IInv, Tasks, Due, NoRequest
  <1>7. Steps'
    BY <1>2, <1>3 DEF IInv, Steps, Step, Made, Idle
  <1>8. Housed' /\ ActiveHasSchema'
    BY <1>2 DEF IInv, Housed, ActiveHasSchema
  <1>9. QED
    BY <1>5, <1>6, <1>7, <1>8 DEF IInv

-----------------------------------------------------------------------------
(* The inductive invariant holds in every reachable state.                 *)
THEOREM Invariance == Spec => []IInv
  <1>1. IInv /\ [Next]_vars => IInv'
    <2> SUFFICES ASSUME IInv, [Next]_vars PROVE IInv'
      OBVIOUS
    <2>1. CASE UNCHANGED vars
      BY <2>1 DEF vars, rdbVars, audit, history, IInv, TypeOK, Housed, Tasks, Due, Steps, Step,
         Made, ActiveHasSchema
    <2>2. CASE Next
      BY <2>2, RequestsPreserve, JobsPreserve, AuditPreserves, RestartsPreserve DEF Next
    <2>3. QED
      BY <2>1, <2>2
  <1>2. QED
    BY InitEstablishes, <1>1, PTL DEF Spec

(* The variables have their types, and the queue its capacity.             *)
THEOREM TypeCorrect == Spec => []TypeOK
  BY Invariance, PTL DEF IInv

(* A database shown as active has its schema, whatever fails, restarts or  *)
(* overlaps, with any number of requests and goroutines, unless an audit   *)
(* that did not know the user dropped it with the database.                *)
THEOREM ActiveUsable == Spec => []ActiveHasSchema
  BY Invariance, PTL DEF IInv

-----------------------------------------------------------------------------
(***************************************************************************)
(* A deleted database leaves no schema.  The schema of a row that is gone  *)
(* waits for a deletion job (Dropping), and no creation job can make it    *)
(* again: a creation task, of which there is at most one for each resource *)
(* (OneCreate), belongs to a row that is still loading, or was when it was *)
(* deleted (Undecided).                                                    *)
(***************************************************************************)
SameCreate(j, k) == j.kind = "create" /\ k.kind = "create" /\ j.resource = k.resource

OneCreate ==
  /\ \A c, d \in Clients : SameCreate(request[c].job, request[d].job) => c = d
  /\ \A i, j \in 1..Len(queue) : SameCreate(queue[i], queue[j]) => i = j
  /\ \A t, u \in Threads : SameCreate(pool[t].job, pool[u].job) => t = u
  /\ \A c \in Clients, i \in 1..Len(queue) : ~SameCreate(request[c].job, queue[i])
  /\ \A c \in Clients, t \in Threads : ~SameCreate(request[c].job, pool[t].job)
  /\ \A i \in 1..Len(queue), t \in Threads : ~SameCreate(queue[i], pool[t].job)

Undecided(job) ==
  job.kind = "create" =>
    \/ row[job.resource] = "loading"
    \/ row[job.resource] = "deleted" /\ (job.resource \in Rdbs => job.resource \in hasty)

AllUndecided ==
  /\ \A c \in Clients : Undecided(request[c].job)
  /\ \A i \in 1..Len(queue) : Undecided(queue[i])
  /\ \A t \in Threads : Undecided(pool[t].job)

CreateSteps == {"init", "schema", "grant", "activate", "fail"}
KindsFit == \A t \in Threads : pool[t].step \in CreateSteps => pool[t].job.kind = "create"

Deleting(job, r) == job.kind = "delete" /\ job.resource = r

DropComing(r) ==
  \/ \E c \in Clients : request[c].step = "send" /\ Deleting(request[c].job, r)
  \/ \E i \in 1..Len(queue) : Deleting(queue[i], r)
  \/ \E t \in Threads : pool[t].step = "drop" /\ pool[t].job.resource = r

Dropping ==
  disturbed = "no" =>
    \A r \in Rdbs \ hasty : row[r] = "deleted" /\ schema[r] => DropComing(r)

DInv == OneCreate /\ AllUndecided /\ KindsFit /\ Dropping

LEMMA DInit == Init => DInv
  BY ResourceAssumption DEF Init, DInv, OneCreate, SameCreate, AllUndecided, Undecided, KindsFit,
     CreateSteps, Dropping, NoRequest, Idle, NoJob, Job

(* Handlers until they post.                                               *)
LEMMA DRequests ==
  ASSUME IInv, DInv, NEW c \in Clients,
         (\E r \in Resources : CreateResource(c, r) \/ DeleteResource(c, r)) \/ DeleteRow(c)
  PROVE  DInv'
  <1>0. /\ request \in [Clients -> Requests] /\ row \in [Resources -> RowStatus \cup {"none", "deleted"}]
        /\ UNCHANGED <<schema, queue, pool>>
        /\ \A d \in Clients \ {c} : request'[d] = request[d]
    BY DEF IInv, TypeOK, Requests, CreateResource, DeleteResource, DeleteRow, Ask, rdbVars
  <1>1. CASE \E r \in Resources : CreateResource(c, r)
    <2>1. PICK r \in Resources : CreateResource(c, r)
      BY <1>1
    <2>2. /\ row[r] = "none" /\ row' = [row EXCEPT ![r] = "loading"] /\ hasty' = hasty
          /\ request[c].step = "idle" /\ (disturbed' = "no" => disturbed = "no")
          /\ \/ request'[c] = request[c]
             \/ request'[c].job.kind = "create" /\ request'[c].job.resource = r
      BY <1>0, <2>1 DEF CreateResource, Ask, Job, Fault
    <2>3. \A x \in Resources : x # r => row'[x] = row[x]
      BY <1>0, <2>2
    <2>4. row'[r] = "loading"
      BY <1>0, <2>2
    <2>5. ASSUME NEW job, Undecided(job), job.kind = "create" PROVE job.resource # r
      BY <2>2, <2>5 DEF Undecided
    <2>6. OneCreate'
      <3>1. /\ \A d \in Clients : request[d].job.kind = "create" => request[d].job.resource # r
            /\ \A i \in 1..Len(queue) : queue[i].kind = "create" => queue[i].resource # r
            /\ \A t \in Threads : pool[t].job.kind = "create" => pool[t].job.resource # r
        BY <2>5 DEF DInv, AllUndecided
      <3>2. QED
        BY <1>0, <2>2, <3>1 DEF DInv, OneCreate, SameCreate
    <2>7. AllUndecided'
      <3>1. ASSUME NEW job, Undecided(job)
            PROVE  job.kind = "create" =>
                     \/ row'[job.resource] = "loading"
                     \/ row'[job.resource] = "deleted" /\ (job.resource \in Rdbs => job.resource \in hasty')
        <4>1. row' = [row EXCEPT ![r] = "loading"]
          BY <2>2
        <4>2. job.kind = "create" => row'[job.resource] = row[job.resource]
          BY <1>0, <2>5, <3>1, <4>1
        <4>3. QED
          BY <2>2, <3>1, <4>2 DEF Undecided
      <3>2. QED
        BY <1>0, <2>2, <2>4, <3>1 DEF DInv, AllUndecided, Undecided
    <2>8. KindsFit'
      BY <1>0 DEF DInv, KindsFit
    <2>9. Dropping'
      <3>1. ASSUME NEW x, DropComing(x) PROVE DropComing(x)'
        BY <1>0, <2>2, <3>1 DEF DropComing, Deleting
      <3>2. \A x \in Rdbs : row'[x] = "deleted" => row[x] = "deleted"
        BY <2>3, <2>4 DEF Resources
      <3>3. QED
        BY <1>0, <2>2, <3>1, <3>2 DEF DInv, Dropping
    <2>10. QED
      BY <2>6, <2>7, <2>8, <2>9 DEF DInv
  <1>2. CASE \E r \in Resources : DeleteResource(c, r)
    <2>1. /\ request[c].step = "idle" /\ request'[c].job.kind = "delete"
          /\ UNCHANGED <<row, hasty, disturbed>>
      BY <1>0, <1>2 DEF DeleteResource, Ask, Job, history
    <2>2. OneCreate'
      BY <1>0, <2>1 DEF DInv, OneCreate, SameCreate
    <2>3. AllUndecided'
      BY <1>0, <2>1 DEF DInv, AllUndecided, Undecided
    <2>4. KindsFit'
      BY <1>0 DEF DInv, KindsFit
    <2>5. Dropping'
      <3>1. ASSUME NEW x, DropComing(x) PROVE DropComing(x)'
        BY <1>0, <2>1, <3>1 DEF DropComing, Deleting
      <3>2. QED
        BY <1>0, <2>1, <3>1 DEF DInv, Dropping
    <2>6. QED
      BY <2>2, <2>3, <2>4, <2>5 DEF DInv
  <1>3. CASE DeleteRow(c)
    <2>1. PICK job \in Jobs : job = request[c].job /\ job.kind = "delete" /\ job.resource \in Resources
      BY <1>3, Records DEF IInv, Tasks, DeleteRow
    <2>2. /\ request[c].step = "deleteRow"
          /\ \/ request'[c] = [step |-> "send", job |-> job]
             \/ request'[c] = NoRequest /\ disturbed' # "no"
          /\ disturbed' = "no" => disturbed = "no"
          /\ \/ UNCHANGED <<row, hasty>> /\ disturbed' # "no"
             \/ /\ row' = [row EXCEPT ![job.resource] = "deleted"]
                /\ hasty' = IF row[job.resource] = "loading" THEN hasty \cup ({job.resource} \cap Rdbs)
                                                             ELSE hasty
      BY <1>0, <1>3, <2>1 DEF DeleteRow, Ask, Fault
    <2>3. request'[c].job.kind # "create"
      BY <2>1, <2>2 DEF NoRequest, NoJob, Job
    <2>4. OneCreate'
      BY <1>0, <2>3 DEF DInv, OneCreate, SameCreate
    <2>5. AllUndecided'
      <3>1. ASSUME NEW k \in Jobs \cup {NoJob}, Undecided(k)
            PROVE  k.kind = "create" =>
                     \/ row'[k.resource] = "loading"
                     \/ row'[k.resource] = "deleted" /\ (k.resource \in Rdbs => k.resource \in hasty')
        <4>1. CASE k.resource = job.resource
          BY <1>0, <2>1, <2>2, <3>1, <4>1 DEF Undecided
        <4>2. CASE k.resource # job.resource
          <5>1. k.kind = "create" => k.resource \in Resources
            BY Records DEF NoJob, Job
          <5>2. k.kind = "create" => row'[k.resource] = row[k.resource]
            BY <1>0, <2>2, <4>2, <5>1
          <5>3. hasty \subseteq hasty'
            BY <2>2
          <5>4. QED
            BY <3>1, <5>2, <5>3 DEF Undecided
        <4>3. QED
          BY <4>1, <4>2
      <3>2. /\ \A d \in Clients : request[d].job \in Jobs \cup {NoJob}
            /\ \A i \in 1..Len(queue) : queue[i] \in Jobs \cup {NoJob}
            /\ \A t \in Threads : pool[t].job \in Jobs \cup {NoJob}
        BY ElementOfSeq DEF IInv, TypeOK
      <3>3. QED
        BY <1>0, <2>3, <3>1, <3>2 DEF DInv, AllUndecided, Undecided
    <2>6. KindsFit'
      BY <1>0 DEF DInv, KindsFit
    <2>7. Dropping'
      <3> SUFFICES ASSUME disturbed' = "no", NEW r \in Rdbs \ hasty', row'[r] = "deleted", schema[r]
                   PROVE  DropComing(r)'
        BY <1>0 DEF Dropping
      <3>1. request'[c].step = "send" /\ request'[c].job = job
        BY <2>2
      <3>2. CASE r = job.resource
        BY <2>1, <3>1, <3>2 DEF DropComing, Deleting
      <3>3. CASE r # job.resource
        <4>1. row[r] = "deleted" /\ r \notin hasty /\ disturbed = "no"
          BY <1>0, <2>1, <2>2, <3>3 DEF Resources
        <4>2. DropComing(r)
          BY <4>1 DEF DInv, Dropping
        <4>3. QED
          BY <1>0, <2>2, <4>2 DEF DropComing, Deleting
      <3>4. QED
        BY <3>2, <3>3
    <2>8. QED
      BY <2>4, <2>5, <2>6, <2>7 DEF DInv
  <1>4. QED
    BY <1>1, <1>2, <1>3

LEMMA DSend ==
  ASSUME IInv, DInv, NEW c \in Clients, SendTask(c)
  PROVE  DInv'
  <1>0. PICK job \in Jobs : job = request[c].job
    BY DEF IInv, Tasks, SendTask
  <1>1. /\ UNCHANGED <<row, schema, hasty, pool>> /\ request[c].step = "send"
        /\ request'[c] = NoRequest /\ \A d \in Clients \ {c} : request'[d] = request[d]
        /\ disturbed' = "no" => disturbed = "no"
    BY DEF SendTask, rdbVars, Fault, IInv, TypeOK
  <1>q. queue \in Seq(Jobs) /\ Len(queue) \in Nat
    BY LenProperties DEF IInv, TypeOK
  <1>2. /\ \A i \in 1..Len(queue') : \/ i \in 1..Len(queue) /\ queue'[i] = queue[i]
                                     \/ i = Len(queue) + 1 /\ queue'[i] = job
        /\ \A i \in 1..Len(queue) : i \in 1..Len(queue') /\ queue'[i] = queue[i]
        /\ disturbed' = "no" => \E i \in 1..Len(queue') : queue'[i] = job
    <2>1. /\ Len(Append(queue, job)) = Len(queue) + 1
          /\ \A i \in 1..Len(queue) : Append(queue, job)[i] = queue[i]
          /\ Append(queue, job)[Len(queue) + 1] = job
      BY <1>q, AppendProperties
    <2>2. CASE queue' = Append(queue, job)
      BY <1>q, <2>1, <2>2
    <2>3. CASE queue' = queue /\ disturbed' # "no"
      BY <2>3
    <2>4. QED
      BY <1>0, <2>2, <2>3 DEF SendTask, Submit, Fault
  <1>3. NoRequest.job.kind = "none" /\ NoRequest.step = "idle"
    BY DEF NoRequest, NoJob, Job
  <1>4. OneCreate'
    <2>1. \A i \in 1..Len(queue) : ~SameCreate(job, queue[i]) /\ ~SameCreate(queue[i], job)
      BY <1>0 DEF DInv, OneCreate, SameCreate
    <2>2. \A d \in Clients \ {c} : ~SameCreate(request[d].job, job) /\ ~SameCreate(job, request[d].job)
      BY <1>0 DEF DInv, OneCreate, SameCreate
    <2>3. \A t \in Threads : ~SameCreate(job, pool[t].job)
      BY <1>0 DEF DInv, OneCreate
    <2>4. \A i, j \in 1..Len(queue') : SameCreate(queue'[i], queue'[j]) => i = j
      BY <1>2, <2>1 DEF DInv, OneCreate
    <2>5. \A d, e \in Clients : SameCreate(request'[d].job, request'[e].job) => d = e
      BY <1>1, <1>3 DEF DInv, OneCreate, SameCreate
    <2>6. \A d \in Clients, i \in 1..Len(queue') : ~SameCreate(request'[d].job, queue'[i])
      <3>1. \A i \in 1..Len(queue') : ~SameCreate(request'[c].job, queue'[i])
        BY <1>1, <1>3 DEF SameCreate
      <3>2. \A d \in Clients \ {c}, i \in 1..Len(queue') : ~SameCreate(request[d].job, queue'[i])
        BY <1>2, <2>2 DEF DInv, OneCreate
      <3>3. QED
        BY <1>1, <3>1, <3>2
    <2>7. \A d \in Clients, t \in Threads : ~SameCreate(request'[d].job, pool'[t].job)
      BY <1>1, <1>3 DEF DInv, OneCreate, SameCreate
    <2>8. \A i \in 1..Len(queue'), t \in Threads : ~SameCreate(queue'[i], pool'[t].job)
      BY <1>1, <1>2, <2>3 DEF DInv, OneCreate
    <2>9. QED
      BY <1>1, <2>4, <2>5, <2>6, <2>7, <2>8 DEF DInv, OneCreate
  <1>5. AllUndecided'
    <2>1. Undecided(job)
      BY <1>0 DEF DInv, AllUndecided
    <2>2. \A k : Undecided(k) <=> (k.kind = "create" =>
            \/ row'[k.resource] = "loading"
            \/ row'[k.resource] = "deleted" /\ (k.resource \in Rdbs => k.resource \in hasty'))
      BY <1>1 DEF Undecided
    <2>3. Undecided(NoRequest.job)
      BY <1>3 DEF Undecided
    <2>4. QED
      BY <1>1, <1>2, <2>1, <2>2, <2>3 DEF DInv, AllUndecided, Undecided
  <1>6. KindsFit'
    BY <1>1 DEF DInv, KindsFit
  <1>7. Dropping'
    <2> SUFFICES ASSUME disturbed' = "no", NEW r \in Rdbs \ hasty, row[r] = "deleted", schema[r]
                 PROVE  DropComing(r)'
      BY <1>1 DEF Dropping
    <2>1. DropComing(r)
      BY <1>1 DEF DInv, Dropping
    <2>2. CASE \E d \in Clients : request[d].step = "send" /\ Deleting(request[d].job, r)
      <3>1. PICK d \in Clients : request[d].step = "send" /\ Deleting(request[d].job, r)
        BY <2>2
      <3>2. CASE d = c
        BY <1>0, <1>2, <3>1, <3>2 DEF DropComing, Deleting
      <3>3. CASE d # c
        BY <1>1, <3>1, <3>3 DEF DropComing, Deleting
      <3>4. QED
        BY <3>2, <3>3
    <2>3. CASE \E i \in 1..Len(queue) : Deleting(queue[i], r)
      BY <1>2, <2>3 DEF DropComing, Deleting
    <2>4. CASE \E t \in Threads : pool[t].step = "drop" /\ pool[t].job.resource = r
      BY <1>1, <2>4 DEF DropComing
    <2>5. QED
      BY <2>1, <2>2, <2>3, <2>4 DEF DropComing
  <1>8. QED
    BY <1>4, <1>5, <1>6, <1>7 DEF DInv

LEMMA DStart ==
  ASSUME IInv, DInv, NEW t \in Threads, StartJob(t)
  PROVE  DInv'
  <1>0. queue \in Seq(Jobs) /\ queue # <<>> /\ Len(queue) \in Nat
    BY LenProperties DEF IInv, TypeOK, StartJob
  <1>1. /\ Len(queue) > 0 /\ Len(queue') = Len(queue) - 1
        /\ \A i \in 1..Len(queue') : queue'[i] = queue[i + 1]
        /\ Head(queue) = queue[1]
    BY <1>0, HeadTailProperties, LenProperties DEF StartJob
  <1>2. PICK job \in Jobs : job = queue[1] /\ job = Head(queue) /\ job.resource \in Resources
    BY <1>0, <1>1, ElementOfSeq, Records
  <1>3. /\ UNCHANGED <<row, schema, hasty, disturbed, request>>
        /\ pool[t].step = "idle"
        /\ pool'[t] = [step |-> FirstStep(job), job |-> job]
        /\ \A u \in Threads \ {t} : pool'[u] = pool[u]
    BY <1>2 DEF StartJob, rdbVars, history, At, IInv, TypeOK
  <1>4. /\ \A i \in 1..Len(queue') : i + 1 \in 1..Len(queue) /\ i + 1 # 1 /\ i \in Nat
        /\ 1 \in 1..Len(queue)
        /\ \A i \in 1..Len(queue) : i = 1 \/ (i - 1 \in 1..Len(queue') /\ (i - 1) + 1 = i)
    BY <1>0, <1>1
  <1>5. OneCreate'
    <2>1. \A i \in 1..Len(queue') : ~SameCreate(queue'[i], job)
      BY <1>1, <1>2, <1>4 DEF DInv, OneCreate
    <2>2. \A c \in Clients : ~SameCreate(request[c].job, job)
      BY <1>2, <1>4 DEF DInv, OneCreate
    <2>3. \A u \in Threads : ~SameCreate(job, pool[u].job) /\ ~SameCreate(pool[u].job, job)
      BY <1>2, <1>4 DEF DInv, OneCreate, SameCreate
    <2>4. \A i, j \in 1..Len(queue') : SameCreate(queue'[i], queue'[j]) => i = j
      <3>1. \A i, j \in 1..Len(queue') : SameCreate(queue'[i], queue'[j]) => i + 1 = j + 1
        BY <1>1, <1>4 DEF DInv, OneCreate
      <3>2. \A i, j \in 1..Len(queue') : i + 1 = j + 1 => i = j
        OBVIOUS
      <3>3. QED
        BY <3>1, <3>2
    <2>5. \A u, x \in Threads : SameCreate(pool'[u].job, pool'[x].job) => u = x
      BY <1>3, <2>3 DEF DInv, OneCreate
    <2>6. \A c \in Clients, i \in 1..Len(queue') : ~SameCreate(request'[c].job, queue'[i])
      BY <1>1, <1>3, <1>4 DEF DInv, OneCreate
    <2>7. \A c \in Clients, u \in Threads : ~SameCreate(request'[c].job, pool'[u].job)
      BY <1>3, <2>2 DEF DInv, OneCreate
    <2>8. \A i \in 1..Len(queue'), u \in Threads : ~SameCreate(queue'[i], pool'[u].job)
      BY <1>1, <1>3, <1>4, <2>1 DEF DInv, OneCreate
    <2>9. QED
      BY <1>3, <2>4, <2>5, <2>6, <2>7, <2>8 DEF DInv, OneCreate
  <1>6. AllUndecided'
    <2>1. Undecided(job) /\ \A i \in 1..Len(queue') : Undecided(queue'[i])
      BY <1>1, <1>2, <1>4 DEF DInv, AllUndecided
    <2>2. QED
      BY <1>3, <2>1 DEF DInv, AllUndecided, Undecided
  <1>7. KindsFit'
    <2>1. FirstStep(job) \in CreateSteps => job.kind = "create"
      BY <1>2, Records DEF FirstStep, CreateSteps, Resources
    <2>2. QED
      BY <1>3, <2>1 DEF DInv, KindsFit
  <1>8. Dropping'
    <2> SUFFICES ASSUME disturbed = "no", NEW r \in Rdbs \ hasty, row[r] = "deleted", schema[r]
                 PROVE  DropComing(r)'
      BY <1>3 DEF Dropping
    <2>1. DropComing(r)
      BY DEF DInv, Dropping
    <2>2. CASE \E c \in Clients : request[c].step = "send" /\ Deleting(request[c].job, r)
      BY <1>3, <2>2 DEF DropComing, Deleting
    <2>3. CASE \E i \in 1..Len(queue) : Deleting(queue[i], r)
      <3>1. PICK i \in 1..Len(queue) : Deleting(queue[i], r)
        BY <2>3
      <3>2. CASE i = 1
        <4>1. FirstStep(job) = "drop" /\ job.resource = r
          BY <1>2, <3>1, <3>2 DEF FirstStep, Deleting
        <4>2. QED
          BY <1>3, <4>1 DEF DropComing
      <3>3. CASE i # 1
        BY <1>1, <1>4, <3>1, <3>3 DEF DropComing, Deleting
      <3>4. QED
        BY <3>2, <3>3
    <2>4. CASE \E u \in Threads : pool[u].step = "drop" /\ pool[u].job.resource = r
      BY <1>3, <2>4 DEF DropComing
    <2>5. QED
      BY <2>1, <2>2, <2>3, <2>4 DEF DropComing
  <1>9. QED
    BY <1>5, <1>6, <1>7, <1>8 DEF DInv

(* The steps of a job.                                                     *)
LEMMA DJob ==
  ASSUME IInv, DInv, NEW t \in Threads, RunJob(t), ~StartJob(t)
  PROVE  DInv'
  <1>0. /\ UNCHANGED <<request, queue, hasty>>
        /\ pool \in [Threads -> Pooled] /\ row \in [Resources -> RowStatus \cup {"none", "deleted"}]
        /\ schema \in [Rdbs -> BOOLEAN]
        /\ \A u \in Threads \ {t} : pool'[u] = pool[u]
        /\ Step(pool[t])
    BY DEF RunJob, InitUserRDB, CreateSchema, GrantSchema, Record, DropSchema, NotifyPods, Goto,
       Finish, IInv, TypeOK, Pooled, Steps, history
  <1>1. /\ pool[t].step # "idle" /\ pool[t].job \in Jobs /\ pool[t].job.resource \in Resources
        /\ pool'[t].step # "drop"
        /\ pool'[t].job = pool[t].job \/ pool'[t].job.kind = "none"
        /\ pool'[t].step \in CreateSteps =>
             pool'[t].job = pool[t].job /\ pool[t].step \in CreateSteps
    <2>1. pool[t].step # "idle"
      BY DEF RunJob, InitUserRDB, CreateSchema, GrantSchema, Record, DropSchema, NotifyPods, At
    <2>2. CASE \E step \in {"schema", "grant", "activate", "fail"} :
                 Goto(t, step) /\ pool[t].step \in CreateSteps
      BY <1>0, <2>1, <2>2, Records DEF Goto, Step, Pooled
    <2>3. CASE Finish(t)
      BY <1>0, <2>1, <2>3, Records DEF Finish, Idle, NoJob, Job, Step, CreateSteps
    <2>4. CASE Goto(t, "notify")
      BY <1>0, <2>1, <2>4, Records DEF Goto, Step, Pooled, CreateSteps
    <2>5. QED
      BY <2>2, <2>3, <2>4 DEF RunJob, InitUserRDB, CreateSchema, GrantSchema, Record, DropSchema,
         NotifyPods, At, CreateSteps
  <1>2. OneCreate'
    BY <1>0, <1>1 DEF DInv, OneCreate, SameCreate
  <1>3. \/ UNCHANGED row
        \/ /\ pool[t].step \in CreateSteps /\ pool'[t].job.kind = "none"
           /\ \A r \in Resources : r # pool[t].job.resource => row'[r] = row[r]
           /\ row[pool[t].job.resource] # "deleted"
           /\ row'[pool[t].job.resource] # "deleted"
    <2>1. CASE Record(t)
      BY <1>0, <1>1, <2>1 DEF Record, SetStatus, HasRow, RowStatus, Finish, Idle, NoJob, Job, CreateSteps,
         Resource
    <2>2. CASE ~Record(t)
      BY <2>2 DEF RunJob, InitUserRDB, CreateSchema, GrantSchema, DropSchema, NotifyPods
    <2>3. QED
      BY <2>1, <2>2
  <1>4. AllUndecided'
    <2>1. CASE UNCHANGED row
      BY <1>0, <1>1, <2>1 DEF DInv, AllUndecided, Undecided
    <2>2. CASE /\ pool[t].step \in CreateSteps /\ pool'[t].job.kind = "none"
               /\ \A r \in Resources : r # pool[t].job.resource => row'[r] = row[r]
      <3>1. pool[t].job.kind = "create"
        BY <2>2 DEF DInv, KindsFit
      <3>2. ASSUME NEW k \in Jobs \cup {NoJob}, Undecided(k), ~SameCreate(k, pool[t].job)
            PROVE  k.kind = "create" =>
                     \/ row'[k.resource] = "loading"
                     \/ row'[k.resource] = "deleted" /\ (k.resource \in Rdbs => k.resource \in hasty)
        <4>1. k.kind = "create" => k.resource \in Resources /\ k.resource # pool[t].job.resource
          BY <3>1, <3>2, Records DEF SameCreate, NoJob, Job
        <4>2. QED
          BY <2>2, <3>2, <4>1 DEF Undecided
      <3>3. /\ \A d \in Clients : request[d].job \in Jobs \cup {NoJob}
            /\ \A i \in 1..Len(queue) : queue[i] \in Jobs \cup {NoJob}
            /\ \A u \in Threads : pool[u].job \in Jobs \cup {NoJob}
        BY ElementOfSeq DEF IInv, TypeOK
      <3>4. /\ \A d \in Clients : ~SameCreate(request[d].job, pool[t].job)
            /\ \A i \in 1..Len(queue) : ~SameCreate(queue[i], pool[t].job)
            /\ \A u \in Threads \ {t} : ~SameCreate(pool[u].job, pool[t].job)
        BY DEF DInv, OneCreate
      <3>5. QED
        BY <1>0, <2>2, <3>2, <3>3, <3>4 DEF DInv, AllUndecided, Undecided
    <2>3. QED
      BY <1>3, <2>1, <2>2
  <1>5. KindsFit'
    BY <1>0, <1>1 DEF DInv, KindsFit
  <1>6. Dropping'
    <2> SUFFICES ASSUME disturbed' = "no", NEW r \in Rdbs \ hasty, row'[r] = "deleted", schema'[r]
                 PROVE  DropComing(r)'
      BY <1>0 DEF Dropping
    <2>1. disturbed = "no"
      BY DEF RunJob, InitUserRDB, CreateSchema, GrantSchema, Record, DropSchema, NotifyPods, Fault,
         RecordFault, history
    <2>2. row[r] = "deleted"
      BY <1>1, <1>3 DEF Resources
    <2>3. schema[r]
      <3>1. CASE CreateSchema(t)
        <4>1. pool[t].job.kind = "create"
          BY <3>1 DEF CreateSchema, At, DInv, KindsFit, CreateSteps
        <4>2. pool[t].job.resource # r
          BY <2>2, <4>1 DEF DInv, AllUndecided, Undecided
        <4>3. QED
          BY <1>0, <3>1, <4>2 DEF CreateSchema, Resource
      <3>2. CASE DropSchema(t)
        BY <1>0, <3>2 DEF DropSchema, Resource
      <3>3. CASE UNCHANGED schema
        BY <3>3
      <3>4. QED
        BY <3>1, <3>2, <3>3 DEF RunJob, InitUserRDB, GrantSchema, Record, NotifyPods, rdbVars
    <2>4. DropComing(r)
      BY <2>1, <2>2, <2>3 DEF DInv, Dropping
    <2>5. ASSUME pool[t].step = "drop", pool[t].job.resource = r PROVE FALSE
      <3>1. DropSchema(t)
        BY <2>5 DEF RunJob, InitUserRDB, CreateSchema, GrantSchema, Record, DropSchema, NotifyPods, At
      <3>2. QED
        BY <1>0, <2>5, <3>1 DEF DropSchema, Resource, Fault
    <2>6. QED
      BY <1>0, <2>4, <2>5 DEF DropComing, Deleting
  <1>7. QED
    BY <1>2, <1>4, <1>5, <1>6 DEF DInv

LEMMA DRestarts ==
  ASSUME IInv, DInv, InnerRestart \/ OuterRestart
  PROVE  DInv'
  <1>1. /\ UNCHANGED <<row, schema, hasty>> /\ disturbed' # "no"
        /\ \A c \in Clients : request'[c] = request[c] \/ request'[c] = NoRequest
        /\ \/ UNCHANGED <<queue, pool>>
           \/ queue' = <<>> /\ pool' = [t \in Threads |-> Idle]
    BY DEF InnerRestart, OuterRestart, EndRequests, Fault, RecordFault, rdbVars
  <1>2. NoRequest.job.kind = "none" /\ Idle.job.kind = "none" /\ Idle.step = "idle"
    BY DEF NoRequest, Idle, NoJob, Job
  <1>3. OneCreate'
    BY <1>1, <1>2 DEF DInv, OneCreate, SameCreate
  <1>4. AllUndecided'
    BY <1>1, <1>2 DEF DInv, AllUndecided, Undecided
  <1>5. KindsFit'
    BY <1>1, <1>2 DEF DInv, KindsFit, CreateSteps
  <1>6. QED
    BY <1>1, <1>3, <1>4, <1>5 DEF DInv, Dropping

(* The audit and the registration's job make no schema.                    *)
LEMMA DAudit ==
  ASSUME DInv, InitDatabase \/ DropDatabase
  PROVE  DInv'
  <1>1. /\ UNCHANGED <<row, request, queue, pool, hasty, disturbed>>
        /\ \A r \in Rdbs : schema'[r] => schema[r]
    BY DEF InitDatabase, DropDatabase, history
  <1>2. OneCreate' /\ AllUndecided' /\ KindsFit'
    BY <1>1 DEF DInv, OneCreate, SameCreate, AllUndecided, Undecided, KindsFit
  <1>3. Dropping'
    BY <1>1 DEF DInv, Dropping, DropComing, Deleting
  <1>4. QED
    BY <1>2, <1>3 DEF DInv

(* When nothing fails, a database that was deleted after its creation had  *)
(* been decided leaves no schema behind, however many requests delete it,  *)
(* in whatever order the goroutines run the jobs.                          *)
THEOREM SchemaGone == Spec => []DeletedSchemaGone
  <1>1. IInv /\ DInv /\ [Next]_vars => DInv'
    <2> SUFFICES ASSUME IInv, DInv, [Next]_vars PROVE DInv'
      OBVIOUS
    <2>1. CASE UNCHANGED vars
      BY <2>1 DEF vars, rdbVars, history, DInv, OneCreate, SameCreate, AllUndecided, Undecided,
         KindsFit, Dropping, DropComing, Deleting
    <2>2. CASE Next
      BY <2>2, DRequests, DSend, DStart, DJob, DAudit, DRestarts DEF Next, RunJob
    <2>3. QED
      BY <2>1, <2>2
  <1>2. DInv => DeletedSchemaGone
    <2> SUFFICES ASSUME DInv, Settled, disturbed = "no", NEW r \in Rdbs \ hasty,
                        row[r] = "deleted", schema[r]
                 PROVE  FALSE
      BY DEF DeletedSchemaGone
    <2>1. DropComing(r)
      BY DEF DInv, Dropping
    <2>2. Len(queue) = 0
      BY EmptySeq DEF Settled
    <2>3. QED
      BY <2>1, <2>2 DEF DropComing, Settled, At
  <1>3. QED
    BY Invariance, DInit, <1>1, <1>2, PTL DEF Spec
=============================================================================
