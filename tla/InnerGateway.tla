---------------------------- MODULE InnerGateway ----------------------------
(***************************************************************************)
(* The inner gateway's process, from start to exit: main (cmd/inner), the  *)
(* HTTP handlers that accept tasks, the processor's queue and its pool of  *)
(* goroutines (k8s/processor.go) and the cron scheduler (k8s/cron.go).     *)
(*                                                                         *)
(* main's statements run in order, its deferred calls in the reverse order *)
(* of their defer statements; "main" names the next one.  Each task posted *)
(* to /api/acceptTask has a handler goroutine of its own.  A local task is *)
(* posted by the DeployWorker handler of this same process, which the      *)
(* server counts as a request in progress while it waits for its own post. *)
(***************************************************************************)
EXTENDS Naturals, Sequences

CONSTANTS
  RemoteTasks,  \* tasks the outer gateway posts
  LocalTasks,   \* tasks this process posts to itself
  Boot,         \* the audit that main submits before it serves
  Durations,    \* the periods of the jobs main registers with the scheduler
  Threads,      \* goroutines of the pool
  QueueSize     \* capacity of JobQueue

Posted == RemoteTasks \cup LocalTasks
Tasks  == Posted \cup {Boot}

ASSUME GatewayAssumption ==
  /\ RemoteTasks \cap LocalTasks = {}
  /\ Boot \notin Posted
  /\ Tasks \cap {"none", "stopped"} = {}
  /\ QueueSize \in Nat \ {0}

VARIABLES
  main,        \* the statement main runs next
  registered,  \* keys of CronScheduler.durationToCall
  tickers,     \* keys of CronScheduler.timerMap: tickers with a goroutine
  request,     \* the request of each posted task
  queue,       \* the buffer of JobQueue
  closed,      \* JobQueue is closed
  pool,        \* the task each goroutine of the pool runs
  finished     \* tasks whose Do returned

vars == <<main, registered, tickers, request, queue, closed, pool, finished>>

None    == "none"     \* a goroutine that waits for a task
Stopped == "stopped"  \* a goroutine that has not started, or has returned

MainStep == {"startPool", "startCron", "register", "submitBoot", "serve",
             "drain", "closeCron", "closePool", "exit", "exited"}

(* "new": not posted; "calling": a local post on its way to the listener;  *)
(* "submit": the handler is inside Submit; the rest are answers.           *)
RequestStep == {"new", "calling", "submit", "accepted", "refused"}

Queued(k)  == \E i \in 1..Len(queue) : queue[i] = k
Running(k) == \E t \in Threads : pool[t] = k
InProgress(k) == request[k] \in {"calling", "submit"}

Init ==
  /\ main = "startPool"
  /\ registered = {} /\ tickers = {}
  /\ request = [k \in Posted |-> "new"]
  /\ queue = <<>> /\ closed = FALSE
  /\ pool = [t \in Threads |-> Stopped]
  /\ finished = {}

-----------------------------------------------------------------------------
(* main, up to the server.                                                 *)
StartPool ==
  /\ main = "startPool" /\ main' = "startCron"
  /\ pool' = [t \in Threads |-> None]
  /\ UNCHANGED <<registered, tickers, request, queue, closed, finished>>

(* CronScheduler.Start: a goroutine for every duration registered so far.  *)
StartCron ==
  /\ main = "startCron" /\ main' = "register"
  /\ tickers' = registered
  /\ UNCHANGED <<registered, request, queue, closed, pool, finished>>

RegisterJobs ==
  /\ main = "register" /\ main' = "submitBoot"
  /\ registered' = Durations
  /\ UNCHANGED <<tickers, request, queue, closed, pool, finished>>

\* Mutant: a task that finds the queue full is dropped.
SubmitOrDrop(k) ==
  queue' = IF Len(queue) < QueueSize THEN Append(queue, k) ELSE queue

(* Processor.Submit blocks while the buffer is full.                       *)
Submit(k) == Len(queue) < QueueSize /\ queue' = Append(queue, k)

SubmitBoot ==
  /\ main = "submitBoot" /\ main' = "serve"
  /\ Submit(Boot)
  /\ UNCHANGED <<registered, tickers, request, closed, pool, finished>>

-----------------------------------------------------------------------------
(* Requests.                                                               *)
Answer(k, step) ==
  /\ request' = [request EXCEPT ![k] = step]
  /\ UNCHANGED <<main, registered, tickers, closed, pool, finished>>

(* The DeployWorker handler starts and posts its task.                     *)
CallLocal(k) ==
  /\ main = "serve" /\ k \in LocalTasks /\ request[k] = "new"
  /\ Answer(k, "calling") /\ UNCHANGED queue

(* The listener takes the connection of a post.                            *)
Post(k) ==
  /\ main = "serve"
  /\ request[k] = IF k \in LocalTasks THEN "calling" ELSE "new"
  /\ Answer(k, "submit") /\ UNCHANGED queue

(* Once Shutdown has closed the listener this process takes no post: the   *)
(* handler that made it answers 500 (or another replica takes the task).   *)
Refuse(k) ==
  /\ main = "drain" /\ request[k] = "calling"
  /\ Answer(k, "refused") /\ UNCHANGED queue

(* AcceptTask: Submit, then 200.                                           *)
AcceptTask(k) ==
  /\ request[k] = "submit" /\ ~closed
  /\ Submit(k)
  /\ Answer(k, "accepted")

-----------------------------------------------------------------------------
(* The pool: for job := range p.JobQueue { job.Do() }.                     *)
StartTask(t) ==
  /\ pool[t] = None /\ queue # <<>>
  /\ pool' = [pool EXCEPT ![t] = Head(queue)]
  /\ queue' = Tail(queue)
  /\ UNCHANGED <<main, registered, tickers, request, closed, finished>>

\* Mutant: a task whose Do failed is put back into the queue.
FinishTaskOrRequeue(t) ==
  /\ pool[t] \in Tasks
  /\ pool' = [pool EXCEPT ![t] = None]
  /\ \/ UNCHANGED queue
     \/ Submit(pool[t])
  /\ finished' = finished \cup {pool[t]}
  /\ UNCHANGED <<main, registered, tickers, request, closed>>

(* Do returned; an error is only logged.                                   *)
FinishTask(t) ==
  /\ pool[t] \in Tasks
  /\ pool' = [pool EXCEPT ![t] = None]
  /\ finished' = finished \cup {pool[t]}
  /\ UNCHANGED <<main, registered, tickers, request, queue, closed>>

\* Mutant: the goroutines stop when the process is told to.
LeavePoolEarly(t) ==
  /\ main # "serve" /\ pool[t] = None
  /\ pool' = [pool EXCEPT ![t] = Stopped]
  /\ UNCHANGED <<main, registered, tickers, request, queue, closed, finished>>

(* The range ends when the channel is closed and its buffer is empty.      *)
LeavePool(t) ==
  /\ closed /\ queue = <<>> /\ pool[t] = None
  /\ pool' = [pool EXCEPT ![t] = Stopped]
  /\ UNCHANGED <<main, registered, tickers, request, queue, closed, finished>>

-----------------------------------------------------------------------------
(* main, from the signal on.                                               *)
Signal ==
  /\ main = "serve" /\ main' = "drain"
  /\ UNCHANGED <<registered, tickers, request, queue, closed, pool, finished>>

\* Mutant: main does not wait for the requests in progress (srv.Close).
ShutdownAtOnce ==
  /\ main = "drain" /\ main' = "closeCron"
  /\ UNCHANGED <<registered, tickers, request, queue, closed, pool, finished>>

(* srv.Shutdown with a context that is never done.                         *)
Shutdown ==
  /\ main = "drain" /\ main' = "closeCron"
  /\ \A k \in Posted : ~InProgress(k)
  /\ UNCHANGED <<registered, tickers, request, queue, closed, pool, finished>>

(* The deferred cron.Close ends the tickers' goroutines.                   *)
CloseCron ==
  /\ main = "closeCron" /\ main' = "closePool"
  /\ tickers' = {}
  /\ UNCHANGED <<registered, request, queue, closed, pool, finished>>

ClosePool ==
  /\ main = "closePool" /\ main' = "exit"
  /\ closed' = TRUE
  /\ UNCHANGED <<registered, tickers, request, queue, pool, finished>>

(* main closes the databases and returns without waiting for the pool: the *)
(* process ends, and with it what is queued or running.                    *)
Exit ==
  /\ main = "exit" /\ main' = "exited"
  /\ queue' = <<>>
  /\ pool' = [t \in Threads |-> Stopped]
  /\ UNCHANGED <<registered, tickers, request, closed, finished>>

MainNext ==
  \/ StartPool \/ StartCron \/ RegisterJobs \/ SubmitBoot
  \/ Shutdown \/ CloseCron \/ ClosePool \/ Exit

RequestNext(k) == Post(k) \/ Refuse(k) \/ AcceptTask(k)

PoolNext(t) == StartTask(t) \/ FinishTask(t) \/ LeavePool(t)

Next ==
  \/ MainNext
  \/ Signal
  \/ \E k \in Posted : CallLocal(k) \/ RequestNext(k)
  \/ \E t \in Threads : PoolNext(t)

Spec == Init /\ [][Next]_vars

(* Every goroutine runs, Do always returns, and the senders blocked on a   *)
(* full channel are served in turn.  Nobody need post a task or send the   *)
(* signal.                                                                 *)
FairSpec ==
  /\ Spec
  /\ WF_vars(MainNext)
  /\ \A t \in Threads : WF_vars(PoolNext(t))
  /\ \A k \in Posted :
       /\ SF_vars(AcceptTask(k))
       /\ WF_vars(k \in LocalTasks /\ (Post(k) \/ Refuse(k)))

-----------------------------------------------------------------------------
(***************************************************************************)
(* Properties.                                                             *)
(***************************************************************************)
TypeOK ==
  /\ main \in MainStep
  /\ registered \subseteq Durations /\ tickers \subseteq Durations
  /\ request \in [Posted -> RequestStep]
  /\ queue \in Seq(Tasks) /\ Len(queue) <= QueueSize
  /\ closed \in BOOLEAN
  /\ pool \in [Threads -> Tasks \cup {None, Stopped}]
  /\ finished \subseteq Tasks

(* JobQueue is closed only when no handler is inside Submit: a send on a   *)
(* closed channel would panic.  It holds because main's deferred           *)
(* proc.Close runs after srv.Shutdown has waited for every handler.        *)
NoSendOnClosed == closed => \A k \in Posted : ~InProgress(k)

(* The tasks of the gateway behave as TaskQueue promises: an accepted task *)
(* is in exactly one place, started once and finished once, and only the   *)
(* end of the process loses it.                                            *)
TaskStatus == [k \in Tasks |->
  IF Running(k) THEN "running"
  ELSE IF Queued(k) THEN "accepted"
  ELSE IF k \in finished THEN "finished"
  ELSE IF k \in Posted /\ request[k] # "accepted" THEN "unknown"
  ELSE IF k = Boot /\ main \in {"startPool", "startCron", "register", "submitBoot"} THEN "unknown"
  ELSE "lost"]

Queue == INSTANCE TaskQueue WITH status <- TaskStatus, up <- (main # "exited")

ImplementsTaskQueue == Queue!Spec

(* A request in progress is answered, also when the signal arrives while   *)
(* its handler waits for room in the queue.                                *)
RequestsAnswered ==
  \A k \in Posted : InProgress(k) ~> request[k] \in {"accepted", "refused"}

(* Shutdown ends: it waits for handlers, which wait for the pool, which    *)
(* must not wait for main.                                                 *)
ShutdownEnds == (main = "drain") ~> (main = "exited")

(* As long as the gateway serves, an accepted task is run.                 *)
AcceptedRuns ==
  \A k \in Posted : (request[k] = "accepted") ~> (k \in finished \/ main # "serve")

(* While the gateway serves, every registered job has a ticker.            *)
RegisteredJobsTick == main = "serve" => registered \subseteq tickers
=============================================================================
