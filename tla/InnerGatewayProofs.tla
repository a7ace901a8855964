------------------------- MODULE InnerGatewayProofs -------------------------
(***************************************************************************)
(* Theorems of InnerGateway, for every set of tasks, every number of       *)
(* goroutines and every capacity of the queue; and of UserDBPool, the pool *)
(* of connections that the same process keeps (second part).               *)
(***************************************************************************)
EXTENDS InnerGateway, UserDBPool, FiniteSetTheorems, SequenceTheorems, TLAPS

(* What main has done, and how far its deferred calls have come.           *)
Submitted(k) == IF k = Boot THEN main \notin {"startPool", "startCron", "register", "submitBoot"}
                ELSE request[k] = "accepted"

Stages ==
  /\ closed <=> main \in {"exit", "exited"}
  /\ main \notin {"serve", "drain"} => \A k \in Posted : ~InProgress(k)
  /\ main \in {"startPool", "exited"} => queue = <<>> /\ \A t \in Threads : pool[t] = Stopped

(* A task is in one place at most, and in one if it was submitted and the  *)
(* process is up.                                                          *)
Places ==
  /\ \A i, j \in 1..Len(queue) : queue[i] = queue[j] => i = j
  /\ \A s, t \in Threads : pool[s] \in Tasks /\ pool[s] = pool[t] => s = t
  /\ \A k \in Tasks :
       /\ Queued(k) => ~Running(k) /\ k \notin finished
       /\ Running(k) => k \notin finished
       /\ Queued(k) \/ Running(k) \/ k \in finished => Submitted(k)
       /\ Submitted(k) /\ main # "exited" => Queued(k) \/ Running(k) \/ k \in finished

IInv == TypeOK /\ Stages /\ Places

-----------------------------------------------------------------------------
(* The buffer of a channel.                                                *)
LEMMA Appended ==
  ASSUME NEW q \in Seq(Tasks), NEW k \in Tasks,
         \A i, j \in 1..Len(q) : q[i] = q[j] => i = j,
         \A i \in 1..Len(q) : q[i] # k
  PROVE  /\ Append(q, k) \in Seq(Tasks) /\ Len(Append(q, k)) = Len(q) + 1
         /\ \A i, j \in 1..Len(Append(q, k)) : Append(q, k)[i] = Append(q, k)[j] => i = j
         /\ \A x : (\E i \in 1..Len(Append(q, k)) : Append(q, k)[i] = x)
                   <=> x = k \/ \E i \in 1..Len(q) : q[i] = x
  <1>1. /\ Append(q, k) \in Seq(Tasks) /\ Len(Append(q, k)) = Len(q) + 1 /\ Len(q) \in Nat
        /\ \A i \in 1..Len(q) : Append(q, k)[i] = q[i]
        /\ Append(q, k)[Len(q) + 1] = k
    OBVIOUS
  <1>2. \A i \in 1..(Len(q) + 1) : i \in 1..Len(q) \/ i = Len(q) + 1
    BY <1>1
  <1>3. QED
    BY <1>1, <1>2

LEMMA Received ==
  ASSUME NEW q \in Seq(Tasks), q # <<>>,
         \A i, j \in 1..Len(q) : q[i] = q[j] => i = j
  PROVE  /\ Tail(q) \in Seq(Tasks) /\ Len(Tail(q)) = Len(q) - 1
         /\ Head(q) \in Tasks /\ \E i \in 1..Len(q) : q[i] = Head(q)
         /\ \A i, j \in 1..Len(Tail(q)) : Tail(q)[i] = Tail(q)[j] => i = j
         /\ \A x : (\E i \in 1..Len(Tail(q)) : Tail(q)[i] = x)
                   <=> x # Head(q) /\ \E i \in 1..Len(q) : q[i] = x
  <1>1. /\ Tail(q) \in Seq(Tasks) /\ Len(Tail(q)) = Len(q) - 1 /\ Len(q) \in Nat /\ Len(q) >= 1
        /\ Head(q) = q[1] /\ Head(q) \in Tasks
        /\ \A i \in 1..(Len(q) - 1) : Tail(q)[i] = q[i + 1]
    OBVIOUS
  <1>2. \A i \in 1..Len(q) : i = 1 \/ (i - 1 \in 1..(Len(q) - 1) /\ (i - 1) + 1 = i)
    BY <1>1
  <1>3. \A i \in 1..(Len(q) - 1) : i + 1 \in 1..Len(q) /\ i + 1 # 1
    BY <1>1
  <1>4. 1 \in 1..Len(q)
    BY <1>1
  <1>5. \A i, j \in 1..Len(Tail(q)) : Tail(q)[i] = Tail(q)[j] => i = j
    <2> SUFFICES ASSUME NEW i \in 1..(Len(q) - 1), NEW j \in 1..(Len(q) - 1), Tail(q)[i] = Tail(q)[j]
                 PROVE  i = j
      BY <1>1
    <2>1. i + 1 = j + 1
      BY <1>1, <1>3
    <2>2. QED
      BY <2>1
  <1>6. ASSUME NEW x, NEW i \in 1..(Len(q) - 1), Tail(q)[i] = x
        PROVE  x # Head(q) /\ \E j \in 1..Len(q) : q[j] = x
    BY <1>1, <1>3, <1>4, <1>6
  <1>7. ASSUME NEW x, x # Head(q), NEW i \in 1..Len(q), q[i] = x
        PROVE  \E j \in 1..(Len(q) - 1) : Tail(q)[j] = x
    <2>1. i - 1 \in 1..(Len(q) - 1) /\ (i - 1) + 1 = i
      BY <1>1, <1>2, <1>7
    <2>2. Tail(q)[i - 1] = x
      BY <1>1, <1>7, <2>1
    <2>3. QED
      BY <2>1, <2>2
  <1>8. QED
    BY <1>1, <1>4, <1>5, <1>6, <1>7

-----------------------------------------------------------------------------
LEMMA NamesApart ==
  /\ None \notin Tasks /\ Stopped \notin Tasks /\ None # Stopped
  /\ Boot \in Tasks /\ Posted \subseteq Tasks /\ Boot \notin Posted
  /\ \A k \in Tasks : k = Boot \/ k \in Posted
  BY GatewayAssumption DEF None, Stopped, Tasks

LEMMA InitEstablishes == Init => IInv
  <1> SUFFICES ASSUME Init PROVE IInv
    OBVIOUS
  <1> USE GatewayAssumption, NamesApart DEF Init
  <1>1. TypeOK
    <2>1. queue \in Seq(Tasks) /\ Len(queue) <= QueueSize
      OBVIOUS
    <2>2. pool \in [Threads -> Tasks \cup {None, Stopped}] /\ request \in [Posted -> RequestStep]
      BY DEF RequestStep
    <2>3. QED
      BY <2>1, <2>2 DEF TypeOK, MainStep
  <1>2. Stages
    BY DEF Stages, InProgress
  <1>3. Places
    BY DEF Places, Queued, Running, Submitted
  <1>4. QED
    BY <1>1, <1>2, <1>3 DEF IInv

(* main, but for what it submits and its end.                              *)
LEMMA MainPreserves ==
  ASSUME IInv, StartPool \/ StartCron \/ RegisterJobs \/ Signal \/ Shutdown \/ CloseCron \/ ClosePool
  PROVE  IInv'
  <1> USE NamesApart DEF IInv, InProgress
  <1>1. /\ UNCHANGED <<request, queue, finished>>
        /\ \A t \in Threads : \A k \in Tasks : pool'[t] = k <=> pool[t] = k
        /\ pool' \in [Threads -> Tasks \cup {None, Stopped}]
    BY DEF StartPool, StartCron, RegisterJobs, Signal, Shutdown, CloseCron, ClosePool, TypeOK, Stages
  <1>2. /\ main' # "exited" /\ main # "exited"
        /\ main' \in {"startPool", "startCron", "register", "submitBoot"}
             <=> main \in {"startPool", "startCron", "register", "submitBoot"}
    BY DEF StartPool, StartCron, RegisterJobs, Signal, Shutdown, CloseCron, ClosePool
  <1>3. TypeOK'
    <2>1. /\ main' \in MainStep /\ registered' \subseteq Durations /\ tickers' \subseteq Durations
          /\ closed' \in BOOLEAN
      BY DEF StartPool, StartCron, RegisterJobs, Signal, Shutdown, CloseCron, ClosePool, TypeOK, MainStep
    <2>2. QED
      BY <1>1, <2>1 DEF TypeOK
  <1>4. Stages'
    BY <1>1 DEF StartPool, StartCron, RegisterJobs, Signal, Shutdown, CloseCron, ClosePool, Stages
  <1>5. Places'
    <2>1. \A k \in Tasks : /\ Running(k)' <=> Running(k)
                           /\ Queued(k)' <=> Queued(k)
                           /\ Submitted(k)' <=> Submitted(k)
      BY <1>1, <1>2 DEF Running, Queued, Submitted
    <2>2. \A s, t \in Threads : pool'[s] \in Tasks /\ pool'[s] = pool'[t] => s = t
      BY <1>1 DEF Places
    <2>3. QED
      BY <1>1, <1>2, <2>1, <2>2 DEF Places
  <1>6. QED
    BY <1>3, <1>4, <1>5

(* A task enters the queue.                                                *)
LEMMA SubmitPreserves ==
  ASSUME IInv, NEW k \in Tasks, Submit(k), ~Submitted(k), Submitted(k)',
         \A x \in Tasks : x # k => (Submitted(x)' <=> Submitted(x)),
         UNCHANGED <<pool, finished>>, main \notin {"exited", "startPool"}, main' \notin {"exited", "startPool"}
  PROVE  /\ queue' \in Seq(Tasks) /\ Len(queue') <= QueueSize
         /\ Places'
         /\ \A x \in Tasks : Queued(x)' <=> x = k \/ Queued(x)
  <1> USE DEF IInv
  <1>1. ~Queued(k) /\ ~Running(k) /\ k \notin finished
    BY DEF Places
  <1>2. queue \in Seq(Tasks) /\ QueueSize \in Nat /\ Len(queue) < QueueSize /\ Len(queue) \in Nat
    BY GatewayAssumption DEF TypeOK, Submit
  <1>3. /\ queue' = Append(queue, k) /\ queue' \in Seq(Tasks) /\ Len(queue') = Len(queue) + 1
        /\ \A i, j \in 1..Len(queue') : queue'[i] = queue'[j] => i = j
        /\ \A x : (\E i \in 1..Len(queue') : queue'[i] = x)
                  <=> x = k \/ \E i \in 1..Len(queue) : queue[i] = x
    <2>1. \A i \in 1..Len(queue) : queue[i] # k
      BY <1>1 DEF Queued
    <2>2. queue' = Append(queue, k)
      BY DEF Submit
    <2>3. QED
      BY <1>2, <2>1, <2>2, Appended DEF Places
  <1>4. \A x \in Tasks : Queued(x)' <=> x = k \/ Queued(x)
    BY <1>3 DEF Queued
  <1>5. \A x \in Tasks : Running(x)' <=> Running(x)
    BY DEF Running
  <1>6. Places'
    BY <1>1, <1>3, <1>4, <1>5 DEF Places
  <1>7. QED
    BY <1>2, <1>3, <1>4, <1>6

LEMMA SubmitBootPreserves ==
  ASSUME IInv, SubmitBoot PROVE IInv' /\ \A x \in Tasks : Queued(x)' <=> x = Boot \/ Queued(x)
  <1> USE NamesApart DEF IInv, SubmitBoot
  <1>1. /\ ~Submitted(Boot) /\ Submitted(Boot)'
        /\ \A x \in Tasks : x # Boot => (Submitted(x)' <=> Submitted(x))
    BY DEF Submitted
  <1>2. /\ queue' \in Seq(Tasks) /\ Len(queue') <= QueueSize /\ Places'
        /\ \A x \in Tasks : Queued(x)' <=> x = Boot \/ Queued(x)
    BY <1>1, SubmitPreserves
  <1>3. TypeOK' /\ Stages'
    BY <1>2 DEF TypeOK, MainStep, Stages, InProgress
  <1>4. QED
    BY <1>2, <1>3

(* The queue takes a task only when it is not closed: what waits in Submit *)
(* when main has closed it would panic.                                    *)
LEMMA AcceptPreserves ==
  ASSUME IInv, NEW k \in Posted, AcceptTask(k)
  PROVE  IInv' /\ \A x \in Tasks : Queued(x)' <=> x = k \/ Queued(x)
  <1> USE NamesApart DEF IInv, AcceptTask, Answer
  <1>0. request' = [request EXCEPT ![k] = "accepted"] /\ request \in [Posted -> RequestStep]
    BY DEF TypeOK
  <1>1. /\ ~Submitted(k) /\ Submitted(k)'
        /\ \A x \in Tasks : x # k => (Submitted(x)' <=> Submitted(x))
    BY <1>0 DEF Submitted
  <1>2. main \in {"serve", "drain"}
    BY DEF Stages, InProgress
  <1>3. /\ queue' \in Seq(Tasks) /\ Len(queue') <= QueueSize /\ Places'
        /\ \A x \in Tasks : Queued(x)' <=> x = k \/ Queued(x)
    BY <1>1, <1>2, SubmitPreserves
  <1>4. TypeOK'
    BY <1>0, <1>3 DEF TypeOK, RequestStep
  <1>5. Stages'
    BY <1>2 DEF Stages
  <1>6. QED
    BY <1>3, <1>4, <1>5

(* A request that is posted or refused, but has submitted nothing yet.     *)
LEMMA AnswerPreserves ==
  ASSUME IInv, NEW k \in Posted, CallLocal(k) \/ Post(k) \/ Refuse(k) PROVE IInv'
  <1> USE NamesApart DEF IInv, CallLocal, Post, Refuse, Answer
  <1>1. /\ request' \in [Posted -> RequestStep]
        /\ \A x \in Posted : request'[x] = "accepted" <=> request[x] = "accepted"
        /\ UNCHANGED <<main, registered, tickers, queue, closed, pool, finished>>
    BY DEF TypeOK, RequestStep
  <1>2. main \in {"serve", "drain"}
    OBVIOUS
  <1>3. TypeOK'
    BY <1>1 DEF TypeOK
  <1>4. Stages'
    BY <1>1, <1>2 DEF Stages
  <1>5. Places'
    BY <1>1 DEF Places, Queued, Running, Submitted
  <1>6. QED
    BY <1>3, <1>4, <1>5

LEMMA StartPreserves ==
  ASSUME IInv, NEW t \in Threads, StartTask(t)
  PROVE  /\ IInv' /\ Head(queue) \in Tasks /\ Queued(Head(queue))
         /\ \A x \in Tasks : /\ Queued(x)' <=> x # Head(queue) /\ Queued(x)
                             /\ Running(x)' <=> x = Head(queue) \/ Running(x)
  <1> USE NamesApart DEF IInv, StartTask
  <1>1. queue \in Seq(Tasks) /\ queue # <<>> /\ Len(queue) \in Nat /\ QueueSize \in Nat /\ Len(queue) <= QueueSize
    BY GatewayAssumption DEF TypeOK
  <1>2. /\ queue' \in Seq(Tasks) /\ Len(queue') = Len(queue) - 1
        /\ Head(queue) \in Tasks /\ Queued(Head(queue))
        /\ \A i, j \in 1..Len(queue') : queue'[i] = queue'[j] => i = j
        /\ \A x : (\E i \in 1..Len(queue') : queue'[i] = x)
                  <=> x # Head(queue) /\ \E i \in 1..Len(queue) : queue[i] = x
    <2>1. \A i, j \in 1..Len(queue) : queue[i] = queue[j] => i = j
      BY DEF Places
    <2>2. queue' = Tail(queue)
      OBVIOUS
    <2>3. /\ Tail(queue) \in Seq(Tasks) /\ Len(Tail(queue)) = Len(queue) - 1
          /\ Head(queue) \in Tasks /\ \E i \in 1..Len(queue) : queue[i] = Head(queue)
          /\ \A i, j \in 1..Len(Tail(queue)) : Tail(queue)[i] = Tail(queue)[j] => i = j
          /\ \A x : (\E i \in 1..Len(Tail(queue)) : Tail(queue)[i] = x)
                    <=> x # Head(queue) /\ \E i \in 1..Len(queue) : queue[i] = x
      <3> HIDE DEF IInv, StartTask
      <3>1. QED
        BY <1>1, <2>1, Received
    <2>4. Queued(Head(queue))
      BY <2>3 DEF Queued
    <2>5. QED
      BY <2>2, <2>3, <2>4
  <1>3. \A x \in Tasks : Queued(x)' <=> x # Head(queue) /\ Queued(x)
    BY <1>2 DEF Queued
  <1>4. /\ pool' \in [Threads -> Tasks \cup {None, Stopped}] /\ pool'[t] = Head(queue)
        /\ \A s \in Threads : s # t => pool'[s] = pool[s]
    BY <1>2 DEF TypeOK
  <1>5. \A x \in Tasks : Running(x)' <=> x = Head(queue) \/ Running(x)
    BY <1>4 DEF Running
  <1>6. ~Running(Head(queue)) /\ Head(queue) \notin finished
    BY <1>2 DEF Places
  <1>7. TypeOK'
    BY <1>1, <1>2, <1>4 DEF TypeOK
  <1>8. Stages'
    BY <1>1 DEF Stages, InProgress
  <1>9. Places'
    <2>1. ASSUME NEW r \in Threads, NEW s \in Threads, pool'[r] \in Tasks, pool'[r] = pool'[s] PROVE r = s
      BY <1>4, <1>6, <2>1 DEF Places, Running
    <2>2. \A x \in Tasks : Submitted(x)' <=> Submitted(x)
      BY DEF Submitted
    <2>3. UNCHANGED <<main, finished>>
      OBVIOUS
    <2>4. QED
      BY <1>2, <1>3, <1>5, <1>6, <2>1, <2>2, <2>3 DEF Places
  <1>q. QED
    BY <1>2, <1>3, <1>5, <1>7, <1>8, <1>9

LEMMA FinishPreserves ==
  ASSUME IInv, NEW t \in Threads, FinishTask(t)
  PROVE  /\ IInv' /\ pool[t] \in Tasks /\ Running(pool[t])
         /\ \A x \in Tasks : Running(x)' <=> x # pool[t] /\ Running(x)
  <1> USE NamesApart DEF IInv, FinishTask
  <1>1. /\ pool' \in [Threads -> Tasks \cup {None, Stopped}] /\ pool'[t] = None
        /\ \A s \in Threads : s # t => pool'[s] = pool[s]
        /\ pool[t] \in Tasks /\ Running(pool[t])
    BY DEF TypeOK, Running
  <1>2. \A x \in Tasks : Running(x)' <=> x # pool[t] /\ Running(x)
    BY <1>1 DEF Running, Places
  <1>3. TypeOK'
    BY <1>1 DEF TypeOK
  <1>4. Stages'
    BY <1>1 DEF Stages, InProgress
  <1>5. Places'
    <2>1. \A x \in Tasks : (Submitted(x)' <=> Submitted(x)) /\ (Queued(x)' <=> Queued(x))
      BY DEF Submitted, Queued
    <2>2. ~Queued(pool[t])
      BY <1>1 DEF Places
    <2>3. \A r, s \in Threads : pool'[r] \in Tasks /\ pool'[r] = pool'[s] => r = s
      BY <1>1 DEF Places
    <2>4. UNCHANGED <<main, queue>>
      OBVIOUS
    <2>5. QED
      BY <1>1, <1>2, <2>1, <2>2, <2>3, <2>4 DEF Places
  <1>6. QED
    BY <1>1, <1>2, <1>3, <1>4, <1>5

LEMMA LeavePreserves ==
  ASSUME IInv, NEW t \in Threads, LeavePool(t)
  PROVE  IInv' /\ \A x \in Tasks : Running(x)' <=> Running(x)
  <1> USE NamesApart DEF IInv, LeavePool
  <1>1. /\ pool' \in [Threads -> Tasks \cup {None, Stopped}]
        /\ pool[t] = None /\ pool'[t] = Stopped /\ \A s \in Threads : s # t => pool'[s] = pool[s]
    BY DEF TypeOK
  <1>2. \A x \in Tasks : /\ Running(x)' <=> Running(x)
                         /\ Queued(x)' <=> Queued(x)
                         /\ Submitted(x)' <=> Submitted(x)
    BY <1>1 DEF Running, Queued, Submitted
  <1>3. TypeOK'
    BY <1>1 DEF TypeOK
  <1>4. Stages'
    BY <1>1 DEF Stages, InProgress
  <1>5. Places'
    <2>1. \A r, s \in Threads : pool'[r] \in Tasks /\ pool'[r] = pool'[s] => r = s
      BY <1>1 DEF Places
    <2>2. UNCHANGED <<main, queue, finished>>
      OBVIOUS
    <2>3. QED
      BY <1>2, <2>1, <2>2 DEF Places
  <1>6. QED
    BY <1>2, <1>3, <1>4, <1>5

LEMMA ExitPreserves ==
  ASSUME IInv, Exit PROVE IInv' /\ \A x \in Tasks : ~Running(x)' /\ ~Queued(x)'
  <1> USE NamesApart DEF IInv, Exit
  <1>1. /\ queue' = <<>> /\ queue' \in Seq(Tasks) /\ Len(queue') = 0
        /\ \A t \in Threads : pool'[t] = Stopped
    OBVIOUS
  <1>2. \A x \in Tasks : ~Running(x)' /\ ~Queued(x)'
    BY <1>1 DEF Running, Queued
  <1>3. TypeOK'
    <2>1. Len(queue') <= QueueSize
      BY <1>1, GatewayAssumption
    <2>2. QED
      BY <1>1, <2>1 DEF TypeOK, MainStep
  <1>4. Stages'
    BY <1>1 DEF Stages, InProgress
  <1>5. Places'
    <2>1. \A x \in Tasks : Submitted(x) => Submitted(x)'
      BY DEF Submitted
    <2>2. \A i, j \in 1..Len(queue') : queue'[i] = queue'[j] => i = j
      BY <1>1
    <2>3. \A r, s \in Threads : pool'[r] \in Tasks /\ pool'[r] = pool'[s] => r = s
      BY <1>1
    <2>4. UNCHANGED finished /\ main' = "exited"
      OBVIOUS
    <2>5. QED
      BY <1>2, <2>1, <2>2, <2>3, <2>4 DEF Places
  <1>6. QED
    BY <1>2, <1>3, <1>4, <1>5

LEMMA StepPreserves ==
  ASSUME IInv, [Next]_vars PROVE IInv'
  <1>1. CASE UNCHANGED vars
    BY <1>1 DEF vars, IInv, TypeOK, Stages, Places, InProgress, Queued, Running, Submitted
  <1>2. CASE MainNext \/ Signal
    BY <1>2, MainPreserves, SubmitBootPreserves, ExitPreserves DEF MainNext
  <1>3. CASE \E k \in Posted : CallLocal(k) \/ RequestNext(k)
    BY <1>3, AnswerPreserves, AcceptPreserves DEF RequestNext
  <1>4. CASE \E t \in Threads : PoolNext(t)
    BY <1>4, StartPreserves, FinishPreserves, LeavePreserves DEF PoolNext
  <1>5. QED
    BY <1>1, <1>2, <1>3, <1>4 DEF Next

LEMMA Inductive == Spec => []IInv
  BY InitEstablishes, StepPreserves, PTL DEF Spec

-----------------------------------------------------------------------------
(***************************************************************************)
(* The refinement: a task that was submitted is accepted, running or       *)
(* finished as its place says, and lost when the process is down.          *)
(***************************************************************************)
LEMMA StatusIs ==
  ASSUME IInv, NEW k \in Tasks
  PROVE  /\ TaskStatus[k] = "running" <=> Running(k)
         /\ TaskStatus[k] = "accepted" <=> Queued(k)
         /\ TaskStatus[k] = "finished" <=> k \in finished
         /\ TaskStatus[k] = "unknown" <=> ~Submitted(k)
         /\ TaskStatus[k] = "lost" <=> Submitted(k) /\ ~Queued(k) /\ ~Running(k) /\ k \notin finished
         /\ TaskStatus[k] \in {"running", "accepted", "finished", "unknown", "lost"}
  <1>1. TaskStatus[k] =
          IF Running(k) THEN "running"
          ELSE IF Queued(k) THEN "accepted"
          ELSE IF k \in finished THEN "finished"
          ELSE IF ~Submitted(k) THEN "unknown"
          ELSE "lost"
    BY NamesApart DEF TaskStatus, Submitted
  <1>2. /\ Queued(k) => ~Running(k) /\ k \notin finished
        /\ Running(k) => k \notin finished
        /\ Queued(k) \/ Running(k) \/ k \in finished => Submitted(k)
    BY DEF IInv, Places
  <1>3. QED
    BY <1>1, <1>2

LEMMA NextStatusIs ==
  ASSUME IInv', NEW k \in Tasks
  PROVE  /\ TaskStatus'[k] = "running" <=> Running(k)'
         /\ TaskStatus'[k] = "accepted" <=> Queued(k)'
         /\ TaskStatus'[k] = "finished" <=> k \in finished'
         /\ TaskStatus'[k] = "unknown" <=> ~Submitted(k)'
         /\ TaskStatus'[k] = "lost" <=> (Submitted(k) /\ ~Queued(k) /\ ~Running(k) /\ k \notin finished)'
  <1>1. TaskStatus'[k] =
          IF Running(k)' THEN "running"
          ELSE IF Queued(k)' THEN "accepted"
          ELSE IF k \in finished' THEN "finished"
          ELSE IF ~Submitted(k)' THEN "unknown"
          ELSE "lost"
    BY NamesApart DEF TaskStatus, Submitted
  <1>2. /\ Queued(k)' => ~Running(k)' /\ k \notin finished'
        /\ Running(k)' => k \notin finished'
        /\ Queued(k)' \/ Running(k)' \/ k \in finished' => Submitted(k)'
    BY DEF IInv, Places
  <1>3. QED
    BY <1>1, <1>2

(* A step moves one task on, or none.                                      *)
LEMMA OneMoves ==
  ASSUME IInv, IInv', NEW k \in Tasks, NEW from, NEW to,
         TaskStatus[k] = from, TaskStatus'[k] = to,
         \A x \in Tasks : x # k => TaskStatus'[x] = TaskStatus[x],
         main # "exited", main' # "exited"
  PROVE  Queue!Move(k, from, to)
  <1>1. TaskStatus' = [TaskStatus EXCEPT ![k] = to]
    BY DEF TaskStatus
  <1>2. QED
    BY <1>1 DEF Queue!Move

LEMMA NoneMoves ==
  ASSUME IInv, IInv', UNCHANGED <<finished, request>>, main' = "exited" <=> main = "exited",
         \A x \in Tasks : /\ Running(x)' <=> Running(x)
                          /\ Queued(x)' <=> Queued(x)
                          /\ Submitted(x)' <=> Submitted(x)
  PROVE  UNCHANGED Queue!vars
  <1>1. \A x \in Tasks : TaskStatus'[x] = TaskStatus[x]
    BY NamesApart DEF TaskStatus, Submitted
  <1>2. TaskStatus' = TaskStatus
    BY <1>1 DEF TaskStatus
  <1>3. QED
    BY <1>2 DEF Queue!vars

LEMMA StepImplements ==
  ASSUME IInv, IInv', [Next]_vars PROVE [Queue!Next]_(Queue!vars)
  <1> USE NamesApart
  <1>1. CASE UNCHANGED vars
    BY <1>1, NoneMoves DEF vars, Running, Queued, Submitted
  <1>2. CASE StartPool \/ StartCron \/ RegisterJobs \/ Signal \/ Shutdown \/ CloseCron \/ ClosePool
    <2>1. /\ UNCHANGED <<request, queue, finished>>
          /\ \A t \in Threads : \A k \in Tasks : pool'[t] = k <=> pool[t] = k
      BY <1>2 DEF StartPool, StartCron, RegisterJobs, Signal, Shutdown, CloseCron, ClosePool,
                  IInv, TypeOK, Stages
    <2>2. /\ main' # "exited" /\ main # "exited"
          /\ \A k \in Tasks : Submitted(k)' <=> Submitted(k)
      BY <1>2, <2>1 DEF StartPool, StartCron, RegisterJobs, Signal, Shutdown, CloseCron, ClosePool, Submitted
    <2>3. \A k \in Tasks : (Running(k)' <=> Running(k)) /\ (Queued(k)' <=> Queued(k))
      BY <2>1 DEF Running, Queued
    <2>4. QED
      BY <2>1, <2>2, <2>3, NoneMoves
  <1>3. CASE SubmitBoot
    <2>1. /\ ~Submitted(Boot) /\ Queued(Boot)'
          /\ main # "exited" /\ main' # "exited"
          /\ \A x \in Tasks : x # Boot => (Queued(x)' <=> Queued(x)) /\ (Submitted(x)' <=> Submitted(x))
          /\ \A x \in Tasks : Running(x)' <=> Running(x)
          /\ UNCHANGED finished
      BY <1>3, SubmitBootPreserves DEF SubmitBoot, Submitted, Running
    <2>2. TaskStatus[Boot] = "unknown" /\ TaskStatus'[Boot] = "accepted"
      BY <2>1, StatusIs, NextStatusIs
    <2>3. \A x \in Tasks : x # Boot => TaskStatus'[x] = TaskStatus[x]
      BY <2>1, StatusIs, NextStatusIs
    <2>4. QED
      BY <2>1, <2>2, <2>3, OneMoves DEF Queue!Next, Queue!Accept
  <1>4. ASSUME NEW k \in Posted, CallLocal(k) \/ Post(k) \/ Refuse(k) PROVE UNCHANGED Queue!vars
    <2>1. /\ request' = [request EXCEPT ![k] = request'[k]] /\ request'[k] # "accepted"
          /\ request \in [Posted -> RequestStep] /\ request[k] # "accepted"
          /\ UNCHANGED <<main, queue, pool, finished>>
      BY <1>4 DEF CallLocal, Post, Refuse, Answer, IInv, TypeOK
    <2>2. \A x \in Tasks : Submitted(x)' <=> Submitted(x)
      BY <2>1 DEF Submitted
    <2>3. \A x \in Tasks : (Running(x)' <=> Running(x)) /\ (Queued(x)' <=> Queued(x))
      BY <2>1 DEF Running, Queued
    <2>4. TaskStatus' = TaskStatus
      <3>1. \A x \in Tasks : TaskStatus'[x] = TaskStatus[x]
        BY <2>1, <2>2, <2>3 DEF TaskStatus, Submitted
      <3>2. QED
        BY <3>1 DEF TaskStatus
    <2>5. QED
      BY <2>1, <2>4 DEF Queue!vars
  <1>5. ASSUME NEW k \in Posted, AcceptTask(k) PROVE Queue!Accept(k)
    <2>1. request' = [request EXCEPT ![k] = "accepted"] /\ request \in [Posted -> RequestStep] /\ request[k] = "submit"
      BY <1>5 DEF AcceptTask, Answer, IInv, TypeOK
    <2>2. /\ ~Submitted(k) /\ Queued(k)'
          /\ main # "exited" /\ main' # "exited"
          /\ \A x \in Tasks : x # k => (Queued(x)' <=> Queued(x)) /\ (Submitted(x)' <=> Submitted(x))
          /\ \A x \in Tasks : Running(x)' <=> Running(x)
          /\ UNCHANGED finished
      BY <1>5, <2>1, AcceptPreserves DEF AcceptTask, Answer, Submitted, Running, IInv, Stages, InProgress
    <2>3. TaskStatus[k] = "unknown" /\ TaskStatus'[k] = "accepted"
      BY <2>2, StatusIs, NextStatusIs
    <2>4. \A x \in Tasks : x # k => TaskStatus'[x] = TaskStatus[x]
      BY <2>2, StatusIs, NextStatusIs
    <2>5. QED
      BY <2>2, <2>3, <2>4, OneMoves DEF Queue!Accept
  <1>6. ASSUME NEW t \in Threads, StartTask(t) PROVE Head(queue) \in Tasks /\ Queue!Start(Head(queue))
    <2>1. PICK k \in Tasks : k = Head(queue)
      BY <1>6, StartPreserves
    <2>2. /\ Queued(k) /\ Running(k)'
          /\ \A x \in Tasks : x # k => (Queued(x)' <=> Queued(x)) /\ (Running(x)' <=> Running(x))
          /\ \A x \in Tasks : Submitted(x)' <=> Submitted(x)
          /\ UNCHANGED finished
      BY <1>6, <2>1, StartPreserves DEF StartTask, Submitted
    <2>3. main # "exited" /\ main' # "exited"
      BY <1>6 DEF StartTask, IInv, Stages
    <2>4. TaskStatus[k] = "accepted" /\ TaskStatus'[k] = "running"
      BY <2>2, StatusIs, NextStatusIs
    <2>5. \A x \in Tasks : x # k => TaskStatus'[x] = TaskStatus[x]
      BY <2>2, StatusIs, NextStatusIs
    <2>6. QED
      BY <2>1, <2>3, <2>4, <2>5, OneMoves DEF Queue!Start
  <1>7. ASSUME NEW t \in Threads, FinishTask(t) PROVE pool[t] \in Tasks /\ Queue!Finish(pool[t])
    <2>1. PICK k \in Tasks : k = pool[t]
      BY <1>7, FinishPreserves
    <2>2. /\ Running(k) /\ ~Running(k)' /\ finished' = finished \cup {k}
          /\ \A x \in Tasks : x # k => (Running(x)' <=> Running(x))
          /\ \A x \in Tasks : (Submitted(x)' <=> Submitted(x)) /\ (Queued(x)' <=> Queued(x))
      BY <1>7, <2>1, FinishPreserves DEF FinishTask, Submitted, Queued
    <2>3. main # "exited" /\ main' # "exited"
      BY <1>7, <2>1, NamesApart DEF FinishTask, IInv, Stages
    <2>4. TaskStatus[k] = "running" /\ TaskStatus'[k] = "finished"
      BY <2>2, StatusIs, NextStatusIs
    <2>5. \A x \in Tasks : x # k => TaskStatus'[x] = TaskStatus[x]
      BY <2>2, StatusIs, NextStatusIs
    <2>6. QED
      BY <2>1, <2>3, <2>4, <2>5, OneMoves DEF Queue!Finish
  <1>8. ASSUME NEW t \in Threads, LeavePool(t) PROVE UNCHANGED Queue!vars
    <2>1. /\ UNCHANGED <<main, request, queue, finished>>
          /\ \A x \in Tasks : Running(x)' <=> Running(x)
      BY <1>8, LeavePreserves DEF LeavePool
    <2>2. \A x \in Tasks : (Submitted(x)' <=> Submitted(x)) /\ (Queued(x)' <=> Queued(x))
      BY <2>1 DEF Submitted, Queued
    <2>3. QED
      BY <2>1, <2>2, NoneMoves
  <1>9. CASE Exit
    <2>1. /\ UNCHANGED finished /\ main = "exit" /\ main' = "exited"
          /\ \A x \in Tasks : Submitted(x)' <=> Submitted(x)
          /\ \A x \in Tasks : ~Running(x)' /\ ~Queued(x)'
      BY <1>9, ExitPreserves DEF Exit, Submitted
    <2>2. \A x \in Tasks :
            TaskStatus'[x] = IF TaskStatus[x] \in {"accepted", "running"} THEN "lost" ELSE TaskStatus[x]
      <3> SUFFICES ASSUME NEW x \in Tasks
                   PROVE  TaskStatus'[x] = IF TaskStatus[x] \in {"accepted", "running"} THEN "lost" ELSE TaskStatus[x]
        OBVIOUS
      <3>1. CASE Running(x) \/ Queued(x)
        <4>1. Submitted(x) /\ x \notin finished
          BY <3>1 DEF IInv, Places
        <4>2. QED
          BY <2>1, <3>1, <4>1, StatusIs, NextStatusIs
      <3>2. CASE ~Running(x) /\ ~Queued(x)
        BY <2>1, <3>2, StatusIs, NextStatusIs
      <3>3. QED
        BY <3>1, <3>2
    <2>3. TaskStatus' = [x \in Tasks |-> IF TaskStatus[x] \in {"accepted", "running"} THEN "lost" ELSE TaskStatus[x]]
      BY <2>2 DEF TaskStatus
    <2>4. QED
      BY <2>1, <2>3 DEF Queue!Next, Queue!Exit
  <1>q. QED
    BY <1>1, <1>2, <1>3, <1>4, <1>5, <1>6, <1>7, <1>8, <1>9
    DEF Next, MainNext, RequestNext, PoolNext, Queue!Next

-----------------------------------------------------------------------------
(* Every variable keeps its type; the queue never holds more than its      *)
(* capacity.                                                               *)
THEOREM TypeCorrect == Spec => []TypeOK
  <1>1. IInv => TypeOK
    BY DEF IInv
  <1>2. QED
    BY <1>1, Inductive, PTL

(* main closes the queue only after srv.Shutdown has waited for every      *)
(* handler, whatever number of handlers wait in Submit: none sends on a    *)
(* closed channel.                                                         *)
THEOREM NeverSendsOnClosed == Spec => []NoSendOnClosed
  <1>1. IInv => NoSendOnClosed
    BY DEF IInv, Stages, NoSendOnClosed
  <1>2. QED
    BY <1>1, Inductive, PTL

(* The gateway implements TaskQueue: a task that was accepted is run at    *)
(* most once, and nothing but the end of the process loses it.             *)
THEOREM Implements == Spec => ImplementsTaskQueue
  <1>1. Init => Queue!Init
    <2> SUFFICES ASSUME Init PROVE Queue!Init
      OBVIOUS
    <2>1. \A k \in Tasks : ~Running(k) /\ ~Queued(k) /\ k \notin finished
      BY NamesApart DEF Init, Running, Queued
    <2>2. \A k \in Tasks : TaskStatus[k] = "unknown"
      BY <2>1, NamesApart DEF TaskStatus, Init
    <2>3. TaskStatus = [k \in Tasks |-> "unknown"]
      BY <2>2 DEF TaskStatus
    <2>4. QED
      BY <2>3 DEF Init, Queue!Init
  <1>2. QED
    BY <1>1, StepImplements, Inductive, PTL DEF Spec, ImplementsTaskQueue, Queue!Spec

-----------------------------------------------------------------------------
(***************************************************************************)
(* The pool of connections (UserDBPool) that the jobs and the handlers of  *)
(* this process share: theorems for any number of users and callers and    *)
(* every size of the pool.                                                 *)
(***************************************************************************)
(* No two users share a handle.                                            *)
Alone == \A u, v \in Users : userDBs[u] # Nil /\ userDBs[u] = userDBs[v] => u = v

(* Where a caller is, and what it knows: the one that holds the lock has   *)
(* made room for its user, and one that has read a handle without the lock *)
(* knows that it is its user's or nobody's any more.                       *)
Turns ==
  \A c \in Callers :
    /\ pc[c] \in {"check", "evict", "connect"} <=> lock = c
    /\ pc[c] # "idle" => user[c] \in Users
    /\ pc[c] \in {"ping", "touch"} =>
         db[c] \in Handles /\ \A u \in Users : userDBs[u] = db[c] => u = user[c]
    /\ pc[c] \in {"evict", "connect"} => userDBs[user[c]] = Nil
    /\ pc[c] = "connect" => Len(lruList) < PoolSize

UserDBInv == UserDBTypeOK /\ MapAndListAgree /\ OpenExactlyPooled /\ Alone /\ Turns

-----------------------------------------------------------------------------
(***************************************************************************)
(* Lists without two elements of one user.                                 *)
(***************************************************************************)
Has(list, e) == \E i \in 1..Len(list) : list[i] = e
Distinct(list) == \A i, j \in 1..Len(list) : list[i].uid = list[j].uid => i = j

LEMMA Removed ==
  ASSUME NEW list \in Seq(Element), Distinct(list), NEW p \in 1..Len(list),
         NEW short, short = SubSeq(list, 1, p - 1) \o SubSeq(list, p + 1, Len(list))
  PROVE  /\ short \in Seq(Element) /\ Len(short) = Len(list) - 1 /\ Distinct(short)
         /\ \A e : Has(short, e) <=> Has(list, e) /\ e # list[p]
  <1> DEFINE left == SubSeq(list, 1, p - 1)
             right == SubSeq(list, p + 1, Len(list))
  <1>1. Len(list) \in Nat /\ p \in Int /\ 1 <= p /\ p <= Len(list) /\ \A i \in 1..Len(list) : list[i] \in Element
    OBVIOUS
  <1>2. /\ left \in Seq(Element) /\ Len(left) = p - 1
        /\ \A i \in 1..(p - 1) : left[i] = list[i]
    <2>1. /\ SubSeq(list, 1, p - 1) \in Seq(Element)
          /\ Len(SubSeq(list, 1, p - 1)) = IF 1 <= p - 1 THEN (p - 1) - 1 + 1 ELSE 0
          /\ \A i \in 1..((p - 1) - 1 + 1) : SubSeq(list, 1, p - 1)[i] = list[1 + i - 1]
      BY <1>1, SubSeqProperties
    <2>2. QED
      BY <1>1, <2>1
  <1>3. /\ right \in Seq(Element) /\ Len(right) = Len(list) - p
        /\ \A i \in 1..(Len(list) - p) : right[i] = list[p + i]
    <2>1. /\ SubSeq(list, p + 1, Len(list)) \in Seq(Element)
          /\ Len(SubSeq(list, p + 1, Len(list))) = IF p + 1 <= Len(list) THEN Len(list) - (p + 1) + 1 ELSE 0
          /\ \A i \in 1..(Len(list) - (p + 1) + 1) : SubSeq(list, p + 1, Len(list))[i] = list[(p + 1) + i - 1]
      BY <1>1, SubSeqProperties
    <2>2. QED
      BY <1>1, <2>1
  <1> HIDE DEF left, right
  <1>4. /\ short \in Seq(Element) /\ Len(short) = Len(list) - 1
        /\ \A i \in 1..(Len(list) - 1) : short[i] = IF i < p THEN list[i] ELSE list[i + 1]
    <2>1. /\ left \o right \in Seq(Element) /\ Len(left \o right) = Len(left) + Len(right)
          /\ \A i \in 1..(Len(left) + Len(right)) :
               (left \o right)[i] = IF i <= Len(left) THEN left[i] ELSE right[i - Len(left)]
      BY <1>2, <1>3, ConcatProperties
    <2>2. short = left \o right /\ Len(left) + Len(right) = Len(list) - 1
      <3>1. short = left \o right
        BY DEF left, right
      <3>2. (p - 1) + (Len(list) - p) = Len(list) - 1
        BY <1>1
      <3>3. QED
        BY <1>2, <1>3, <3>1, <3>2
    <2>3. /\ short \in Seq(Element) /\ Len(short) = Len(list) - 1
          /\ \A i \in 1..(Len(list) - 1) : short[i] = IF i <= p - 1 THEN left[i] ELSE right[i - (p - 1)]
      BY <1>2, <2>1, <2>2
    <2>4. ASSUME NEW i \in 1..(Len(list) - 1) PROVE short[i] = IF i < p THEN list[i] ELSE list[i + 1]
      <3>1. CASE i < p
        <4>1. i <= p - 1 /\ i \in 1..(p - 1)
          BY <1>1, <3>1
        <4>2. QED
          BY <1>2, <2>3, <3>1, <4>1
      <3>2. CASE ~(i < p)
        <4>1. i - (p - 1) \in 1..(Len(list) - p) /\ p + (i - (p - 1)) = i + 1 /\ ~(i <= p - 1)
          BY <1>1, <3>2
        <4>2. short[i] = right[i - (p - 1)]
          BY <2>3, <4>1
        <4>3. right[i - (p - 1)] = list[p + (i - (p - 1))]
          BY <1>3, <4>1
        <4>4. QED
          BY <3>2, <4>1, <4>2, <4>3
      <3>3. QED
        BY <3>1, <3>2
    <2>5. QED
      BY <2>3, <2>4
  <1>6. ASSUME NEW i \in 1..(Len(list) - 1)
        PROVE  \E j \in 1..Len(list) : j = (IF i < p THEN i ELSE i + 1) /\ j # p /\ short[i] = list[j]
    <2>1. CASE i < p
      <3>1. i \in 1..Len(list) /\ i # p
        BY <1>1, <2>1
      <3>2. QED
        BY <1>4, <2>1, <3>1
    <2>2. CASE ~(i < p)
      <3>1. i + 1 \in 1..Len(list) /\ i + 1 # p
        BY <1>1, <2>2
      <3>2. QED
        BY <1>4, <2>2, <3>1
    <2>3. QED
      BY <2>1, <2>2
  <1>5. Distinct(short)
    <2> SUFFICES ASSUME NEW i \in 1..(Len(list) - 1), NEW j \in 1..(Len(list) - 1), short[i].uid = short[j].uid
                 PROVE  i = j
      BY <1>4 DEF Distinct
    <2>1. (IF i < p THEN i ELSE i + 1) = (IF j < p THEN j ELSE j + 1)
      <3>1. PICK k \in 1..Len(list) : k = (IF i < p THEN i ELSE i + 1) /\ short[i] = list[k]
        BY <1>6
      <3>2. PICK m \in 1..Len(list) : m = (IF j < p THEN j ELSE j + 1) /\ short[j] = list[m]
        BY <1>6
      <3>3. k = m
        BY <3>1, <3>2 DEF Distinct
      <3>4. QED
        BY <3>1, <3>2, <3>3
    <2>2. QED
      BY <1>1, <2>1
  <1>7. ASSUME NEW j \in 1..Len(list), list[j] # list[p]
        PROVE  Has(short, list[j])
    <2>1. CASE j < p
      <3>1. j \in 1..(Len(list) - 1)
        BY <1>1, <2>1
      <3>2. QED
        BY <1>4, <2>1, <3>1 DEF Has
    <2>2. CASE j > p
      <3>1. j - 1 \in 1..(Len(list) - 1) /\ ~(j - 1 < p) /\ (j - 1) + 1 = j
        BY <1>1, <2>2
      <3>2. QED
        BY <1>4, <3>1 DEF Has
    <2>3. QED
      BY <1>1, <1>7, <2>1, <2>2
  <1>8. ASSUME NEW i \in 1..(Len(list) - 1) PROVE Has(list, short[i]) /\ short[i] # list[p]
    <2>1. PICK j \in 1..Len(list) : j # p /\ short[i] = list[j]
      BY <1>6
    <2>2. list[j] # list[p]
      BY <2>1 DEF Distinct
    <2>3. QED
      BY <2>1, <2>2 DEF Has
  <1>9. QED
    BY <1>4, <1>5, <1>7, <1>8 DEF Has

LEMMA Pushed ==
  ASSUME NEW list \in Seq(Element), Distinct(list), NEW e \in Element,
         \A f : Has(list, f) => f.uid # e.uid,
         NEW long, long = <<e>> \o list
  PROVE  /\ long \in Seq(Element) /\ Len(long) = Len(list) + 1 /\ Distinct(long)
         /\ \A f : Has(long, f) <=> f = e \/ Has(list, f)
  <1>1. /\ long \in Seq(Element) /\ Len(long) = Len(list) + 1 /\ Len(list) \in Nat
        /\ \A i \in 1..(Len(list) + 1) : long[i] = IF i = 1 THEN e ELSE list[i - 1]
    <2>1. <<e>> \in Seq(Element) /\ Len(<<e>>) = 1 /\ <<e>>[1] = e /\ Len(list) \in Nat
      OBVIOUS
    <2>2. /\ long \in Seq(Element) /\ Len(long) = 1 + Len(list)
          /\ \A i \in 1..(1 + Len(list)) : long[i] = IF i <= 1 THEN <<e>>[i] ELSE list[i - 1]
      BY <2>1, ConcatProperties
    <2>3. QED
      BY <2>1, <2>2
  <1>2. \A i \in 1..(Len(list) + 1) : i = 1 \/ (i - 1 \in 1..Len(list) /\ i # 1)
    BY <1>1
  <1>3. \A i \in 1..Len(list) : i + 1 \in 1..(Len(list) + 1) /\ i + 1 # 1 /\ (i + 1) - 1 = i
    BY <1>1
  <1>4. \A f : Has(long, f) <=> f = e \/ Has(list, f)
    <2>1. ASSUME NEW i \in 1..Len(list) PROVE Has(long, list[i])
      <3>1. i + 1 \in 1..Len(long) /\ long[i + 1] = list[i]
        BY <1>1, <1>3
      <3>2. QED
        BY <3>1 DEF Has
    <2>2. Has(long, e)
      <3>1. 1 \in 1..(Len(list) + 1)
        BY <1>1
      <3>2. QED
        BY <1>1, <3>1 DEF Has
    <2>3. ASSUME NEW i \in 1..(Len(list) + 1) PROVE long[i] = e \/ Has(list, long[i])
      BY <1>1, <1>2 DEF Has
    <2>4. QED
      BY <1>1, <2>1, <2>2, <2>3 DEF Has
  <1>5. Distinct(long)
    <2> SUFFICES ASSUME NEW i \in 1..(Len(list) + 1), NEW j \in 1..(Len(list) + 1), long[i].uid = long[j].uid
                 PROVE  i = j
      BY <1>1 DEF Distinct
    <2>1. \A k \in 1..Len(list) : list[k].uid # e.uid
      BY DEF Has
    <2>2. CASE i # 1 /\ j # 1
      <3>1. i - 1 = j - 1
        <4>1. /\ i - 1 \in 1..Len(list) /\ j - 1 \in 1..Len(list)
              /\ list[i - 1].uid = list[j - 1].uid
          BY <1>1, <1>2, <2>2
        <4>2. QED
          BY <4>1 DEF Distinct
      <3>2. QED
        BY <3>1
    <2>3. QED
      BY <1>1, <1>2, <2>1, <2>2
  <1>6. QED
    BY <1>1, <1>4, <1>5

LEMMA Shortened ==
  ASSUME NEW list \in Seq(Element), Distinct(list), NEW n \in Nat, Len(list) = n + 1
  PROVE  \E short \in Seq(Element) :
           /\ short = SubSeq(list, 1, n) /\ Len(short) = n /\ Distinct(short)
           /\ \A e : Has(short, e) <=> Has(list, e) /\ e # list[n + 1]
  <1>1. \A i \in 1..(n + 1) : list[i] \in Element
    OBVIOUS
  <1>2. PICK short \in Seq(Element) :
          short = SubSeq(list, 1, n) /\ Len(short) = n /\ \A i \in 1..n : short[i] = list[i]
    <2>1. /\ SubSeq(list, 1, n) \in Seq(Element)
          /\ Len(SubSeq(list, 1, n)) = IF 1 <= n THEN n - 1 + 1 ELSE 0
          /\ \A i \in 1..(n - 1 + 1) : SubSeq(list, 1, n)[i] = list[1 + i - 1]
      <3>1. 1 \in Int /\ n \in Int /\ \A i \in 1..n : list[i] \in Element
        BY <1>1
      <3>2. QED
        BY <3>1, SubSeqProperties
    <2>2. n - 1 + 1 = n
      OBVIOUS
    <2>3. Len(SubSeq(list, 1, n)) = n
      BY <2>1
    <2>4. ASSUME NEW i \in 1..n PROVE SubSeq(list, 1, n)[i] = list[i]
      <3>1. i \in 1..(n - 1 + 1) /\ 1 + i - 1 = i
        OBVIOUS
      <3>2. QED
        BY <2>1, <3>1
    <2>5. QED
      BY <2>1, <2>3, <2>4
  <1>3. \A i \in 1..(n + 1) : i = n + 1 \/ i \in 1..n
    OBVIOUS
  <1>4. /\ \A i \in 1..n : i \in 1..(n + 1) /\ i # n + 1
        /\ n + 1 \in 1..(n + 1)
    OBVIOUS
  <1>5. Distinct(short)
    BY <1>2, <1>4 DEF Distinct
  <1>6. ASSUME NEW i \in 1..n PROVE list[i] # list[n + 1]
    BY <1>4 DEF Distinct
  <1>7. ASSUME NEW e PROVE Has(short, e) <=> Has(list, e) /\ e # list[n + 1]
    <2>1. ASSUME Has(short, e) PROVE Has(list, e) /\ e # list[n + 1]
      <3>1. PICK i \in 1..n : e = list[i]
        BY <1>2, <2>1 DEF Has
      <3>2. QED
        BY <1>4, <1>6, <3>1 DEF Has
    <2>2. ASSUME Has(list, e), e # list[n + 1] PROVE Has(short, e)
      <3>1. PICK i \in 1..(n + 1) : e = list[i]
        BY <2>2 DEF Has
      <3>2. i \in 1..n
        BY <1>3, <2>2, <3>1
      <3>3. QED
        BY <1>2, <3>1, <3>2 DEF Has
    <2>3. QED
      BY <2>1, <2>2
  <1>8. QED
    BY <1>2, <1>5, <1>7

-----------------------------------------------------------------------------
(***************************************************************************)
(* The map and the list.                                                   *)
(***************************************************************************)
LEMMA Listed ==
  ASSUME UserDBTypeOK, MapAndListAgree
  PROVE  /\ lruList \in Seq(Element) /\ Distinct(lruList)
         /\ Len(lruList) \in Nat /\ Len(lruList) <= PoolSize /\ PoolSize \in Nat \ {0}
         /\ \A e : Has(lruList, e) =>
              e \in Element /\ e = ElementOf(e.uid, e.handle) /\ e.uid \in Pooled /\ userDBs[e.uid] = e.handle
         /\ \A u \in Pooled : Has(lruList, ElementOf(u, userDBs[u]))
  <1>1. /\ lruList \in Seq(Element) /\ Distinct(lruList) /\ Len(lruList) \in Nat /\ Len(lruList) <= PoolSize
        /\ PoolSize \in Nat \ {0}
    BY PoolAssumption DEF UserDBTypeOK, MapAndListAgree, Distinct
  <1>2. \A e \in Element : e.uid \in Users /\ e.handle \in Handles /\ e.handle # Nil /\ e = ElementOf(e.uid, e.handle)
    BY PoolAssumption DEF Element, ElementOf
  <1>3. ASSUME NEW e, Has(lruList, e)
        PROVE  e \in Element /\ e = ElementOf(e.uid, e.handle) /\ e.uid \in Pooled /\ userDBs[e.uid] = e.handle
    <2>1. PICK i \in 1..Len(lruList) : lruList[i] = e
      BY <1>3 DEF Has
    <2>2. e \in Element /\ userDBs[e.uid] = e.handle
      BY <1>1, <2>1 DEF MapAndListAgree
    <2>3. QED
      BY <1>2, <2>2 DEF Pooled
  <1>4. ASSUME NEW u \in Pooled PROVE Has(lruList, ElementOf(u, userDBs[u]))
    <2>1. PICK i \in 1..Len(lruList) : lruList[i].uid = u
      BY DEF MapAndListAgree
    <2>2. lruList[i] \in Element /\ userDBs[lruList[i].uid] = lruList[i].handle
      BY <1>1, <2>1 DEF MapAndListAgree
    <2>3. lruList[i] = ElementOf(u, userDBs[u])
      BY <1>2, <2>1, <2>2
    <2>4. QED
      BY <2>3 DEF Has
  <1>5. QED
    BY <1>1, <1>3, <1>4

LEMMA AgreesAgain ==
  ASSUME lruList' \in Seq(Element), Distinct(lruList'), Len(lruList') <= PoolSize,
         \A e : Has(lruList', e) => userDBs'[e.uid] = e.handle,
         \A u \in Users : userDBs'[u] # Nil => Has(lruList', ElementOf(u, userDBs'[u]))
  PROVE  MapAndListAgree'
  <1>1. \A i \in 1..Len(lruList') : userDBs'[lruList'[i].uid] = lruList'[i].handle
    BY DEF Has
  <1>2. ASSUME NEW u \in Pooled' PROVE \E i \in 1..Len(lruList') : lruList'[i].uid = u
    <2>1. u \in Users /\ userDBs'[u] # Nil
      BY DEF Pooled
    <2>2. PICK i \in 1..Len(lruList') : lruList'[i] = ElementOf(u, userDBs'[u])
      BY <2>1 DEF Has
    <2>3. QED
      BY <2>2 DEF ElementOf
  <1>3. QED
    BY <1>1, <1>2 DEF MapAndListAgree, Distinct

(* list.Remove takes out the element of the handle.                        *)
LEMMA WithoutHandle ==
  ASSUME UserDBTypeOK, MapAndListAgree, NEW h \in Handles, InList(h)
  PROVE  \E e : /\ Has(lruList, e) /\ e.handle = h
                /\ Without(h) \in Seq(Element) /\ Len(Without(h)) = Len(lruList) - 1
                /\ Distinct(Without(h))
                /\ \A f : Has(Without(h), f) <=> Has(lruList, f) /\ f # e
  <1>1. PICK at \in 1..Len(lruList) :
          /\ at = (CHOOSE i \in 1..Len(lruList) : lruList[i].handle = h)
          /\ lruList[at].handle = h
    BY DEF InList
  <1>2. Without(h) = SubSeq(lruList, 1, at - 1) \o SubSeq(lruList, at + 1, Len(lruList))
    BY <1>1 DEF Without
  <1>3. /\ Without(h) \in Seq(Element) /\ Len(Without(h)) = Len(lruList) - 1 /\ Distinct(Without(h))
        /\ \A f : Has(Without(h), f) <=> Has(lruList, f) /\ f # lruList[at]
    BY <1>2, Listed, Removed
  <1>4. Has(lruList, lruList[at])
    BY DEF Has
  <1>5. QED
    BY <1>1, <1>3, <1>4

(* list.MoveToFront changes nothing but the order.                         *)
LEMMA MovedToFront ==
  ASSUME UserDBTypeOK, MapAndListAgree, NEW u \in Users, NEW h \in Handles,
         \A v \in Users : userDBs[v] = h => v = u, MoveToFront(u, h)
  PROVE  /\ lruList' \in Seq(Element) /\ Len(lruList') = Len(lruList) /\ Distinct(lruList')
         /\ \A f : Has(lruList', f) <=> Has(lruList, f)
  <1>1. CASE ~InList(h)
    BY <1>1, Listed DEF MoveToFront
  <1>2. CASE InList(h)
    <2>1. PICK e : /\ Has(lruList, e) /\ e.handle = h
                   /\ Without(h) \in Seq(Element) /\ Len(Without(h)) = Len(lruList) - 1
                   /\ Distinct(Without(h))
                   /\ \A f : Has(Without(h), f) <=> Has(lruList, f) /\ f # e
      BY <1>2, WithoutHandle
    <2>2. e \in Element /\ e = ElementOf(e.uid, h) /\ e.uid = u
      BY <2>1, Listed DEF Pooled
    <2>3. e = ElementOf(u, h)
      BY <2>2
    <2>4. \A f : Has(Without(h), f) => f.uid # e.uid
      <3>1. ASSUME NEW f, Has(lruList, f), f.uid = e.uid PROVE f = e
        BY <2>1, <3>1, Listed DEF Has, Distinct
      <3>2. QED
        BY <2>1, <3>1
    <2>5. lruList' = <<e>> \o Without(h)
      BY <1>2, <2>3 DEF MoveToFront
    <2>6. /\ lruList' \in Seq(Element) /\ Len(lruList') = Len(Without(h)) + 1 /\ Distinct(lruList')
          /\ \A f : Has(lruList', f) <=> f = e \/ Has(Without(h), f)
      BY <2>1, <2>2, <2>4, <2>5, Pushed
    <2>7. Len(lruList') = Len(lruList)
      BY <2>1, <2>6, Listed
    <2>8. QED
      BY <2>1, <2>6, <2>7
  <1>3. QED
    BY <1>1, <1>2

(* list.Back is an element, and SubSeq leaves out no other.                *)
LEMMA LastDropped ==
  ASSUME UserDBTypeOK, MapAndListAgree, lruList # <<>>
  PROVE  \E short \in Seq(Element) :
           /\ short = SubSeq(lruList, 1, Len(lruList) - 1) /\ Len(short) = Len(lruList) - 1
           /\ Distinct(short)
           /\ \A f : Has(short, f) <=> Has(lruList, f) /\ f # lruList[Len(lruList)]
  <1>1. lruList \in Seq(Element) /\ Distinct(lruList)
    BY Listed
  <1>2. PICK n \in Nat : Len(lruList) = n + 1 /\ n = Len(lruList) - 1
    BY <1>1
  <1>3. PICK short \in Seq(Element) :
          /\ short = SubSeq(lruList, 1, n) /\ Len(short) = n /\ Distinct(short)
          /\ \A f : Has(short, f) <=> Has(lruList, f) /\ f # lruList[n + 1]
    BY <1>1, <1>2, Shortened
  <1>4. QED
    BY <1>2, <1>3

(* The instance has the Cardinality of FiniteSets.                         *)
(* The list is as long as the map.                                         *)
LEMMA ListCountsMap ==
  ASSUME UserDBTypeOK, MapAndListAgree PROVE Cardinality(Pooled) = Len(lruList)
  <1> DEFINE f == [i \in 1..Len(lruList) |-> lruList[i].uid]
  <1>1. Len(lruList) \in Nat
    BY Listed
  <1>2. f \in [1..Len(lruList) -> Pooled]
    BY Listed DEF Has
  <1>3. \A i, j \in 1..Len(lruList) : f[i] = f[j] => i = j
    BY Listed DEF Distinct
  <1>4. \A u \in Pooled : \E i \in 1..Len(lruList) : f[i] = u
    BY DEF MapAndListAgree
  <1>5. f \in Bijection(1..Len(lruList), Pooled)
    BY <1>2, <1>3, <1>4 DEF Bijection, Injection, IsInjective, Surjection
  <1>6. ExistsBijection(1..Len(lruList), Pooled)
    BY <1>5 DEF ExistsBijection
  <1>7. QED
    BY <1>1, <1>6, FS_CountingElements

-----------------------------------------------------------------------------
LEMMA UserDBInitEstablishes == UserDBInit => UserDBInv
  <1> SUFFICES ASSUME UserDBInit PROVE UserDBInv
    OBVIOUS
  <1> USE PoolAssumption DEF UserDBInit
  <1>1. lruList \in Seq(Element) /\ Len(lruList) = 0
    OBVIOUS
  <1>2. UserDBTypeOK
    BY <1>1 DEF UserDBTypeOK, Step
  <1>3. MapAndListAgree
    BY <1>1 DEF MapAndListAgree, Pooled
  <1>4. OpenExactlyPooled /\ Alone
    BY DEF OpenExactlyPooled, Pooled, Alone
  <1>5. Turns
    BY DEF Turns
  <1>6. QED
    BY <1>2, <1>3, <1>4, <1>5 DEF UserDBInv

(* What a caller does to itself; the rest of the state stays.              *)
LEMMA PoolKept ==
  ASSUME UserDBInv, UNCHANGED <<userDBs, lruList, open, down>>
  PROVE  MapAndListAgree' /\ OpenExactlyPooled' /\ Alone'
  BY DEF UserDBInv, MapAndListAgree, OpenExactlyPooled, Alone, Pooled

LEMMA CallerTypes ==
  ASSUME UserDBInv, NEW c \in Callers
  PROVE  /\ user[c] \in Users \cup {Nil} /\ db[c] \in Handles \cup {Nil} /\ c # Nil
         /\ pc \in [Callers -> Step] /\ user \in [Callers -> Users \cup {Nil}]
         /\ db \in [Callers -> Handles \cup {Nil}] /\ userDBs \in [Users -> Handles \cup {Nil}]
         /\ Nil \notin Users /\ Nil \notin Handles
  BY PoolAssumption DEF UserDBInv, UserDBTypeOK

LEMMA LookupPreserves ==
  ASSUME UserDBInv, NEW c \in Callers, NEW u \in Users, Lookup(c, u) PROVE UserDBInv'
  <1> USE CallerTypes DEF Lookup, Goto, poolVars
  <1>1. MapAndListAgree' /\ OpenExactlyPooled' /\ Alone'
    BY PoolKept
  <1>2. /\ pc' \in [Callers -> Step] /\ user' \in [Callers -> Users \cup {Nil}]
        /\ db' \in [Callers -> Handles \cup {Nil}]
        /\ pc'[c] = (IF userDBs[u] = Nil THEN "lock" ELSE "ping")
        /\ user'[c] = u /\ db'[c] = userDBs[u]
        /\ \A d \in Callers : d # c => pc'[d] = pc[d] /\ user'[d] = user[d] /\ db'[d] = db[d]
    BY DEF Step
  <1>3. UserDBTypeOK'
    BY <1>2 DEF UserDBInv, UserDBTypeOK
  <1>4. Turns'
    <2>1. \A v \in Users : userDBs[v] = userDBs[u] /\ userDBs[u] # Nil => v = u
      BY DEF UserDBInv, Alone
    <2>2. QED
      BY <1>2, <2>1 DEF UserDBInv, Turns
  <1>5. QED
    BY <1>1, <1>3, <1>4 DEF UserDBInv

LEMMA PingPreserves ==
  ASSUME UserDBInv, NEW c \in Callers, Ping(c) PROVE UserDBInv'
  <1> USE CallerTypes DEF Ping, Goto, poolVars
  <1>1. MapAndListAgree' /\ OpenExactlyPooled' /\ Alone'
    BY PoolKept
  <1>2. /\ pc' \in [Callers -> Step] /\ db' \in [Callers -> Handles \cup {Nil}]
        /\ pc'[c] = "lock" \/ (pc'[c] = "touch" /\ db'[c] = db[c])
        /\ \A d \in Callers : d # c => pc'[d] = pc[d] /\ db'[d] = db[d]
    BY DEF Step
  <1>3. UserDBTypeOK'
    BY <1>2 DEF UserDBInv, UserDBTypeOK
  <1>4. Turns'
    BY <1>2 DEF UserDBInv, Turns
  <1>5. QED
    BY <1>1, <1>3, <1>4 DEF UserDBInv

LEMMA LockPreserves ==
  ASSUME UserDBInv, NEW c \in Callers, Lock(c) PROVE UserDBInv'
  <1> USE CallerTypes DEF Lock, Goto, poolVars
  <1>1. MapAndListAgree' /\ OpenExactlyPooled' /\ Alone'
    BY PoolKept
  <1>2. /\ pc' \in [Callers -> Step] /\ pc'[c] = "check" /\ lock' = c
        /\ \A d \in Callers : d # c => pc'[d] = pc[d]
    BY DEF Step
  <1>3. UserDBTypeOK'
    BY <1>2 DEF UserDBInv, UserDBTypeOK
  <1>4. Turns'
    BY <1>2 DEF UserDBInv, Turns
  <1>5. QED
    BY <1>1, <1>3, <1>4 DEF UserDBInv

LEMMA ReleasePreserves ==
  ASSUME UserDBInv, NEW c \in Callers, Release(c) PROVE UserDBInv'
  <1> USE CallerTypes DEF Release, Goto, poolVars
  <1>1. MapAndListAgree' /\ OpenExactlyPooled' /\ Alone'
    BY PoolKept
  <1>2. /\ pc' \in [Callers -> Step] /\ user' \in [Callers -> Users \cup {Nil}]
        /\ db' \in [Callers -> Handles \cup {Nil}] /\ pc'[c] = "idle"
        /\ \A d \in Callers : d # c => pc'[d] = pc[d] /\ user'[d] = user[d] /\ db'[d] = db[d]
    BY DEF Step
  <1>3. UserDBTypeOK'
    BY <1>2 DEF UserDBInv, UserDBTypeOK
  <1>4. Turns'
    BY <1>2 DEF UserDBInv, Turns
  <1>5. QED
    BY <1>1, <1>3, <1>4 DEF UserDBInv

(* A caller whose ping was good finds its user's element, or none if it    *)
(* has been evicted meanwhile.                                             *)
LEMMA TouchPreserves ==
  ASSUME UserDBInv, NEW c \in Callers, Touch(c) PROVE UserDBInv'
  <1> USE CallerTypes DEF Touch, Goto
  <1>1. /\ user[c] \in Users /\ db[c] \in Handles
        /\ \A v \in Users : userDBs[v] = db[c] => v = user[c]
    BY DEF UserDBInv, Turns
  <1>2. /\ lruList' \in Seq(Element) /\ Len(lruList') = Len(lruList) /\ Distinct(lruList')
        /\ \A f : Has(lruList', f) <=> Has(lruList, f)
    BY <1>1, MovedToFront DEF UserDBInv
  <1>3. MapAndListAgree'
    BY <1>2, Listed, AgreesAgain DEF UserDBInv, Pooled
  <1>4. OpenExactlyPooled' /\ Alone'
    BY DEF UserDBInv, OpenExactlyPooled, Alone, Pooled
  <1>5. /\ pc' \in [Callers -> Step] /\ pc'[c] = "returned"
        /\ \A d \in Callers : d # c => pc'[d] = pc[d]
    BY DEF Step
  <1>6. UserDBTypeOK'
    BY <1>2, <1>5 DEF UserDBInv, UserDBTypeOK
  <1>7. Turns'
    BY <1>2, <1>5 DEF UserDBInv, Turns
  <1>8. QED
    BY <1>3, <1>4, <1>6, <1>7 DEF UserDBInv

(* An entry is taken out of the map and of the list, and its connection is *)
(* closed.                                                                 *)
LEMMA EntryDropped ==
  ASSUME UserDBInv, NEW v \in Users, userDBs[v] # Nil, UNCHANGED down,
         open' = open \ {userDBs[v]}, userDBs' = [userDBs EXCEPT ![v] = Nil],
         lruList' \in Seq(Element), Len(lruList') = Len(lruList) - 1, Distinct(lruList'),
         \A f : Has(lruList', f) <=> Has(lruList, f) /\ f # ElementOf(v, userDBs[v])
  PROVE  /\ MapAndListAgree' /\ OpenExactlyPooled' /\ Alone'
         /\ userDBs' \in [Users -> Handles \cup {Nil}] /\ open' \subseteq Handles
         /\ Len(lruList') < PoolSize
         /\ userDBs'[v] = Nil /\ \A u \in Users : u # v => userDBs'[u] = userDBs[u]
  <1>1. /\ userDBs' \in [Users -> Handles \cup {Nil}] /\ open' \subseteq Handles
        /\ userDBs'[v] = Nil /\ \A u \in Users : u # v => userDBs'[u] = userDBs[u]
    BY CallerTypes DEF UserDBInv, UserDBTypeOK
  <1>2. Len(lruList') < PoolSize
    BY Listed DEF UserDBInv
  <1>3. MapAndListAgree'
    <2>1. ASSUME NEW e, Has(lruList', e) PROVE userDBs'[e.uid] = e.handle
      <3>1. /\ Has(lruList, e) /\ e # ElementOf(v, userDBs[v]) /\ e = ElementOf(e.uid, e.handle)
            /\ e.uid \in Users /\ userDBs[e.uid] = e.handle
        BY <2>1, Listed DEF UserDBInv, Pooled
      <3>2. e.uid # v
        BY <3>1
      <3>3. QED
        BY <1>1, <3>1, <3>2
    <2>2. ASSUME NEW u \in Users, userDBs'[u] # Nil PROVE Has(lruList', ElementOf(u, userDBs'[u]))
      <3>1. u # v /\ userDBs'[u] = userDBs[u]
        BY <1>1, <2>2
      <3>2. Has(lruList, ElementOf(u, userDBs[u]))
        BY <2>2, <3>1, Listed DEF UserDBInv, Pooled
      <3>3. ElementOf(u, userDBs[u]) # ElementOf(v, userDBs[v])
        BY <3>1 DEF ElementOf
      <3>4. QED
        BY <3>1, <3>2, <3>3
    <2>3. Len(lruList') <= PoolSize
      BY <1>2, Listed DEF UserDBInv
    <2>4. QED
      BY <2>1, <2>2, <2>3, AgreesAgain
  <1>4. Alone'
    BY <1>1 DEF UserDBInv, Alone
  <1>5. OpenExactlyPooled'
    <2>1. ASSUME NEW h \in open' PROVE \E u \in Users : userDBs'[u] = h
      BY <1>1 DEF UserDBInv, OpenExactlyPooled
    <2>2. ASSUME ~down, NEW u \in Users, userDBs'[u] # Nil PROVE userDBs'[u] \in open'
      <3>1. u # v /\ userDBs'[u] = userDBs[u] /\ userDBs[u] \in open
        BY <1>1, <2>2 DEF UserDBInv, OpenExactlyPooled, Pooled
      <3>2. userDBs[u] # userDBs[v]
        BY <1>1, <2>2, <3>1 DEF UserDBInv, Alone
      <3>3. QED
        BY <3>1, <3>2
    <2>3. QED
      BY <2>1, <2>2 DEF OpenExactlyPooled, Pooled
  <1>6. QED
    BY <1>1, <1>2, <1>3, <1>4, <1>5

LEMMA CheckPreserves ==
  ASSUME UserDBInv, NEW c \in Callers, Check(c) PROVE UserDBInv'
  <1> USE CallerTypes DEF Goto
  <1>0. pc[c] = "check" /\ lock = c /\ user[c] \in Users
    BY DEF Check, UserDBInv, Turns
  <1>a. PICK h \in Handles \cup {Nil} : h = userDBs[user[c]]
    BY <1>0
  <1>1. CASE h \in open /\ MoveToFront(user[c], h) /\ Return(c, "returned", h) /\ UNCHANGED <<userDBs, open>>
    <2>1. h \in Handles /\ h # Nil /\ \A v \in Users : userDBs[v] = h => v = user[c]
      BY <1>0, <1>a, <1>1 DEF UserDBInv, UserDBTypeOK, Alone
    <2>2. /\ lruList' \in Seq(Element) /\ Len(lruList') = Len(lruList) /\ Distinct(lruList')
          /\ \A f : Has(lruList', f) <=> Has(lruList, f)
      BY <1>0, <1>1, <2>1, MovedToFront DEF UserDBInv
    <2>3. MapAndListAgree'
      BY <1>1, <2>2, Listed, AgreesAgain DEF UserDBInv, Pooled
    <2>4. OpenExactlyPooled' /\ Alone'
      BY <1>1 DEF UserDBInv, OpenExactlyPooled, Alone, Pooled, Return
    <2>5. /\ pc' \in [Callers -> Step] /\ db' \in [Callers -> Handles \cup {Nil}]
          /\ pc'[c] = "returned" /\ \A d \in Callers : d # c => pc'[d] = pc[d] /\ db'[d] = db[d]
          /\ lock' = Nil /\ UNCHANGED <<user, down, userDBs, open>>
      BY <1>1 DEF Return, Step
    <2>6. UserDBTypeOK'
      BY <2>2, <2>5 DEF UserDBInv, UserDBTypeOK
    <2>7. Turns'
      BY <1>0, <2>2, <2>5 DEF UserDBInv, Turns
    <2>8. QED
      BY <2>3, <2>4, <2>6, <2>7 DEF UserDBInv
  <1>2. CASE /\ h # Nil /\ open' = open \ {h} /\ lruList' = Without(h)
             /\ userDBs' = [userDBs EXCEPT ![user[c]] = Nil]
             /\ pc' = [pc EXCEPT ![c] = "evict"] /\ UNCHANGED <<lock, user, db, down>>
    <2>1. h \in Handles /\ Has(lruList, ElementOf(user[c], h))
      BY <1>0, <1>a, <1>2, Listed DEF UserDBInv, Pooled
    <2>2. InList(h)
      BY <2>1 DEF InList, Has, ElementOf
    <2>3. PICK e : /\ Has(lruList, e) /\ e.handle = h
                   /\ Without(h) \in Seq(Element) /\ Len(Without(h)) = Len(lruList) - 1
                   /\ Distinct(Without(h))
                   /\ \A f : Has(Without(h), f) <=> Has(lruList, f) /\ f # e
      BY <2>1, <2>2, WithoutHandle DEF UserDBInv
    <2>4. e.uid \in Users /\ userDBs[e.uid] = h /\ e = ElementOf(e.uid, h)
      BY <2>3, Listed DEF UserDBInv, Pooled
    <2>5. e.uid = user[c]
      BY <1>0, <1>a, <1>2, <2>4 DEF UserDBInv, Alone
    <2>6. e = ElementOf(user[c], userDBs[user[c]])
      BY <1>a, <2>4, <2>5
    <2>7. /\ MapAndListAgree' /\ OpenExactlyPooled' /\ Alone'
          /\ userDBs' \in [Users -> Handles \cup {Nil}] /\ open' \subseteq Handles
          /\ Len(lruList') < PoolSize
          /\ userDBs'[user[c]] = Nil /\ \A u \in Users : u # user[c] => userDBs'[u] = userDBs[u]
      BY <1>0, <1>a, <1>2, <2>3, <2>6, EntryDropped
    <2>8. /\ pc' \in [Callers -> Step] /\ pc'[c] = "evict"
          /\ \A d \in Callers : d # c => pc'[d] = pc[d]
      BY <1>2 DEF Step
    <2>9. UserDBTypeOK'
      BY <1>2, <2>3, <2>7, <2>8 DEF UserDBInv, UserDBTypeOK
    <2>10. Turns'
      BY <1>0, <1>2, <2>7, <2>8 DEF UserDBInv, Turns
    <2>q. QED
      BY <2>7, <2>9, <2>10 DEF UserDBInv
  <1>3. CASE h = Nil /\ pc' = [pc EXCEPT ![c] = "evict"] /\ UNCHANGED <<userDBs, lruList, open, lock, user, db, down>>
    <2>1. MapAndListAgree' /\ OpenExactlyPooled' /\ Alone'
      BY <1>3, PoolKept
    <2>2. /\ pc' \in [Callers -> Step] /\ pc'[c] = "evict"
          /\ \A d \in Callers : d # c => pc'[d] = pc[d]
      BY <1>3 DEF Step
    <2>3. UserDBTypeOK'
      BY <1>3, <2>2 DEF UserDBInv, UserDBTypeOK
    <2>4. Turns'
      BY <1>0, <1>a, <1>3, <2>2 DEF UserDBInv, Turns
    <2>5. QED
      BY <2>1, <2>3, <2>4 DEF UserDBInv
  <1>4. QED
    BY <1>a, <1>1, <1>2, <1>3 DEF Check, poolVars

(* A full pool drops the last element of the list, which is there because  *)
(* the list is as long as the map.                                         *)
LEMMA EvictPreserves ==
  ASSUME UserDBInv, NEW c \in Callers, Evict(c) PROVE UserDBInv'
  <1> USE CallerTypes DEF Goto
  <1>0. /\ pc[c] = "evict" /\ lock = c /\ user[c] \in Users /\ userDBs[user[c]] = Nil
        /\ pc' = [pc EXCEPT ![c] = "connect"] /\ UNCHANGED <<lock, user, db, down>>
    BY DEF Evict, UserDBInv, Turns
  <1>1. /\ pc' \in [Callers -> Step] /\ pc'[c] = "connect"
        /\ \A d \in Callers : d # c => pc'[d] = pc[d]
    BY <1>0 DEF Step
  <1>2. ASSUME MapAndListAgree', OpenExactlyPooled', Alone', Len(lruList') < PoolSize,
               lruList' \in Seq(Element), open' \subseteq Handles,
               userDBs' \in [Users -> Handles \cup {Nil}],
               \A u \in Users : userDBs'[u] \in {userDBs[u], Nil}
        PROVE  UserDBInv'
    <2>1. UserDBTypeOK'
      BY <1>0, <1>1, <1>2 DEF UserDBInv, UserDBTypeOK
    <2>2. Turns'
      BY <1>0, <1>1, <1>2 DEF UserDBInv, Turns
    <2>3. QED
      BY <1>2, <2>1, <2>2 DEF UserDBInv
  <1>3. CASE Cardinality(Pooled) >= PoolSize /\ lruList # <<>>
    <2>1. PICK e \in Element : e = lruList[Len(lruList)] /\ Has(lruList, e)
      <3>1. Len(lruList) \in 1..Len(lruList) /\ lruList[Len(lruList)] \in Element
        BY <1>3, Listed DEF UserDBInv
      <3>2. QED
        BY <3>1 DEF Has
    <2>2. e.uid \in Users /\ userDBs[e.uid] # Nil /\ e = ElementOf(e.uid, userDBs[e.uid])
      BY <2>1, Listed DEF UserDBInv, Pooled
    <2>3. /\ open' = open \ {userDBs[e.uid]} /\ userDBs' = [userDBs EXCEPT ![e.uid] = Nil]
          /\ lruList' = SubSeq(lruList, 1, Len(lruList) - 1)
      BY <1>3, <2>1 DEF Evict, DropOldest
    <2>4. /\ lruList' \in Seq(Element) /\ Len(lruList') = Len(lruList) - 1 /\ Distinct(lruList')
          /\ \A f : Has(lruList', f) <=> Has(lruList, f) /\ f # e
      <3>1. PICK short \in Seq(Element) :
              /\ short = SubSeq(lruList, 1, Len(lruList) - 1) /\ Len(short) = Len(lruList) - 1
              /\ Distinct(short)
              /\ \A f : Has(short, f) <=> Has(lruList, f) /\ f # lruList[Len(lruList)]
        BY <1>3, LastDropped DEF UserDBInv
      <3>2. lruList' = short
        BY <2>3, <3>1
      <3>3. QED
        BY <2>1, <3>1, <3>2
    <2>5. /\ MapAndListAgree' /\ OpenExactlyPooled' /\ Alone'
          /\ userDBs' \in [Users -> Handles \cup {Nil}] /\ open' \subseteq Handles
          /\ Len(lruList') < PoolSize
          /\ userDBs'[e.uid] = Nil /\ \A u \in Users : u # e.uid => userDBs'[u] = userDBs[u]
      BY <1>0, <2>2, <2>3, <2>4, EntryDropped
    <2>6. QED
      BY <1>2, <2>4, <2>5
  <1>4. CASE ~(Cardinality(Pooled) >= PoolSize /\ lruList # <<>>)
    <2>1. UNCHANGED <<userDBs, lruList, open>>
      BY <1>4 DEF Evict, poolVars
    <2>2. Len(lruList) < PoolSize
      BY <1>4, ListCountsMap, Listed DEF UserDBInv
    <2>3. MapAndListAgree' /\ OpenExactlyPooled' /\ Alone'
      BY <1>0, <2>1, PoolKept
    <2>4. lruList \in Seq(Element) /\ open \subseteq Handles
      BY DEF UserDBInv, UserDBTypeOK
    <2>5. QED
      BY <1>2, <2>1, <2>2, <2>3, <2>4
  <1>5. QED
    BY <1>3, <1>4

(* The new handle is nobody's: no caller can take it for the one it has    *)
(* read.                                                                   *)
LEMMA ConnectPreserves ==
  ASSUME UserDBInv, NEW c \in Callers, Connect(c) PROVE UserDBInv'
  <1> USE CallerTypes DEF Return, Goto
  <1>0. /\ pc[c] = "connect" /\ lock = c /\ user[c] \in Users /\ userDBs[user[c]] = Nil
        /\ Len(lruList) < PoolSize
    BY DEF Connect, UserDBInv, Turns
  <1>1. CASE Return(c, "failed", Nil) /\ UNCHANGED <<userDBs, lruList, open>>
    <2>1. MapAndListAgree' /\ OpenExactlyPooled' /\ Alone'
      BY <1>1, PoolKept
    <2>2. /\ pc' \in [Callers -> Step] /\ db' \in [Callers -> Handles \cup {Nil}]
          /\ pc'[c] = "failed" /\ \A d \in Callers : d # c => pc'[d] = pc[d] /\ db'[d] = db[d]
          /\ lock' = Nil /\ UNCHANGED <<user, down>>
      BY <1>1 DEF Step
    <2>3. UserDBTypeOK'
      BY <1>1, <2>2 DEF UserDBInv, UserDBTypeOK
    <2>4. Turns'
      BY <1>0, <1>1, <2>2 DEF UserDBInv, Turns
    <2>5. QED
      BY <2>1, <2>3, <2>4 DEF UserDBInv
  <1>2. CASE /\ \E h \in Handles : Fresh(h)
             /\ open' = open \cup {NewHandle}
             /\ lruList' = <<ElementOf(user[c], NewHandle)>> \o lruList
             /\ userDBs' = [userDBs EXCEPT ![user[c]] = NewHandle]
             /\ Return(c, "returned", NewHandle)
    <2>1. PICK n \in Handles : n = NewHandle /\ Fresh(n)
      BY <1>2 DEF NewHandle
    <2>2. /\ n \notin open /\ n # Nil
          /\ \A u \in Users : userDBs[u] # n
          /\ \A d \in Callers : db[d] # n
      BY <2>1 DEF Fresh
    <2>3. ElementOf(user[c], n) \in Element /\ ElementOf(user[c], n).uid = user[c]
      BY <1>0 DEF ElementOf, Element
    <2>4. \A f : Has(lruList, f) => f.uid # user[c]
      BY <1>0, Listed DEF UserDBInv, Pooled
    <2>5. /\ lruList' \in Seq(Element) /\ Len(lruList') = Len(lruList) + 1 /\ Distinct(lruList')
          /\ \A f : Has(lruList', f) <=> f = ElementOf(user[c], n) \/ Has(lruList, f)
      <3>1. lruList \in Seq(Element) /\ Distinct(lruList)
        BY Listed DEF UserDBInv
      <3>2. lruList' = <<ElementOf(user[c], n)>> \o lruList
        BY <1>2, <2>1
      <3>3. QED
        <4>1. PICK e : e = ElementOf(user[c], n) /\ e \in Element
          BY <2>3
        <4>0. PICK long : long = <<e>> \o lruList
          OBVIOUS
        <4>2. /\ long \in Seq(Element) /\ Len(long) = Len(lruList) + 1 /\ Distinct(long)
              /\ \A f : Has(long, f) <=> f = e \/ Has(lruList, f)
          <5>1. \A f : Has(lruList, f) => f.uid # e.uid
            BY <2>3, <2>4, <4>1
          <5>2. QED
            BY <3>1, <4>1, <4>0, <5>1, Pushed
        <4>3. lruList' = long
          BY <3>2, <4>1, <4>0
        <4>4. QED
          BY <4>1, <4>2, <4>3
    <2>6. /\ userDBs' \in [Users -> Handles \cup {Nil}] /\ userDBs'[user[c]] = n
          /\ \A u \in Users : u # user[c] => userDBs'[u] = userDBs[u]
          /\ open' = open \cup {n}
      BY <1>0, <1>2, <2>1
    <2>7. MapAndListAgree'
      <3>1. Len(lruList') <= PoolSize
        BY <1>0, <2>5, Listed DEF UserDBInv
      <3>2. ASSUME NEW e, Has(lruList', e) PROVE userDBs'[e.uid] = e.handle
        <4>1. CASE e = ElementOf(user[c], n)
          BY <2>6, <4>1 DEF ElementOf
        <4>2. CASE Has(lruList, e)
          BY <2>4, <2>6, <4>2, Listed DEF UserDBInv, Pooled
        <4>3. QED
          BY <2>5, <3>2, <4>1, <4>2
      <3>3. ASSUME NEW u \in Users, userDBs'[u] # Nil PROVE Has(lruList', ElementOf(u, userDBs'[u]))
        BY <2>5, <2>6, <3>3, Listed DEF UserDBInv, Pooled
      <3>4. QED
        BY <2>5, <3>1, <3>2, <3>3, AgreesAgain
    <2>8. Alone'
      BY <2>2, <2>6 DEF UserDBInv, Alone
    <2>9. OpenExactlyPooled'
      <3>1. down' = down
        BY <1>2
      <3>2. ASSUME NEW h \in open' PROVE \E u \in Users : userDBs'[u] = h
        <4>1. CASE h = n
          BY <1>0, <2>6, <4>1
        <4>2. CASE h \in open
          <5>1. PICK u \in Users : userDBs[u] = h
            BY <4>2 DEF UserDBInv, OpenExactlyPooled
          <5>2. h # Nil
            BY <4>2 DEF UserDBInv, UserDBTypeOK
          <5>3. u # user[c]
            BY <1>0, <5>1, <5>2
          <5>4. QED
            BY <2>6, <5>1, <5>3
        <4>3. QED
          BY <2>6, <3>2, <4>1, <4>2
      <3>3. ASSUME ~down, NEW u \in Users, userDBs'[u] # Nil PROVE userDBs'[u] \in open'
        BY <2>6, <3>3 DEF UserDBInv, OpenExactlyPooled, Pooled
      <3>4. QED
        BY <3>1, <3>2, <3>3 DEF OpenExactlyPooled, Pooled
    <2>10. /\ pc' \in [Callers -> Step] /\ db' \in [Callers -> Handles \cup {Nil}]
           /\ pc'[c] = "returned" /\ \A d \in Callers : d # c => pc'[d] = pc[d] /\ db'[d] = db[d]
           /\ lock' = Nil /\ UNCHANGED <<user, down>>
      BY <1>2, <2>1 DEF Step
    <2>11. UserDBTypeOK'
      BY <2>5, <2>6, <2>10 DEF UserDBInv, UserDBTypeOK
    <2>12. Turns'
      BY <1>0, <2>2, <2>6, <2>10 DEF UserDBInv, Turns
    <2>q. QED
      BY <2>7, <2>8, <2>9, <2>11, <2>12 DEF UserDBInv
  <1>3. QED
    BY <1>1, <1>2 DEF Connect, poolVars

LEMMA CloseAllPreserves ==
  ASSUME UserDBInv, CloseAll PROVE UserDBInv'
  <1> USE DEF CloseAll
  <1>1. UserDBTypeOK' /\ Turns'
    BY DEF UserDBInv, UserDBTypeOK, Turns
  <1>2. MapAndListAgree' /\ Alone'
    BY DEF UserDBInv, MapAndListAgree, Alone, Pooled
  <1>3. OpenExactlyPooled'
    BY DEF UserDBInv, OpenExactlyPooled
  <1>4. QED
    BY <1>1, <1>2, <1>3 DEF UserDBInv

LEMMA UserDBPreserves ==
  ASSUME UserDBInv, [UserDBNext]_userDBVars PROVE UserDBInv'
  <1>1. CASE UNCHANGED userDBVars
    <2>1. UNCHANGED <<userDBs, lruList, open, lock, pc, user, db, down>>
      BY <1>1 DEF userDBVars
    <2>2. MapAndListAgree' /\ OpenExactlyPooled' /\ Alone'
      BY <2>1, PoolKept
    <2>3. UserDBTypeOK' /\ Turns'
      BY <2>1 DEF UserDBInv, UserDBTypeOK, Turns
    <2>4. QED
      BY <2>2, <2>3 DEF UserDBInv
  <1>2. CASE UserDBNext
    BY <1>2, LookupPreserves, PingPreserves, TouchPreserves, LockPreserves, CheckPreserves,
       EvictPreserves, ConnectPreserves, ReleasePreserves, CloseAllPreserves DEF UserDBNext, Get
  <1>3. QED
    BY <1>1, <1>2

LEMMA UserDBInductive == UserDBSpec => []UserDBInv
  BY UserDBInitEstablishes, UserDBPreserves, PTL DEF UserDBSpec

-----------------------------------------------------------------------------
(* Every variable keeps its type.                                          *)
THEOREM UserDBTypeCorrect == UserDBSpec => []UserDBTypeOK
  <1>1. UserDBInv => UserDBTypeOK
    BY DEF UserDBInv
  <1>2. QED
    BY <1>1, UserDBInductive, PTL

(* However callers overlap, and whatever was evicted or connected anew     *)
(* between a caller's lookup and its second look, the map and the LRU list *)
(* hold the same connections, and not more than the pool has room for.     *)
THEOREM NeverOverfull == UserDBSpec => []MapAndListAgree
  <1>1. UserDBInv => MapAndListAgree
    BY DEF UserDBInv
  <1>2. QED
    BY <1>1, UserDBInductive, PTL

(* No connection leaks, and none in the map is closed before closeAll.     *)
THEOREM NoLeak == UserDBSpec => []OpenExactlyPooled
  <1>1. UserDBInv => OpenExactlyPooled
    BY DEF UserDBInv
  <1>2. QED
    BY <1>1, UserDBInductive, PTL
=============================================================================
