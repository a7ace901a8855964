----------------------------- MODULE TaskQueue -----------------------------
(***************************************************************************)
(* What the inner gateway promises whoever posts it a task: a task that is *)
(* accepted is started at most once and finished at most once, unless the  *)
(* process ends, which loses every task not finished by then.              *)
(***************************************************************************)
CONSTANT Tasks   \* ids of tasks

VARIABLES
  status,        \* how far each task has come
  up             \* the process runs

vars == <<status, up>>

TypeOK ==
  /\ status \in [Tasks -> {"unknown", "accepted", "running", "finished", "lost"}]
  /\ up \in BOOLEAN

Init ==
  /\ status = [k \in Tasks |-> "unknown"]
  /\ up = TRUE

Move(k, from, to) ==
  /\ up
  /\ status[k] = from
  /\ status' = [status EXCEPT ![k] = to]
  /\ UNCHANGED up

Accept(k) == Move(k, "unknown", "accepted")
Start(k)  == Move(k, "accepted", "running")
Finish(k) == Move(k, "running", "finished")

Exit ==
  /\ up
  /\ up' = FALSE
  /\ status' = [k \in Tasks |->
        IF status[k] \in {"accepted", "running"} THEN "lost" ELSE status[k]]

Next == Exit \/ \E k \in Tasks : Accept(k) \/ Start(k) \/ Finish(k)

Spec == Init /\ [][Next]_vars
=============================================================================
