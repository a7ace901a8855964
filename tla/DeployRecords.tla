--------------------------- MODULE DeployRecords ---------------------------
(***************************************************************************)
(* What the control plane promises the users of its API about workers and  *)
(* deployments, read from the rows the API reports:                        *)
(*                                                                         *)
(*   - a deployment belongs to one existing worker, and is loading until   *)
(*     its outcome is decided, once, as success or as error;               *)
(*   - the active version of a worker changes only in the step that        *)
(*     records the success of that version, or when the worker is removed; *)
(*   - removing a worker removes its deployments, and no id is used again. *)
(*                                                                         *)
(* WorkerDeploy describes how the program gets there, and implements this. *)
(***************************************************************************)
CONSTANTS
  Workers,    \* worker ids
  NoWorker,   \* stands for "no worker"
  Versions,   \* ids of deploy versions
  NoVersion   \* stands for "no version" (NULL)

VARIABLES
  worker,     \* whether the worker's id is unused, and whether its row exists
  active,     \* the worker's active version
  owner,      \* the worker a version was created for
  outcome     \* what is known of a version; "none" when it has no row

vars == <<worker, active, owner, outcome>>

TypeOK ==
  /\ worker  \in [Workers -> {"none", "present", "deleted"}]
  /\ active  \in [Workers -> Versions \cup {NoVersion}]
  /\ owner   \in [Versions -> Workers \cup {NoWorker}]
  /\ outcome \in [Versions -> {"none", "loading", "success", "error"}]

Init ==
  /\ worker  = [w \in Workers |-> "none"]
  /\ active  = [w \in Workers |-> NoVersion]
  /\ owner   = [v \in Versions |-> NoWorker]
  /\ outcome = [v \in Versions |-> "none"]

Create(w) ==
  /\ worker[w] = "none"
  /\ worker' = [worker EXCEPT ![w] = "present"]
  /\ UNCHANGED <<active, owner, outcome>>

Request(w, v) ==
  /\ worker[w] = "present"
  /\ owner[v] = NoWorker
  /\ owner'   = [owner EXCEPT ![v] = w]
  /\ outcome' = [outcome EXCEPT ![v] = "loading"]
  /\ UNCHANGED <<worker, active>>

Succeed(v) ==
  /\ outcome[v] = "loading"
  /\ outcome' = [outcome EXCEPT ![v] = "success"]
  /\ active'  = [active EXCEPT ![owner[v]] = v]
  /\ UNCHANGED <<worker, owner>>

Fail(v) ==
  /\ outcome[v] = "loading"
  /\ outcome' = [outcome EXCEPT ![v] = "error"]
  /\ UNCHANGED <<worker, active, owner>>

Remove(w) ==
  /\ worker[w] = "present"
  /\ worker'  = [worker EXCEPT ![w] = "deleted"]
  /\ active'  = [active EXCEPT ![w] = NoVersion]
  /\ outcome' = [v \in Versions |-> IF owner[v] = w THEN "none" ELSE outcome[v]]
  /\ UNCHANGED owner

Next ==
  \/ \E w \in Workers : Create(w) \/ Remove(w)
  \/ \E w \in Workers, v \in Versions : Request(w, v)
  \/ \E v \in Versions : Succeed(v) \/ Fail(v)

Spec == Init /\ [][Next]_vars
=============================================================================
