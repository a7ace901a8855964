--------------------------- MODULE MCWorkerDeploy ---------------------------
(***************************************************************************)
(* WorkerDeploy for TLC.  Clients and threads are interchangeable: no      *)
(* definition tells one from another, so the safety runs may use symmetry. *)
(***************************************************************************)
EXTENDS WorkerDeploy, TLC

Symmetry == Permutations(Clients) \cup Permutations(Threads) \cup Permutations(Workers)
=============================================================================
