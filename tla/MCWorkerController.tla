------------------------- MODULE MCWorkerController -------------------------
(***************************************************************************)
(* WorkerController for TLC.                                               *)
(***************************************************************************)
EXTENDS WorkerController
=============================================================================
