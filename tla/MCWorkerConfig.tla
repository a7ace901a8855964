--------------------------- MODULE MCWorkerConfig ---------------------------
(***************************************************************************)
(* WorkerConfig for TLC: settings of two keys, and deletions of one.       *)
(***************************************************************************)
EXTENDS WorkerConfig

CONSTANTS k1, k2

MCAsks == {a \in AllAsks : a.key = k2 => ~a.delete}
=============================================================================
