---------------------------- MODULE MCUserDBPool ----------------------------
(***************************************************************************)
(* UserDBPool for TLC.                                                     *)
(***************************************************************************)
EXTENDS UserDBPool
=============================================================================
