---------------------------- MODULE MCUserAudit -----------------------------
(***************************************************************************)
(* UserAudit for TLC.                                                      *)
(***************************************************************************)
EXTENDS UserAudit
=============================================================================
