--------------------------- MODULE MCCustomDomain ---------------------------
(***************************************************************************)
(* CustomDomain for TLC.                                                   *)
(***************************************************************************)
EXTENDS CustomDomain
=============================================================================
