--------------------------- MODULE MCInnerGateway ---------------------------
(***************************************************************************)
(* InnerGateway for TLC.                                                   *)
(***************************************************************************)
EXTENDS InnerGateway
=============================================================================
