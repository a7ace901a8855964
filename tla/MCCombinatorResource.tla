------------------------ MODULE MCCombinatorResource ------------------------
(***************************************************************************)
(* CombinatorResource for TLC.                                             *)
(***************************************************************************)
EXTENDS CombinatorResource
=============================================================================
