----------------------------- MODULE MCAccounts -----------------------------
(***************************************************************************)
(* Accounts for TLC: two emails that may draw the same uid.                *)
(***************************************************************************)
EXTENDS Accounts, TLC

CONSTANTS e1, e2, u1, u2

MCUidsOf == e1 :> {u1} @@ e2 :> {u1, u2}
=============================================================================
