------------------------- MODULE MCBudgetPublication -------------------------
(* Instances of BudgetPublication for TLC. *)
EXTENDS BudgetPublication, TLC

CONSTANTS u1, u2

MCPosition == (u1 :> 1) @@ (u2 :> 2)
==============================================================================
