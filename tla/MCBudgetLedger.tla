---------------------------- MODULE MCBudgetLedger ----------------------------
(* Instances of BudgetLedger for TLC. *)
EXTENDS BudgetLedger, TLC

Symmetry == Permutations(Sessions) \cup Permutations(Payments) \cup Permutations(Entries)
==============================================================================
