-------------------------- MODULE MCLedgerHistories --------------------------
(* Instances of LedgerHistories for TLC. *)
EXTENDS LedgerHistories, TLC

Symmetry == Permutations(Cotisations) \cup Permutations(Payments) \cup Permutations(Entries)
==============================================================================
