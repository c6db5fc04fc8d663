--------------------------- MODULE LedgerHistories ---------------------------
(***************************************************************************)
(* The histories of a ledger under the rules of LedgerRules: the promise   *)
(* AtomicLedger with the real sums and checks.  BudgetLedger shows that    *)
(* concurrent requests produce no other history.                           *)
(***************************************************************************)
EXTENDS LedgerTables

INSTANCE AtomicLedger
==============================================================================
