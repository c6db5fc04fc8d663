----------------------------- MODULE LedgerTables -----------------------------
(***************************************************************************)
(* The tables of the ledger of one published budget, and what LedgerRules  *)
(* must keep true of them.                                                 *)
(***************************************************************************)
EXTENDS LedgerRules

VARIABLES
  initial,    \* cotisation.amount
  paid,       \* amounts of a cotisation's payments, 0 when there is none
  entry       \* table financial_entry

------------------------------------------------------------------------------
(* Properties *)

\* Whatever the order of payments, corrections, refunds, adjustments and reversals, the
\* association never has refunded more than it was paid and never calls a negative
\* amount (financial.go:127 and GuardPaymentReduction).
NeverNegative ==
  \A c \in Cotisations :
    LET sums == Sums(initial, paid, entry, c)
    IN 0 <= sums.refunded /\ sums.refunded <= sums.gross /\ 0 <= Called(sums)

\* A reversal cancels exactly one entry: the sums shown are those of the entries that
\* were never reversed, as if the others had not been written.
SumsAreStandingEntries ==
  \A c \in Cotisations, kind \in Kinds :
    EntrySum(entry, c, kind) =
      MapThenSumSet(LAMBDA e : e.amount,
        {e \in entry : /\ e.cotisation = c /\ e.kind = kind
                       /\ e.reverses = NoEntry
                       /\ \A f \in entry : f.reverses # e.id})
==============================================================================
