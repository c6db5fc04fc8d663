----------------------------- MODULE LedgerRules -----------------------------
(***************************************************************************)
(* The rules of payments, refunds and adjustments of a published budget:   *)
(* controllers/financial.go (financialEffect, GuardPaymentReduction) and   *)
(* the sums of ListCotisations.  Amounts are whole cents.                  *)
(***************************************************************************)
EXTENDS Integers, FiniteSetsExt, Functions

CONSTANTS
  Cotisations,   \* cotisations of one budget
  Payments,      \* identifiers of the payments of one cotisation
  Entries,       \* identifiers of financial entries
  NoEntry,       \* reverses_id is NULL
  MaxAmount      \* bound: the ceiling of money.Amount

ASSUME LedgerAssumption ==
  /\ NoEntry \notin Entries
  /\ IsFiniteSet(Payments)
  /\ MaxAmount \in Nat \ {0}

Kinds == {"refund", "adjustment"}

EntryRows ==
  [id : Entries, cotisation : Cotisations, kind : Kinds,
   amount : -MaxAmount .. MaxAmount, reverses : Entries \cup {NoEntry}]

Valid(amount) == amount \in 1 .. MaxAmount

Magnitude(amount) == IF amount < 0 THEN -amount ELSE amount

\* Sum of the entries of one cotisation and one kind; the rows are append-only.
EntrySum(rows, c, kind) ==
  MapThenSumSet(LAMBDA e : e.amount, {e \in rows : e.cotisation = c /\ e.kind = kind})

\* What ListCotisations returns for c, from the amounts called, the payments (a function
\* from their identifiers to amounts, 0 when there is none) and the entries.
Sums(amounts, payments, rows, c) ==
  [initial |-> amounts[c],
   adjustment |-> EntrySum(rows, c, "adjustment"),
   gross |-> SumFunction(payments[c]),
   refunded |-> EntrySum(rows, c, "refund")]

Called(sums) == sums.initial + sums.adjustment
Net(sums) == sums.gross - sums.refunded

\* mutant: an entry already reversed can be reversed again
ReversibleAgain(r, rows) ==
  \E e \in rows :
    /\ e.id = r.reverses /\ e.cotisation = r.cotisation
    /\ e.reverses = NoEntry /\ e.kind = r.kind
    /\ r.amount = -e.amount

\* r reverses an entry of its cotisation and kind that is no reversal and has none yet.
Reversible(r, rows) ==
  /\ \E e \in rows :
       /\ e.id = r.reverses /\ e.cotisation = r.cotisation
       /\ e.reverses = NoEntry /\ e.kind = r.kind
       /\ r.amount = -e.amount
  /\ \A e \in rows : e.cotisation = r.cotisation => e.reverses # r.reverses

\* mutant: the amount called after an adjustment is not checked
SolventPaid(r, sums) == r.kind = "refund" => Net(sums) - r.amount >= 0

\* Neither the amount called nor the amount paid becomes negative.
Solvent(r, sums) ==
  /\ r.kind = "adjustment" => Called(sums) + r.amount >= 0
  /\ r.kind = "refund" => Net(sums) - r.amount >= 0

\* financialEffect: the checks of a new entry, given the sums and the entries read.
Permitted(r, sums, rows) ==
  /\ IF r.reverses # NoEntry
       THEN Reversible(r, rows)
       ELSE /\ Valid(Magnitude(r.amount))
            /\ r.kind = "refund" => r.amount > 0 /\ r.amount <= Net(sums) - Called(sums)
  /\ Solvent(r, sums)

\* mutant: a payment may be reduced down to the amount called
ReducibleToCalled(sums, reduction) == sums.gross - reduction >= Called(sums)

\* GuardPaymentReduction.
Reducible(sums, reduction) == sums.gross - reduction >= sums.refunded
==============================================================================
