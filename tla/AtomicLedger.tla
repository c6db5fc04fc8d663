----------------------------- MODULE AtomicLedger -----------------------------
(***************************************************************************)
(* The ledger of a published budget as its API promises it: payments and   *)
(* financial entries are written at one instant, from the sums of that     *)
(* instant.  What the sums are and what they permit is a parameter.        *)
(***************************************************************************)
EXTENDS Integers

CONSTANTS
  Cotisations,        \* cotisations of one budget
  Payments,           \* identifiers of the payments of one cotisation
  EntryRows,          \* possible rows of table financial_entry
  MaxAmount,          \* bound: the ceiling of an amount
  Sums(_, _, _, _),   \* sums of a cotisation, from the three variables
  Permitted(_, _, _), \* a row may be added, given the sums and the rows
  Reducible(_, _)     \* a payment may be reduced by an amount, given the sums

VARIABLES
  initial,    \* cotisation.amount, fixed by the publication
  paid,       \* amounts of a cotisation's payments, 0 when there is none
  entry       \* table financial_entry

vars == <<initial, paid, entry>>

SumsOf(c) == Sums(initial, paid, entry, c)

Init ==
  /\ initial \in [Cotisations -> 0 .. MaxAmount]
  /\ paid = [c \in Cotisations |-> [p \in Payments |-> 0]]
  /\ entry = {}

SetPayment(c, p, amount) ==
  /\ paid' = [paid EXCEPT ![c][p] = amount]
  /\ UNCHANGED <<initial, entry>>

Pay(c, p, amount) ==
  /\ paid[c][p] = 0
  /\ SetPayment(c, p, amount)

\* A correction, or with amount 0 the deletion, of a payment.
Correct(c, p, amount) ==
  /\ paid[c][p] # 0
  /\ Reducible(SumsOf(c), paid[c][p] - amount)
  /\ SetPayment(c, p, amount)

Record(r) ==
  /\ \A e \in entry : e.id # r.id
  /\ Permitted(r, SumsOf(r.cotisation), entry)
  /\ entry' = entry \cup {r}
  /\ UNCHANGED <<initial, paid>>

Next ==
  \/ \E c \in Cotisations, p \in Payments :
       \/ \E amount \in 1 .. MaxAmount : Pay(c, p, amount)
       \/ \E amount \in 0 .. MaxAmount : Correct(c, p, amount)
  \/ \E r \in EntryRows : Record(r)

Spec == Init /\ [][Next]_vars
==============================================================================
