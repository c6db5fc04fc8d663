----------------------------- MODULE AtomicBudget -----------------------------
(***************************************************************************)
(* What the budget API promises: every request acts at one instant.  A     *)
(* publication divides the expenses of that instant between the units of   *)
(* that instant, once; a published budget never changes and is never       *)
(* deleted.  How a budget is divided is a parameter.                       *)
(***************************************************************************)
EXTENDS Integers

CONSTANTS
  Budgets,            \* rows of table budget
  Expenses,           \* identifiers of the expenses of one budget
  Units,              \* rows of table unit
  MaxAmount,          \* bound: the ceiling of an amount
  MaxShare,           \* bound: shares of one unit
  Total(_),           \* sum of the expenses of a budget
  Divisible(_, _),    \* an amount can be divided according to the shares
  Allocate(_, _)      \* and the cotisations of that division

VARIABLES
  draft,        \* budget.draft
  live,         \* budget.deleted_at IS NULL
  expense,      \* amounts of a budget's expenses, 0 when there is none
  share,        \* shares of the units
  cotisation    \* amounts called for a published budget, per unit

vars == <<draft, live, expense, share, cotisation>>

Editable(b) == draft[b] /\ live[b]

Init ==
  /\ draft = [b \in Budgets |-> TRUE]
  /\ live = [b \in Budgets |-> TRUE]
  /\ expense = [b \in Budgets |-> [x \in Expenses |-> 0]]
  /\ share = [u \in Units |-> 0]
  /\ cotisation = [b \in Budgets |-> [u \in {} |-> 0]]

SetExpense(b, x, amount) ==
  /\ Editable(b)
  /\ expense' = [expense EXCEPT ![b][x] = amount]
  /\ UNCHANGED <<draft, live, share, cotisation>>

SetShare(u, n) ==
  /\ share' = [share EXCEPT ![u] = n]
  /\ UNCHANGED <<draft, live, expense, cotisation>>

Publish(b) ==
  /\ Editable(b)
  /\ Divisible(Total(expense[b]), share)
  /\ cotisation' = [cotisation EXCEPT ![b] = Allocate(Total(expense[b]), share)]
  /\ draft' = [draft EXCEPT ![b] = FALSE]
  /\ UNCHANGED <<live, expense, share>>

Delete(b) ==
  /\ Editable(b)
  /\ live' = [live EXCEPT ![b] = FALSE]
  /\ expense' = [expense EXCEPT ![b] = [x \in Expenses |-> 0]]
  /\ UNCHANGED <<draft, share, cotisation>>

Next ==
  \/ \E b \in Budgets :
       \/ \E x \in Expenses, amount \in 0 .. MaxAmount : SetExpense(b, x, amount)
       \/ Publish(b) \/ Delete(b)
  \/ \E u \in Units, n \in 0 .. MaxShare : SetShare(u, n)

Spec == Init /\ [][Next]_vars
==============================================================================
