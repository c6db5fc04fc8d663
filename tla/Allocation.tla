------------------------------ MODULE Allocation ------------------------------
(***************************************************************************)
(* Division of a budget between the units: controllers/allocation.go.      *)
(* Amounts are whole cents.  A share function gives every unit its number  *)
(* of shares; a unit that does not exist has none.                         *)
(***************************************************************************)
EXTENDS Integers, FiniteSets, Functions

CONSTANTS
  Units,       \* rows of table unit
  Position,    \* the order (number, id) of the units
  MaxAmount,   \* bound: the ceiling 9 999 999 999,99 of money.Amount, in cents
  MaxShare     \* bound: shares of one unit

ASSUME AllocationAssumption ==
  /\ IsFiniteSet(Units)
  /\ Position \in [Units -> Nat]
  /\ \A u, v \in Units : Position[u] = Position[v] => u = v
  /\ MaxAmount \in Nat \ {0}
  /\ MaxShare \in Nat \ {0}

\* ValidateInput: positive and under the ceiling.
Valid(amount) == amount \in 1 .. MaxAmount

TotalShares(share) == SumFunctionOnSet(share, Units)

\* Sum of the amounts of a budget's expenses, 0 standing for no expense.
Total(amounts) == SumFunction(amounts)

\* What Allocate and BudgetPreview.Ready ask for.
Divisible(amount, share) == Valid(amount) /\ TotalShares(share) > 0

\* Units with shares take part in an allocation, the others get no cotisation.
Holders(share) == {u \in Units : share[u] > 0}

\* Part of a unit rounded down to the cent, and what the rounding leaves out.
Quotient(total, share, u) == (total * share[u]) \div TotalShares(share)
Remainder(total, share, u) == (total * share[u]) % TotalShares(share)

\* mutant: equal remainders are not ordered
AheadTied(total, share, u, v) == Remainder(total, share, u) > Remainder(total, share, v)

\* The order of sort.Slice: largest remainder first, then position.
Ahead(total, share, u, v) ==
  \/ Remainder(total, share, u) > Remainder(total, share, v)
  \/ /\ Remainder(total, share, u) = Remainder(total, share, v)
     /\ Position[u] < Position[v]

Rank(total, share, u) ==
  Cardinality({v \in Holders(share) : Ahead(total, share, v, u)})

Leftover(total, share) ==
  total - SumFunction([u \in Holders(share) |-> Quotient(total, share, u)])

\* mutant: the remaining cents are given in the order of the units
AllocateInOrder(total, share) ==
  [u \in Holders(share) |->
     Quotient(total, share, u)
       + IF Cardinality({v \in Holders(share) : Position[v] < Position[u]}) < Leftover(total, share)
         THEN 1 ELSE 0]

\* Allocate: the units ahead in that order receive the remaining cents.
Allocate(total, share) ==
  [u \in Holders(share) |->
     Quotient(total, share, u)
       + IF Rank(total, share, u) < Leftover(total, share) THEN 1 ELSE 0]
==============================================================================
