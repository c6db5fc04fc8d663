--------------------------- MODULE AllocationInputs ---------------------------
(***************************************************************************)
(* Every allocation of a bounded amount over bounded shares: one step      *)
(* computes it, as PublishBudget does, for a total that passes the checks. *)
(***************************************************************************)
EXTENDS Allocation

VARIABLES
  divided,      \* amount of the budget
  shares,       \* shares of the units
  parts         \* amounts allocated

inputs == <<divided, shares, parts>>

NotAllocated == [u \in {} |-> 0]

AnyShares ==
  /\ divided = 0
  /\ shares \in [Units -> 0 .. MaxShare]
  /\ parts = NotAllocated

\* Allocate refuses an amount outside the limits and a set of units without shares.
AllocateAny(amount) ==
  /\ divided = 0
  /\ Divisible(amount, shares)
  /\ divided' = amount
  /\ parts' = Allocate(amount, shares)
  /\ UNCHANGED shares

AllocateOne == \E amount \in 0 .. MaxAmount : AllocateAny(amount)

Allocations == AnyShares /\ [][AllocateOne]_inputs

------------------------------------------------------------------------------
(* Properties *)

\* "La somme est exactement égale au total des dépenses" (README.md:250): the rounding
\* neither loses nor creates a cent.
SumIsExact == SumFunction(parts) = divided

\* Reference definition of the largest-remainder rule, without an order or a rank:
\* every unit with shares pays its exact part rounded down or one cent more, and nobody
\* rounded down has a larger remainder, or the same one and a smaller number, than a
\* unit W that got a cent (README.md:247-249).
LargestRemaindersFirst ==
  divided > 0 =>
    LET Floor(u) == (divided * shares[u]) \div TotalShares(shares)
        Rest(u) == divided * shares[u] - Floor(u) * TotalShares(shares)
        W == {u \in DOMAIN parts : parts[u] = Floor(u) + 1}
    IN /\ DOMAIN parts = {u \in Units : shares[u] # 0}
       /\ \A u \in DOMAIN parts \ W : parts[u] = Floor(u)
       /\ \A u \in W, v \in DOMAIN parts \ W :
            Rest(u) > Rest(v) \/ (Rest(u) = Rest(v) /\ Position[u] < Position[v])
==============================================================================
