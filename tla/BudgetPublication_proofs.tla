----------------------- MODULE BudgetPublication_proofs -----------------------
(***************************************************************************)
(* For any number of budgets, expenses, units and concurrent requests: a   *)
(* published budget is frozen, and every request takes effect at one       *)
(* instant.  Of any amount, any number of units and any shares: the parts  *)
(* of the division add up to the amount and follow the largest remainders. *)
(***************************************************************************)
EXTENDS BudgetPublication, AllocationInputs, SumTheorems

\* The parts of the type invariant the proofs use.
Rows ==
  /\ draft \in [Budgets -> BOOLEAN]
  /\ live \in [Budgets -> BOOLEAN]
  /\ expense \in [Budgets -> [Expenses -> 0 .. MaxAmount]]
  /\ phase \in [Sessions -> Phases]
  /\ budget \in [Sessions -> Budgets \cup {NoBudget}]
  /\ DOMAIN cotisation = Budgets
  /\ DOMAIN total = Sessions
  /\ DOMAIN pending = Sessions
  /\ unit \in [Sessions -> Units \cup {NoUnit}]
  /\ newShare \in [Sessions -> 0 .. MaxShare]

\* A session that holds a row lock holds that of a live draft, and alone.
RowHolders ==
  \A s \in Sessions : HoldsRow(s) =>
    /\ budget[s] \in Budgets
    /\ Editable(budget[s])
    /\ \A r \in Sessions : HoldsRow(r) /\ budget[r] = budget[s] => r = s

\* A session about to write a label knows its budget; one that writes a unit, its unit.
Writers ==
  /\ \A s \in Sessions : phase[s] = "label" => budget[s] \in Budgets
  /\ \A s \in Sessions : phase[s] = "unit" => unit[s] \in Units

\* The amount a publication has read is still the sum of the expenses.
AmountsCurrent ==
  \A s \in Sessions :
    phase[s] \in {"preview", "queue", "allocate", "commit"} =>
      total[s] = Total(expense[budget[s]])

\* Nobody writes a unit while a publication holds the table, so what it has allocated
\* is still the division by the current shares.
AllocationsCurrent ==
  \A s \in Sessions :
    /\ phase[s] \in {"allocate", "commit"} => \A r \in Sessions : phase[r] # "unit"
    /\ phase[s] = "commit" =>
         /\ Divisible(total[s], share)
         /\ pending[s] = Allocate(total[s], share)

IInv == Rows /\ RowHolders /\ Writers /\ AmountsCurrent /\ AllocationsCurrent

------------------------------------------------------------------------------
LEMMA InitInvariant == Init => IInv
  BY BudgetPublicationAssumption, AllocationAssumption
  DEF Init, IInv, Rows, RowHolders, Writers, AmountsCurrent, AllocationsCurrent,
      HoldsRow, Phases, NoCotisation

LEMMA RollbackStep ==
  ASSUME IInv, NEW s \in Sessions, End(s), UNCHANGED tables
  PROVE IInv'
<1> USE DEF End, tables
<1>1. Rows'
  BY BudgetPublicationAssumption, AllocationAssumption DEF IInv, Rows, Phases
<1>2. RowHolders' /\ Writers'
  BY DEF IInv, Rows, RowHolders, Writers, HoldsRow, Editable, Phases
<1>3. AmountsCurrent' /\ AllocationsCurrent'
  BY DEF IInv, Rows, AmountsCurrent, AllocationsCurrent, Phases
<1> QED BY <1>1, <1>2, <1>3 DEF IInv

LEMMA LockStep ==
  ASSUME IInv, NEW s \in Sessions, NEW b \in Budgets,
         LockDraftBudget(s, b) \/ PublishBudget(s, b)
  PROVE IInv'
<1>1. /\ phase[s] = "idle"
      /\ RowFree(b)
      /\ Editable(b)
      /\ \E p \in {"draft", "publish"} : phase' = [phase EXCEPT ![s] = p]
      /\ budget' = [budget EXCEPT ![s] = b]
      /\ UNCHANGED <<tables, row, total, pending, unit, newShare>>
  BY DEF LockDraftBudget, PublishBudget
<1> USE <1>1 DEF tables
<1>2. Rows'
  BY DEF IInv, Rows, Phases
<1>3. RowHolders' /\ Writers'
  BY DEF IInv, Rows, RowHolders, Writers, HoldsRow, RowFree, Editable, Phases
<1>4. AmountsCurrent' /\ AllocationsCurrent'
  BY DEF IInv, Rows, AmountsCurrent, AllocationsCurrent, Phases
<1> QED BY <1>2, <1>3, <1>4 DEF IInv

LEMMA ReadBudgetStep ==
  ASSUME IInv, NEW s \in Sessions, NEW b \in Budgets, ReadBudget(s, b)
  PROVE IInv'
<1> USE DEF ReadBudget, tables
<1>1. Rows'
  BY DEF IInv, Rows, Phases
<1>2. RowHolders' /\ Writers'
  BY DEF IInv, Rows, RowHolders, Writers, HoldsRow, Editable, Phases
<1>3. AmountsCurrent' /\ AllocationsCurrent'
  BY DEF IInv, Rows, AmountsCurrent, AllocationsCurrent, Phases
<1> QED BY <1>1, <1>2, <1>3 DEF IInv

LEMMA WriteUnitStep ==
  ASSUME IInv, NEW s \in Sessions, NEW u \in Units, NEW n \in 0 .. MaxShare,
         WriteUnit(s, u, n)
  PROVE IInv'
<1> USE DEF WriteUnit, tables
<1>1. Rows'
  BY DEF IInv, Rows, Phases
<1>2. RowHolders' /\ Writers'
  BY DEF IInv, Rows, RowHolders, Writers, HoldsRow, Editable, Phases
<1>3. AmountsCurrent' /\ AllocationsCurrent'
  BY DEF IInv, Rows, AmountsCurrent, AllocationsCurrent, SharesUnits, Phases
<1> QED BY <1>1, <1>2, <1>3 DEF IInv

LEMMA ReadAmountStep ==
  ASSUME IInv, NEW s \in Sessions, ReadAmount(s)
  PROVE IInv'
<1>1. CASE ~Divisible(Amount(budget[s]), share)
  BY <1>1, RollbackStep DEF ReadAmount
<1>2. CASE Divisible(Amount(budget[s]), share)
  <2> USE <1>2 DEF ReadAmount, Amount, tables
  <2>1. Rows'
    BY DEF IInv, Rows, Phases
  <2>2. RowHolders' /\ Writers'
    BY DEF IInv, Rows, RowHolders, Writers, HoldsRow, Editable, Phases
  <2>3. AmountsCurrent' /\ AllocationsCurrent'
    BY DEF IInv, Rows, AmountsCurrent, AllocationsCurrent, Phases
  <2> QED BY <2>1, <2>2, <2>3 DEF IInv
<1> QED BY <1>1, <1>2

LEMMA QueueStep ==
  ASSUME IInv, NEW s \in Sessions, RequestUnits(s) \/ LockUnits(s)
  PROVE IInv'
<1> USE DEF RequestUnits, LockUnits, WritesUnits, tables, locals
<1>1. Rows'
  BY DEF IInv, Rows, Phases
<1>2. RowHolders' /\ Writers'
  BY DEF IInv, Rows, RowHolders, Writers, HoldsRow, Editable, Phases
<1>3. AmountsCurrent' /\ AllocationsCurrent'
  BY DEF IInv, Rows, AmountsCurrent, AllocationsCurrent, Phases
<1> QED BY <1>1, <1>2, <1>3 DEF IInv

LEMMA AllocateStep ==
  ASSUME IInv, NEW s \in Sessions, AllocateBudget(s)
  PROVE IInv'
<1>1. CASE ~Divisible(total[s], share)
  BY <1>1, RollbackStep DEF AllocateBudget
<1>2. CASE Divisible(total[s], share)
  <2> USE <1>2 DEF AllocateBudget, tables
  <2>1. Rows'
    BY DEF IInv, Rows, Phases
  <2>2. RowHolders' /\ Writers'
    BY DEF IInv, Rows, RowHolders, Writers, HoldsRow, Editable, Phases
  <2>3. AmountsCurrent' /\ AllocationsCurrent'
    BY DEF IInv, Rows, AmountsCurrent, AllocationsCurrent, Phases
  <2> QED BY <2>1, <2>2, <2>3 DEF IInv
<1> QED BY <1>1, <1>2

------------------------------------------------------------------------------
(* The commits: the session that writes a budget is the only one that holds its row, *)
(* so no other session has read what changes.                                        *)

LEMMA CommitExpenseStep ==
  ASSUME IInv, NEW s \in Sessions, NEW x \in Expenses, NEW a \in 0 .. MaxAmount,
         phase[s] = "draft", CommitExpense(s, x, a)
  PROVE IInv' /\ Promise!Next
<1>0. budget[s] \in Budgets /\ HoldsRow(s) /\ Editable(budget[s])
  BY DEF IInv, RowHolders, HoldsRow
<1>1. Rows'
  BY <1>0, BudgetPublicationAssumption, AllocationAssumption DEF IInv, Rows, Phases, CommitExpense, End
<1>2. RowHolders' /\ Writers'
  BY DEF IInv, Rows, RowHolders, Writers, HoldsRow, Editable, Phases, CommitExpense, End
<1>3. \A r \in Sessions : r # s /\ HoldsRow(r) =>
        budget[r] \in Budgets /\ expense'[budget[r]] = expense[budget[r]]
  BY <1>0 DEF IInv, Rows, RowHolders, CommitExpense
<1>4. AmountsCurrent' /\ AllocationsCurrent'
  BY <1>3 DEF IInv, Rows, AmountsCurrent, AllocationsCurrent, HoldsRow, Phases,
              CommitExpense, End
<1>5. Promise!SetExpense(budget[s], x, a)
  BY <1>0 DEF CommitExpense, Editable, Promise!SetExpense, Promise!Editable
<1> QED BY <1>0, <1>1, <1>2, <1>4, <1>5 DEF IInv, Promise!Next

LEMMA DeleteBudgetStep ==
  ASSUME IInv, NEW s \in Sessions, DeleteBudget(s)
  PROVE IInv' /\ Promise!Next
<1>0. budget[s] \in Budgets /\ HoldsRow(s) /\ Editable(budget[s])
  BY DEF IInv, RowHolders, HoldsRow, DeleteBudget
<1>1. Rows'
  BY <1>0, BudgetPublicationAssumption, AllocationAssumption
  DEF IInv, Rows, Phases, DeleteBudget, End
<1>2. \A r \in Sessions : r # s /\ HoldsRow(r) =>
        /\ budget[r] \in Budgets
        /\ expense'[budget[r]] = expense[budget[r]]
        /\ live'[budget[r]] = live[budget[r]]
  BY <1>0 DEF IInv, Rows, RowHolders, DeleteBudget
<1>3. RowHolders' /\ Writers'
  BY <1>2 DEF IInv, Rows, RowHolders, Writers, HoldsRow, Editable, Phases, DeleteBudget, End
<1>4. AmountsCurrent' /\ AllocationsCurrent'
  BY <1>2 DEF IInv, Rows, AmountsCurrent, AllocationsCurrent, HoldsRow, Phases,
              DeleteBudget, End
<1>5. Promise!Delete(budget[s])
  BY <1>0 DEF DeleteBudget, Editable, Promise!Delete, Promise!Editable
<1> QED BY <1>0, <1>1, <1>3, <1>4, <1>5 DEF IInv, Promise!Next

LEMMA CommitPublicationStep ==
  ASSUME IInv, NEW s \in Sessions, CommitPublication(s)
  PROVE IInv' /\ Promise!Next
<1>0. budget[s] \in Budgets /\ HoldsRow(s) /\ Editable(budget[s])
  BY DEF IInv, RowHolders, HoldsRow, CommitPublication
<1>1. Rows'
  BY <1>0, BudgetPublicationAssumption, AllocationAssumption DEF IInv, Rows, Phases, CommitPublication, End
<1>2. \A r \in Sessions : r # s /\ HoldsRow(r) =>
        budget[r] \in Budgets /\ draft'[budget[r]] = draft[budget[r]]
  BY <1>0 DEF IInv, Rows, RowHolders, CommitPublication
<1>3. RowHolders' /\ Writers'
  BY <1>2 DEF IInv, Rows, RowHolders, Writers, HoldsRow, Editable, Phases,
              CommitPublication, End
<1>4. AmountsCurrent' /\ AllocationsCurrent'
  BY DEF IInv, Rows, AmountsCurrent, AllocationsCurrent, Phases, CommitPublication, End
<1>5. /\ total[s] = Total(expense[budget[s]])
      /\ Divisible(total[s], share)
      /\ pending[s] = Allocate(total[s], share)
  BY DEF IInv, AmountsCurrent, AllocationsCurrent, CommitPublication
<1>6. Promise!Publish(budget[s])
  BY <1>0, <1>5 DEF CommitPublication, Editable, Promise!Publish, Promise!Editable
<1> QED BY <1>0, <1>1, <1>3, <1>4, <1>6 DEF IInv, Promise!Next

LEMMA CommitUnitStep ==
  ASSUME IInv, NEW s \in Sessions, CommitUnit(s)
  PROVE IInv' /\ Promise!Next
<1>0. unit[s] \in Units /\ newShare[s] \in 0 .. MaxShare
  BY DEF IInv, Rows, Writers, CommitUnit
<1>1. Rows'
  BY BudgetPublicationAssumption, AllocationAssumption DEF IInv, Rows, Phases, CommitUnit, End
<1>2. RowHolders' /\ Writers'
  BY DEF IInv, Rows, RowHolders, Writers, HoldsRow, Editable, Phases, CommitUnit, End
<1>3. \A r \in Sessions : phase[r] \notin {"allocate", "commit"}
  BY DEF IInv, AllocationsCurrent, CommitUnit
<1>4. AmountsCurrent' /\ AllocationsCurrent'
  BY <1>3 DEF IInv, Rows, AmountsCurrent, AllocationsCurrent, Phases, CommitUnit, End
<1>5. Promise!SetShare(unit[s], newShare[s])
  BY DEF CommitUnit, Promise!SetShare
<1> QED BY <1>0, <1>1, <1>2, <1>4, <1>5 DEF IInv, Promise!Next

LEMMA WriteLabelStep ==
  ASSUME IInv, NEW s \in Sessions, NEW l \in Labels, WriteLabel(s, l)
  PROVE IInv'
<1>1. Rows'
  BY BudgetPublicationAssumption, AllocationAssumption DEF IInv, Rows, Phases, WriteLabel, End
<1>2. RowHolders' /\ Writers'
  BY DEF IInv, Rows, RowHolders, Writers, HoldsRow, Editable, Phases, WriteLabel, End
<1>3. AmountsCurrent' /\ AllocationsCurrent'
  BY DEF IInv, Rows, AmountsCurrent, AllocationsCurrent, Phases, WriteLabel, End
<1> QED BY <1>1, <1>2, <1>3 DEF IInv

------------------------------------------------------------------------------
(* The specification *)

\* Every step keeps the invariant and is, for the promise, one step or none.
LEMMA NextStep ==
  ASSUME IInv, Next
  PROVE IInv' /\ (Promise!Next \/ UNCHANGED Promise!vars)
<1>1. PICK s \in Sessions : Begin(s) \/ Proceed(s) \/ Rollback(s)
  BY DEF Next
<1>2. CASE Begin(s)
  <2>1. CASE \E b \in Budgets : LockDraftBudget(s, b) \/ ReadBudget(s, b) \/ PublishBudget(s, b)
    <3>1. IInv'
      BY <2>1, LockStep, ReadBudgetStep
    <3>2. UNCHANGED Promise!vars
      BY <2>1 DEF LockDraftBudget, ReadBudget, PublishBudget, tables, Promise!vars
    <3> QED BY <3>1, <3>2
  <2>2. CASE \E u \in Units :
              \/ \E n \in 1 .. MaxShare : CreateUnit(s, u, n) \/ UpdateUnit(s, u, n)
              \/ DeleteUnit(s, u)
    <3>1. PICK u \in Units, n \in 0 .. MaxShare : WriteUnit(s, u, n)
      BY <2>2, BudgetPublicationAssumption, AllocationAssumption DEF CreateUnit, UpdateUnit, DeleteUnit
    <3>2. IInv'
      BY <3>1, WriteUnitStep
    <3>3. UNCHANGED Promise!vars
      BY <3>1 DEF WriteUnit, tables, Promise!vars
    <3> QED BY <3>2, <3>3
  <2> QED BY <1>2, <2>1, <2>2 DEF Begin
<1>3. CASE Proceed(s)
  <2>1. CASE \E x \in Expenses :
              \/ \E amount \in 1 .. MaxAmount : CreateExpense(s, x, amount) \/ UpdateExpense(s, x, amount)
              \/ DeleteExpense(s, x)
    <3>1. PICK x \in Expenses, a \in 0 .. MaxAmount : phase[s] = "draft" /\ CommitExpense(s, x, a)
      BY <2>1, AllocationAssumption DEF CreateExpense, UpdateExpense, DeleteExpense
    <3> QED BY <3>1, CommitExpenseStep
  <2>2. CASE \E l \in Labels : WriteLabel(s, l)
    BY <2>2, WriteLabelStep DEF WriteLabel, Promise!vars
  <2>3. CASE DeleteBudget(s) \/ CommitUnit(s) \/ CommitPublication(s)
    BY <2>3, DeleteBudgetStep, CommitUnitStep, CommitPublicationStep
  <2>4. CASE ReadAmount(s) \/ RequestUnits(s) \/ LockUnits(s) \/ AllocateBudget(s)
    <3>1. IInv'
      BY <2>4, ReadAmountStep, QueueStep, AllocateStep
    <3>2. UNCHANGED Promise!vars
      BY <2>4 DEF ReadAmount, RequestUnits, LockUnits, AllocateBudget, tables, Promise!vars
    <3> QED BY <3>1, <3>2
  <2> QED BY <1>3, <2>1, <2>2, <2>3, <2>4 DEF Proceed
<1>4. CASE Rollback(s)
  <2>1. IInv'
    BY <1>4, RollbackStep DEF Rollback
  <2>2. UNCHANGED Promise!vars
    BY <1>4 DEF Rollback, tables, Promise!vars
  <2> QED BY <2>1, <2>2
<1> QED BY <1>1, <1>2, <1>3, <1>4

LEMMA StutterStep ==
  ASSUME IInv, UNCHANGED vars
  PROVE IInv'
BY DEF vars, IInv, Rows, RowHolders, Writers, AmountsCurrent, AllocationsCurrent,
       HoldsRow, Editable

\* The locks do what the handlers count on: whoever holds a budget row holds a live
\* draft, alone, and the amount and the shares it goes on with are the current ones.
THEOREM InvariantHolds == Spec => []IInv
<1>1. IInv /\ [Next]_vars => IInv'
  BY NextStep, StutterStep
<1> QED BY InitInvariant, <1>1, PTL DEF Spec

\* Every request takes effect at one instant: a publication is, at its commit, the
\* division of the expenses of that instant between the units of that instant.
THEOREM PublicationIsAtomic == Spec => ImplementsAtomicBudget
<1>1. Init => Promise!Init
  BY DEF Init, NoCotisation, Promise!Init
<1>2. IInv /\ [Next]_vars => [Promise!Next]_(Promise!vars)
  BY NextStep DEF vars, Promise!vars
<1> QED BY InvariantHolds, <1>1, <1>2, PTL DEF Spec, ImplementsAtomicBudget, Promise!Spec

\* No step of the promise touches a published budget.
LEMMA PromiseFreezes ==
  ASSUME Rows, Promise!Next, NEW b \in Budgets, ~draft[b]
  PROVE /\ ~draft'[b]
        /\ live'[b] = live[b]
        /\ expense'[b] = expense[b]
        /\ cotisation'[b] = cotisation[b]
BY DEF Rows, Promise!Next, Promise!SetExpense, Promise!SetShare, Promise!Publish,
       Promise!Delete, Promise!Editable

\* A published budget is never drafted again, changed or deleted, by whatever requests
\* run at the same time.
THEOREM PublishedStaysFrozen == Spec => PublishedIsFrozen
<1> DEFINE Frozen == \A b \in Budgets : ~draft[b] =>
             /\ ~draft'[b]
             /\ live'[b] = live[b]
             /\ expense'[b] = expense[b]
             /\ cotisation'[b] = cotisation[b]
<1>1. ASSUME IInv, Next
      PROVE Frozen
  <2>1. CASE Promise!Next
    BY <1>1, <2>1, PromiseFreezes DEF IInv
  <2>2. CASE UNCHANGED Promise!vars
    BY <2>2 DEF Promise!vars
  <2> QED BY <1>1, <2>1, <2>2, NextStep
<1>2. IInv /\ [Next]_vars => [Frozen]_vars
  BY <1>1
<1> QED BY InvariantHolds, <1>2, PTL DEF Spec, PublishedIsFrozen

------------------------------------------------------------------------------
(* The division: its order ranks the units, as many cents are left over as  *)
(* the order hands out, so the parts add up to the amount.                  *)

LEMMA DivisionFacts ==
  ASSUME NEW x \in Nat, NEW n \in Nat \ {0}
  PROVE  /\ x \div n \in Nat /\ x % n \in 0 .. n - 1
         /\ x = n * (x \div n) + (x % n)
<1>1. \A y \in Nat, m \in Nat \ {0} : y \div m \in Nat
  BY SMT
<1>2. \A y \in Nat, m \in Nat \ {0} : y % m \in 0 .. m - 1
  BY SMT
<1>3. \A y \in Nat, m \in Nat \ {0} : y = m * (y \div m) + (y % m)
  BY SMT
<1> QED
  BY <1>1, <1>2, <1>3

LEMMA SharesAreCounted ==
  ASSUME NEW sh \in [Units -> Nat]
  PROVE  /\ TotalShares(sh) \in Nat
         /\ IsFiniteSet(Holders(sh)) /\ Holders(sh) \subseteq Units
         /\ Cardinality(Holders(sh)) \in Nat
         /\ SumFunctionOnSet(sh, Holders(sh)) = TotalShares(sh)
<1>1. IsFiniteSet(Units)
  BY AllocationAssumption
<1>2. IsFiniteSet(Holders(sh)) /\ Holders(sh) \in SUBSET Units
  BY <1>1, FS_Subset DEF Holders
<1>3. Integral(sh, Units) /\ \A u \in Units : sh[u] \in Nat
  BY DEF Integral
<1>4. TotalShares(sh) = SumFunctionOnSet(sh, Holders(sh)) + SumFunctionOnSet(sh, Units \ Holders(sh))
  BY <1>1, <1>2, <1>3, SumSplit DEF TotalShares
<1>5. SumFunctionOnSet(sh, Units \ Holders(sh)) = 0
  <2>1. \A u \in Units \ Holders(sh) : sh[u] = 0
    BY DEF Holders
  <2>2. IsFiniteSet(Units \ Holders(sh))
    BY <1>1, FS_Subset
  <2> QED
    BY <2>1, <2>2, SumOfZeros
<1>6. TotalShares(sh) \in Nat /\ SumFunctionOnSet(sh, Holders(sh)) \in Nat
  BY <1>1, <1>2, <1>3, SumNotNegative DEF TotalShares
<1> QED
  BY <1>2, <1>4, <1>5, <1>6, FS_CardinalityType

LEMMA PartsAreNumbers ==
  ASSUME NEW a \in Nat, NEW sh \in [Units -> Nat], TotalShares(sh) > 0, NEW u \in Units
  PROVE  /\ Quotient(a, sh, u) \in Nat
         /\ Remainder(a, sh, u) \in 0 .. TotalShares(sh) - 1
         /\ a * sh[u] = TotalShares(sh) * Quotient(a, sh, u) + Remainder(a, sh, u)
<1>1. TotalShares(sh) \in Nat \ {0} /\ a * sh[u] \in Nat
  BY SharesAreCounted
<1> QED
  BY <1>1, DivisionFacts DEF Quotient, Remainder

LEMMA AheadIsOrder ==
  ASSUME NEW a \in Nat, NEW sh \in [Units -> Nat], TotalShares(sh) > 0,
         NEW u \in Units, NEW v \in Units
  PROVE  /\ ~(Ahead(a, sh, u, v) /\ Ahead(a, sh, v, u))
         /\ u # v => Ahead(a, sh, u, v) \/ Ahead(a, sh, v, u)
         /\ \A w \in Units : Ahead(a, sh, u, v) /\ Ahead(a, sh, v, w) => Ahead(a, sh, u, w)
<1>1. \A w \in Units : Remainder(a, sh, w) \in Int /\ Position[w] \in Nat
  <2> TAKE w \in Units
  <2>1. TotalShares(sh) \in Nat /\ Remainder(a, sh, w) \in 0 .. TotalShares(sh) - 1
    BY PartsAreNumbers, SharesAreCounted
  <2> QED
    BY <2>1, AllocationAssumption
<1>2. Position[u] = Position[v] => u = v
  BY AllocationAssumption
<1> QED
  BY <1>1, <1>2 DEF Ahead

\* The units ahead of one with shares are fewer than those ahead of a later one.
LEMMA RanksFollowOrder ==
  ASSUME NEW a \in Nat, NEW sh \in [Units -> Nat], TotalShares(sh) > 0,
         NEW u \in Holders(sh), NEW v \in Holders(sh)
  PROVE  /\ Rank(a, sh, u) \in Nat
         /\ Ahead(a, sh, u, v) => Rank(a, sh, u) < Rank(a, sh, v)
<1> DEFINE Front(w) == {x \in Holders(sh) : Ahead(a, sh, x, w)}
<1>1. \A w : IsFiniteSet(Front(w)) /\ Cardinality(Front(w)) \in Nat /\ Rank(a, sh, w) = Cardinality(Front(w))
  BY SharesAreCounted, FS_Subset, FS_CardinalityType DEF Rank
<1>2. ASSUME Ahead(a, sh, u, v) PROVE Cardinality(Front(u)) < Cardinality(Front(v))
  <2>1. Holders(sh) \subseteq Units
    BY SharesAreCounted
  <2>2. Front(u) \subseteq Front(v) /\ u \in Front(v) /\ u \notin Front(u)
    BY <1>2, <2>1, AheadIsOrder
  <2>3. Front(u) # Front(v)
    BY <2>2
  <2> HIDE DEF Front
  <2>4. Cardinality(Front(u)) <= Cardinality(Front(v)) /\ Cardinality(Front(u)) # Cardinality(Front(v))
    BY <1>1, <2>2, <2>3, FS_Subset
  <2> QED
    BY <1>1, <2>4
<1> HIDE DEF Front
<1> QED
  BY <1>1, <1>2

\* The first n ranks are those of n units.
LEMMA RanksAreTaken ==
  ASSUME NEW a \in Nat, NEW sh \in [Units -> Nat], TotalShares(sh) > 0,
         NEW n \in Nat, n <= Cardinality(Holders(sh))
  PROVE  Cardinality({u \in Holders(sh) : Rank(a, sh, u) < n}) = n
<1> DEFINE H == Holders(sh)
           First(k) == {u \in H : Rank(a, sh, u) < k}
           Bad == {k \in Nat : k <= Cardinality(H) /\ Cardinality(First(k)) # k}
<1>1. IsFiniteSet(H) /\ H \subseteq Units /\ Cardinality(H) \in Nat
  BY SharesAreCounted
<1>2. \A u \in H : Rank(a, sh, u) \in Nat
  BY RanksFollowOrder
<1> SUFFICES ASSUME Bad # {} PROVE FALSE
  OBVIOUS
<1>3. PICK k \in Bad : \A m \in Bad : k <= m
  BY LeastNumber
<1>4. k # 0
  <2>1. First(0) = {}
    BY <1>2
  <2> QED
    BY <2>1, FS_EmptySet
<1>5. k - 1 \in Nat /\ k - 1 < k /\ k <= Cardinality(H) /\ k \in Nat /\ Cardinality(First(k)) # k
  BY <1>4
<1>6. Cardinality(First(k - 1)) = k - 1
  <2>1. k - 1 \notin Bad
    BY <1>3, <1>5
  <2> QED
    BY <1>1, <1>5, <2>1
<1> HIDE DEF Bad
<1> DEFINE Later == H \ First(k - 1)
<1>7. Later # {}
  BY <1>1, <1>5, <1>6
<1>8. PICK m \in Later : \A v \in Later : Rank(a, sh, m) <= Rank(a, sh, v)
  <2> DEFINE R == {Rank(a, sh, v) : v \in Later}
  <2>1. R \subseteq Nat /\ R # {}
    BY <1>2, <1>7
  <2>2. PICK r \in R : \A q \in R : r <= q
    BY <2>1, LeastNumber
  <2> QED
    BY <2>2
<1>9. \A v \in Later \ {m} : Ahead(a, sh, m, v)
  <2> TAKE v \in Later \ {m}
  <2>1. ~Ahead(a, sh, v, m)
    BY <1>2, <1>8, RanksFollowOrder
  <2> QED
    BY <1>1, <2>1, AheadIsOrder
<1>10. {x \in H : Ahead(a, sh, x, m)} = First(k - 1)
  <2>1. ASSUME NEW x \in H, Ahead(a, sh, x, m) PROVE x \in First(k - 1)
    BY <1>1, <1>9, <2>1, AheadIsOrder
  <2>2. ASSUME NEW x \in First(k - 1) PROVE Ahead(a, sh, x, m)
    <3>1. Rank(a, sh, x) < k - 1 /\ ~(Rank(a, sh, m) < k - 1)
      BY <2>2
    <3>2. ~Ahead(a, sh, m, x) /\ m # x
      BY <1>2, <1>5, <3>1, RanksFollowOrder
    <3> QED
      BY <1>1, <3>2, AheadIsOrder
  <2> QED
    BY <2>1, <2>2
<1>11. Rank(a, sh, m) = k - 1
  BY <1>6, <1>10 DEF Rank
<1>12. First(k) = First(k - 1) \cup {m}
  <2>1. First(k - 1) \subseteq First(k) /\ m \in First(k)
    BY <1>2, <1>5, <1>11
  <2>2. ASSUME NEW v \in Later \ {m} PROVE v \notin First(k)
    <3>1. Ahead(a, sh, m, v) /\ m \in H /\ v \in H
      BY <1>9
    <3>2. Rank(a, sh, m) < Rank(a, sh, v) /\ Rank(a, sh, v) \in Nat
      BY <3>1, RanksFollowOrder
    <3> QED
      BY <1>5, <1>11, <3>2
  <2> QED
    BY <2>1, <2>2
<1>13. IsFiniteSet(First(k - 1)) /\ m \notin First(k - 1)
  BY <1>1, FS_Subset
<1> HIDE DEF First
<1>14. Cardinality(First(k - 1) \cup {m}) = Cardinality(First(k - 1)) + 1
  BY <1>13, FS_AddElement, Zenon
<1> QED
  BY <1>5, <1>6, <1>12, <1>14

\* What rounding down leaves over is a number of cents between none and one per unit.
LEMMA LeftoverFits ==
  ASSUME NEW a \in Nat, NEW sh \in [Units -> Nat], TotalShares(sh) > 0
  PROVE  /\ Leftover(a, sh) \in Nat
         /\ Leftover(a, sh) <= Cardinality(Holders(sh))
         /\ SumFunction([u \in Holders(sh) |-> Quotient(a, sh, u)]) = a - Leftover(a, sh)
<1> DEFINE H == Holders(sh)
           T == TotalShares(sh)
           q == [u \in H |-> Quotient(a, sh, u)]
           r == [u \in H |-> Remainder(a, sh, u)]
           e == [u \in H |-> a * sh[u]]
           tq == [u \in H |-> T * Quotient(a, sh, u)]
<1>1. /\ IsFiniteSet(H) /\ H \subseteq Units /\ Cardinality(H) \in Nat /\ T \in Nat \ {0}
      /\ SumFunctionOnSet(sh, H) = T
  BY SharesAreCounted
<1>2. \A u \in H : /\ q[u] \in Nat /\ r[u] \in Nat /\ r[u] <= T - 1
                   /\ tq[u] = T * q[u] /\ tq[u] \in Int
                   /\ e[u] = a * sh[u] /\ e[u] = tq[u] + r[u]
                   /\ sh[u] \in Int
  BY <1>1, PartsAreNumbers
<1>3. SumFunction(q) = SumFunctionOnSet(q, H)
  BY SumOfFunction
<1>4. Leftover(a, sh) = a - SumFunctionOnSet(q, H)
  BY <1>3 DEF Leftover
<1> HIDE DEF H, T, q, r, e, tq
<1>5. Integral(q, H) /\ Integral(r, H) /\ Integral(tq, H) /\ Integral(sh, H)
  BY <1>2 DEF Integral
<1>6. SumFunctionOnSet(e, H) = a * T
  BY <1>1, <1>2, <1>5, SumScaled
<1>7. SumFunctionOnSet(tq, H) = T * SumFunctionOnSet(q, H)
  BY <1>1, <1>2, <1>5, SumScaled
<1>8. SumFunctionOnSet(e, H) = SumFunctionOnSet(tq, H) + SumFunctionOnSet(r, H)
  BY <1>1, <1>2, <1>5, SumOfSums
<1>9. SumFunctionOnSet(r, H) \in Nat /\ SumFunctionOnSet(q, H) \in Nat
  BY <1>1, <1>2, SumNotNegative
<1>10. SumFunctionOnSet(r, H) <= (T - 1) * Cardinality(H)
  BY <1>1, <1>2, <1>5, SumBounded
<1> DEFINE Q == SumFunctionOnSet(q, H)
           R == SumFunctionOnSet(r, H)
           c == Cardinality(H)
<1>11. /\ a * T = T * Q + R /\ R <= (T - 1) * c /\ a \in Nat
       /\ Q \in Nat /\ R \in Nat /\ c \in Nat /\ T \in Nat \ {0}
  BY <1>1, <1>6, <1>7, <1>8, <1>9, <1>10
<1>12. Leftover(a, sh) = a - Q
  BY <1>4
<1> HIDE DEF Q, R, c
<1>13. T * (a - Q) = R
  <2>1. T * (a - Q) = a * T - T * Q
    BY <1>11
  <2> QED
    BY <1>11, <2>1
<1>14. a - Q \in Nat
  <2>1. ASSUME a - Q < 0 PROVE FALSE
    <3>1. T * (a - Q) < 0
      BY <1>11, <2>1
    <3> QED
      BY <1>11, <1>13, <3>1
  <2> QED
    BY <1>11, <2>1
<1>15. a - Q <= c
  <2>1. ASSUME a - Q > c PROVE FALSE
    <3>1. T * (a - Q) > T * c
      BY <1>11, <1>14, <2>1
    <3>2. (T - 1) * c <= T * c
      BY <1>11
    <3> QED
      BY <1>11, <1>13, <3>1, <3>2
  <2> QED
    BY <1>11, <1>14, <2>1
<1> QED
  BY <1>3, <1>11, <1>12, <1>14, <1>15 DEF Q, q, H, c

\* Whatever the amount and the shares, the parts of the units add up to the amount, to
\* the cent, and none is negative or more than all of it (Allocate, README.md:250).
THEOREM AllocationIsExact ==
  ASSUME NEW a \in Nat, NEW sh \in [Units -> Nat], TotalShares(sh) > 0
  PROVE  /\ SumFunction(Allocate(a, sh)) = a
         /\ Allocate(a, sh) \in [Holders(sh) -> 0 .. a]
<1> DEFINE H == Holders(sh)
           L == Leftover(a, sh)
           W == {u \in H : Rank(a, sh, u) < L}
           q == [u \in H |-> Quotient(a, sh, u)]
           one == [u \in H |-> IF Rank(a, sh, u) < L THEN 1 ELSE 0]
           p == Allocate(a, sh)
<1>1. IsFiniteSet(H) /\ H \subseteq Units
  BY SharesAreCounted
<1>2. DOMAIN p = H /\ DOMAIN q = H /\ p = [u \in H |-> p[u]]
  BY DEF Allocate
<1>3. \A u \in H : /\ q[u] \in Nat /\ one[u] \in {0, 1} /\ p[u] = q[u] + one[u]
                   /\ u \in W => one[u] = 1
                   /\ u \notin W => one[u] = 0
  BY <1>1, PartsAreNumbers DEF Allocate
<1>4. L \in Nat /\ Cardinality(W) = L /\ SumFunction(q) = a - L
  BY LeftoverFits, RanksAreTaken
<1>5. W \in SUBSET H
  OBVIOUS
<1> HIDE DEF H, L, W, q, one, p
<1>6. SumFunction(p) = SumFunctionOnSet(p, H) /\ SumFunction(q) = SumFunctionOnSet(q, H)
  BY <1>2, SumOfFunction
<1>7. Integral(q, H) /\ Integral(one, H) /\ \A u \in H : p[u] \in Nat
  BY <1>3 DEF Integral
<1>8. SumFunctionOnSet(p, H) = SumFunctionOnSet(q, H) + SumFunctionOnSet(one, H)
  BY <1>1, <1>3, <1>7, SumOfSums
<1>9. SumFunctionOnSet(one, H) = L
  <2>1. IsFiniteSet(W) /\ IsFiniteSet(H \ W)
    BY <1>1, <1>5, FS_Subset
  <2>2. SumFunctionOnSet(one, W) = L
    BY <1>3, <1>4, <1>5, <2>1, SumOfOnes
  <2>3. SumFunctionOnSet(one, H \ W) = 0
    BY <1>3, <2>1, SumOfZeros
  <2>4. SumFunctionOnSet(one, H) = SumFunctionOnSet(one, W) + SumFunctionOnSet(one, H \ W)
    BY <1>1, <1>5, <1>7, SumSplit
  <2> QED
    BY <1>4, <2>2, <2>3, <2>4
<1>10. SumFunction(p) = a /\ SumFunctionOnSet(p, H) = a
  BY <1>4, <1>6, <1>8, <1>9
<1>11. \A u \in H : p[u] \in 0 .. a
  BY <1>1, <1>7, <1>10, PartOfSum
<1>12. p \in [H -> 0 .. a]
  BY <1>2, <1>11
<1> QED
  BY <1>10, <1>12 DEF p, H

LEMMA NothingAllocated == SumFunction(NotAllocated) = 0
<1>1. DOMAIN NotAllocated = {}
  BY DEF NotAllocated
<1> QED
  BY <1>1, SumOfFunction, SumOfNone

LEMMA SharesAreNat == [Units -> 0 .. MaxShare] \subseteq [Units -> Nat]
<1>1. 0 .. MaxShare \subseteq Nat
  BY AllocationAssumption
<1> QED
  BY <1>1

LEMMA DivisibleSays ==
  ASSUME NEW a, NEW sh \in [Units -> 0 .. MaxShare], Divisible(a, sh)
  PROVE  /\ a \in 1 .. MaxAmount /\ a \in Nat /\ a > 0
         /\ sh \in [Units -> Nat] /\ TotalShares(sh) > 0
BY SharesAreNat, AllocationAssumption DEF Divisible, Valid

\* Of any amount over any shares, the parts add up to the amount.
THEOREM AllocationsAreExact == Allocations => []SumIsExact
<1> DEFINE Inv == SumIsExact /\ shares \in [Units -> 0 .. MaxShare]
<1>1. AnyShares => Inv
  BY NothingAllocated DEF AnyShares, SumIsExact
<1>2. Inv /\ [AllocateOne]_inputs => Inv'
  <2> SUFFICES ASSUME Inv, [AllocateOne]_inputs PROVE Inv'
    OBVIOUS
  <2>1. ASSUME NEW a \in 0 .. MaxAmount, AllocateAny(a) PROVE Inv'
    <3>1. a \in Nat /\ shares \in [Units -> Nat] /\ TotalShares(shares) > 0
      BY <2>1, DivisibleSays DEF AllocateAny
    <3>2. SumFunction(Allocate(a, shares)) = a
      BY <3>1, AllocationIsExact
    <3> QED
      BY <2>1, <3>2 DEF AllocateAny, SumIsExact
  <2>2. ASSUME UNCHANGED inputs PROVE Inv'
    BY <2>2 DEF inputs, SumIsExact
  <2> QED
    BY <2>1, <2>2 DEF AllocateOne
<1> QED
  BY <1>1, <1>2, PTL DEF Allocations

\* LargestRemaindersFirst, of some amount, shares and parts.
RemaindersFirst(a, sh, p) ==
  LET Floor(u) == (a * sh[u]) \div TotalShares(sh)
      Rest(u) == a * sh[u] - Floor(u) * TotalShares(sh)
      W == {u \in DOMAIN p : p[u] = Floor(u) + 1}
  IN /\ DOMAIN p = {u \in Units : sh[u] # 0}
     /\ \A u \in DOMAIN p \ W : p[u] = Floor(u)
     /\ \A u \in W, v \in DOMAIN p \ W :
          Rest(u) > Rest(v) \/ (Rest(u) = Rest(v) /\ Position[u] < Position[v])

\* The order of ranks is the largest-remainder rule of the documentation.
LEMMA RanksFollowRemainders ==
  ASSUME NEW a \in Nat, NEW sh \in [Units -> Nat], TotalShares(sh) > 0
  PROVE  RemaindersFirst(a, sh, Allocate(a, sh))
<1> DEFINE Floor(u) == (a * sh[u]) \div TotalShares(sh)
           Rest(u) == a * sh[u] - Floor(u) * TotalShares(sh)
           p == Allocate(a, sh)
           W == {u \in DOMAIN p : p[u] = Floor(u) + 1}
<1>1. DOMAIN p = Holders(sh) /\ Holders(sh) = {u \in Units : sh[u] # 0}
  BY DEF Allocate, Holders
<1>2. \A u \in Units : /\ Floor(u) = Quotient(a, sh, u) /\ Floor(u) \in Nat
                       /\ Remainder(a, sh, u) \in Nat
                       /\ Rest(u) = Remainder(a, sh, u)
  <2> TAKE u \in Units
  <2>1. /\ Quotient(a, sh, u) \in Nat
        /\ Remainder(a, sh, u) \in 0 .. TotalShares(sh) - 1
        /\ a * sh[u] = TotalShares(sh) * Quotient(a, sh, u) + Remainder(a, sh, u)
    BY PartsAreNumbers
  <2>2. Floor(u) = Quotient(a, sh, u) /\ TotalShares(sh) \in Nat
    BY SharesAreCounted DEF Quotient
  <2> HIDE DEF Floor
  <2>3. Rest(u) = Remainder(a, sh, u)
    BY <2>1, <2>2
  <2> QED
    BY <2>1, <2>2, <2>3
<1>3. \A u \in Holders(sh) :
        p[u] = Quotient(a, sh, u) + IF Rank(a, sh, u) < Leftover(a, sh) THEN 1 ELSE 0
  BY DEF Allocate
<1>4. Holders(sh) \subseteq Units
  BY DEF Holders
<1> HIDE DEF p, Floor, Rest
<1>5. W = {u \in Holders(sh) : Rank(a, sh, u) < Leftover(a, sh)}
  BY <1>1, <1>2, <1>3, <1>4
<1>6. \A u \in DOMAIN p \ W : p[u] = Floor(u)
  BY <1>1, <1>2, <1>3, <1>4, <1>5
<1>7. ASSUME NEW u \in W, NEW v \in DOMAIN p \ W
      PROVE  Rest(u) > Rest(v) \/ (Rest(u) = Rest(v) /\ Position[u] < Position[v])
  <2>1. u \in Units /\ v \in Units /\ u \in Holders(sh) /\ v \in Holders(sh) /\ u # v
    BY <1>1, <1>4
  <2>2. /\ Rank(a, sh, u) \in Nat /\ Rank(a, sh, v) \in Nat /\ Leftover(a, sh) \in Nat
        /\ Rank(a, sh, u) < Leftover(a, sh) /\ ~(Rank(a, sh, v) < Leftover(a, sh))
    BY <1>1, <1>5, <2>1, RanksFollowOrder, LeftoverFits
  <2>3. ~Ahead(a, sh, v, u)
    BY <2>1, <2>2, RanksFollowOrder
  <2>4. Ahead(a, sh, u, v)
    BY <2>1, <2>3, AheadIsOrder
  <2> QED
    BY <1>2, <2>1, <2>4 DEF Ahead
<1>8. DOMAIN p = {u \in Units : sh[u] # 0}
  BY <1>1
<1> QED
  BY <1>6, <1>7, <1>8 DEF RemaindersFirst, p, Floor, Rest

\* Of any amount over any shares, the cents left by the rounding go to the largest
\* remainders, equal ones in the order of the units (README.md:247-249).
THEOREM AllocationsFollowRemainders == Allocations => []LargestRemaindersFirst
<1> DEFINE Inv == LargestRemaindersFirst /\ shares \in [Units -> 0 .. MaxShare]
<1>1. AnyShares => Inv
  BY DEF AnyShares, LargestRemaindersFirst
<1>2. Inv /\ [AllocateOne]_inputs => Inv'
  <2> SUFFICES ASSUME Inv, [AllocateOne]_inputs PROVE Inv'
    OBVIOUS
  <2>1. ASSUME NEW a \in 0 .. MaxAmount, AllocateAny(a) PROVE Inv'
    <3>1. a \in Nat /\ a > 0 /\ shares \in [Units -> Nat] /\ TotalShares(shares) > 0
      BY <2>1, DivisibleSays DEF AllocateAny
    <3>2. divided' = a /\ shares' = shares /\ parts' = Allocate(a, shares')
      BY <2>1 DEF AllocateAny
    <3>3. RemaindersFirst(divided', shares', parts')
      BY <3>1, <3>2, RanksFollowRemainders
    <3> QED
      BY <3>2, <3>3 DEF LargestRemaindersFirst, RemaindersFirst
  <2>2. ASSUME UNCHANGED inputs PROVE Inv'
    BY <2>2 DEF inputs, LargestRemaindersFirst
  <2> QED
    BY <2>1, <2>2 DEF AllocateOne
<1> QED
  BY <1>1, <1>2, PTL DEF Allocations

------------------------------------------------------------------------------
(* What a publication calls *)

\* The cotisations of a published budget, for any number of requests, expenses and units,
\* add up to its expenses as they are: they were divided from the sum read under the lock
\* of the budget, and neither changes afterwards.
THEOREM CotisationsStayExact == Spec => []CotisationsMatchExpenses
<1> DEFINE Shares == share \in [Units -> 0 .. MaxShare]
           Inv == CotisationsMatchExpenses /\ Shares
<1>1. Init => Inv
  BY AllocationAssumption DEF Init, CotisationsMatchExpenses
<1>2. Inv /\ IInv /\ [Next]_vars => Inv'
  <2> SUFFICES ASSUME Inv, IInv, [Next]_vars PROVE Inv'
    OBVIOUS
  <2>1. CASE UNCHANGED vars
    BY <2>1 DEF vars, CotisationsMatchExpenses, Amount
  <2>2. CASE Promise!Next
    <3>1. CASE \E b \in Budgets : Promise!Publish(b)
      <4>1. PICK b \in Budgets : Promise!Publish(b)
        BY <3>1
      <4>2. /\ Divisible(Amount(b), share)
            /\ cotisation' = [cotisation EXCEPT ![b] = Allocate(Amount(b), share)]
            /\ draft' = [draft EXCEPT ![b] = FALSE]
            /\ expense' = expense /\ share' = share
        BY <4>1 DEF Promise!Publish, Amount
      <4>3. SumFunction(Allocate(Amount(b), share)) = Amount(b)
        BY <4>2, DivisibleSays, AllocationIsExact
      <4>4. DOMAIN cotisation = Budgets /\ DOMAIN draft = Budgets
        BY DEF IInv, Rows
      <4> QED
        BY <4>2, <4>3, <4>4 DEF CotisationsMatchExpenses, Amount
    <3>2. CASE \E b \in Budgets, x \in Expenses, amount \in 0 .. MaxAmount :
                 Promise!SetExpense(b, x, amount)
      BY <3>2 DEF Promise!SetExpense, Promise!Editable, IInv, Rows, CotisationsMatchExpenses, Amount
    <3>3. CASE \E b \in Budgets : Promise!Delete(b)
      BY <3>3 DEF Promise!Delete, Promise!Editable, IInv, Rows, CotisationsMatchExpenses, Amount
    <3>4. CASE \E u \in Units, n \in 0 .. MaxShare : Promise!SetShare(u, n)
      BY <3>4 DEF Promise!SetShare, CotisationsMatchExpenses, Amount
    <3> QED
      BY <2>2, <3>1, <3>2, <3>3, <3>4 DEF Promise!Next
  <2>3. CASE UNCHANGED Promise!vars
    BY <2>3 DEF Promise!vars, CotisationsMatchExpenses, Amount
  <2> QED
    BY <2>1, <2>2, <2>3, NextStep
<1> QED
  BY <1>1, <1>2, InvariantHolds, PTL DEF Spec

------------------------------------------------------------------------------
(* The type of every variable: that of the cotisations is a fact about the  *)
(* division, as no part is more than the amount.                            *)

Values ==
  /\ label \in [Budgets -> Labels]
  /\ share \in [Units -> 0 .. MaxShare]
  /\ cotisation \in [Budgets -> Cotisations]
  /\ row \in [Sessions -> BOOLEAN]
  /\ total \in [Sessions -> 0 .. MaxAmount]
  /\ pending \in [Sessions -> Cotisations]

LEMMA NoneIsCotisation == NoCotisation \in Cotisations
<1>1. NoCotisation \in [{} -> 0 .. MaxAmount]
  BY DEF NoCotisation
<1> QED
  BY <1>1 DEF Cotisations

LEMMA PartsAreCotisation ==
  ASSUME NEW a, NEW sh \in [Units -> 0 .. MaxShare], Divisible(a, sh)
  PROVE  Allocate(a, sh) \in Cotisations
<1>1. a \in 1 .. MaxAmount /\ a \in Nat
  BY DivisibleSays
<1>2. Allocate(a, sh) \in [Holders(sh) -> 0 .. a]
  BY DivisibleSays, AllocationIsExact
<1>3. 0 .. a \subseteq 0 .. MaxAmount
  BY <1>1, AllocationAssumption
<1>4. Allocate(a, sh) \in [Holders(sh) -> 0 .. MaxAmount]
  BY <1>2, <1>3
<1>5. Holders(sh) \in SUBSET Units
  BY DEF Holders
<1> QED
  BY <1>4, <1>5 DEF Cotisations

LEMMA ValuesBegin == Init => Values
BY NoneIsCotisation, AllocationAssumption DEF Init, Values

\* The session ends; what it wrote has its type.
LEMMA EndKeepsValues ==
  ASSUME Values, NEW s \in Sessions, End(s),
         label' \in [Budgets -> Labels],
         share' \in [Units -> 0 .. MaxShare],
         cotisation' \in [Budgets -> Cotisations]
  PROVE  Values'
BY NoneIsCotisation, AllocationAssumption DEF Values, End

LEMMA StepKeepsValues ==
  ASSUME Values, IInv, Next
  PROVE  Values'
<1>1. PICK s \in Sessions : Begin(s) \/ Proceed(s) \/ Rollback(s)
  BY DEF Next
<1>2. CASE Begin(s)
  <2>1. CASE \E b \in Budgets : LockDraftBudget(s, b) \/ PublishBudget(s, b)
    BY <2>1 DEF LockDraftBudget, PublishBudget, tables, Values
  <2>2. CASE \E b \in Budgets : ReadBudget(s, b)
    BY <2>2 DEF ReadBudget, tables, Values, IInv, Rows
  <2>3. CASE \E u \in Units : \E n : WriteUnit(s, u, n)
    BY <2>3 DEF WriteUnit, tables, Values
  <2> QED
    BY <1>2, <2>1, <2>2, <2>3 DEF Begin, CreateUnit, UpdateUnit, DeleteUnit
<1>3. CASE Rollback(s)
  BY <1>3, EndKeepsValues DEF Rollback, tables, Values
<1>4. CASE Proceed(s)
  <2>1. CASE \E x \in Expenses :
               \/ \E amount \in 1 .. MaxAmount : CreateExpense(s, x, amount) \/ UpdateExpense(s, x, amount)
               \/ DeleteExpense(s, x)
    <3>1. End(s) /\ UNCHANGED <<label, share, cotisation>>
      BY <2>1 DEF CreateExpense, UpdateExpense, DeleteExpense, CommitExpense
    <3> QED
      BY <3>1, EndKeepsValues DEF Values
  <2>2. CASE DeleteBudget(s)
    BY <2>2, EndKeepsValues DEF DeleteBudget, Values
  <2>3. CASE \E l \in Labels : WriteLabel(s, l)
    BY <2>3, EndKeepsValues DEF WriteLabel, Values
  <2>4. CASE CommitUnit(s)
    <3>1. newShare[s] \in 0 .. MaxShare
      BY DEF IInv, Rows
    <3> QED
      BY <2>4, <3>1, EndKeepsValues DEF CommitUnit, Values
  <2>5. CASE ReadAmount(s)
    <3>1. CASE ~Divisible(Amount(budget[s]), share)
      BY <2>5, <3>1, EndKeepsValues DEF ReadAmount, tables, Values
    <3>2. CASE Divisible(Amount(budget[s]), share)
      <4>1. Amount(budget[s]) \in 0 .. MaxAmount
        BY <3>2, AllocationAssumption DEF Divisible, Valid
      <4> QED
        BY <2>5, <3>2, <4>1 DEF ReadAmount, tables, Values
    <3> QED
      BY <3>1, <3>2
  <2>6. CASE RequestUnits(s) \/ LockUnits(s)
    BY <2>6 DEF RequestUnits, LockUnits, tables, locals, Values
  <2>7. CASE AllocateBudget(s)
    <3>1. CASE ~Divisible(total[s], share)
      BY <2>7, <3>1, EndKeepsValues DEF AllocateBudget, tables, Values
    <3>2. CASE Divisible(total[s], share)
      <4>1. Allocate(total[s], share) \in Cotisations
        BY <3>2, PartsAreCotisation DEF Values
      <4> QED
        BY <2>7, <3>2, <4>1 DEF AllocateBudget, tables, Values
    <3> QED
      BY <3>1, <3>2
  <2>8. CASE CommitPublication(s)
    <3>1. pending[s] \in Cotisations
      BY DEF Values
    <3> QED
      BY <2>8, <3>1, EndKeepsValues DEF CommitPublication, Values
  <2> QED
    BY <1>4, <2>1, <2>2, <2>3, <2>4, <2>5, <2>6, <2>7, <2>8 DEF Proceed
<1> QED
  BY <1>1, <1>2, <1>3, <1>4

\* Every variable keeps its type; in particular no amount called is negative or more
\* than the ceiling, whatever the shares.
THEOREM BudgetTypeOK == Spec => []TypeOK
<1>1. Values /\ IInv /\ [Next]_vars => Values'
  <2> SUFFICES ASSUME Values, IInv, [Next]_vars PROVE Values'
    OBVIOUS
  <2>1. CASE UNCHANGED vars
    BY <2>1 DEF vars, Values
  <2> QED
    BY <2>1, StepKeepsValues
<1>2. Values /\ IInv => TypeOK
  BY DEF Values, IInv, Rows, TypeOK
<1> QED
  BY ValuesBegin, <1>1, <1>2, InvariantHolds, PTL DEF Spec
==============================================================================
