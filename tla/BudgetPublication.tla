-------------------------- MODULE BudgetPublication --------------------------
(***************************************************************************)
(* The life of a budget up to its publication: server/handlers/budget.go,  *)
(* with controllers/budgets.go (GetBudget) and server/handlers/units.go.   *)
(*                                                                         *)
(* A session is one HTTP request and its PostgreSQL transaction, READ      *)
(* COMMITTED: a statement reads what is committed when it starts, a write  *)
(* is invisible to the others until the commit and is modelled there.      *)
(* Locks are those of the statements: SELECT ... FOR UPDATE on the budget  *)
(* row, LOCK TABLE unit IN SHARE MODE in a publication, and ROW EXCLUSIVE  *)
(* on unit, with the row, in a unit write.  A session that has to wait for *)
(* a lock cannot take its step.  A refusal that reads and leaves without a *)
(* trace is no step.                                                       *)
(***************************************************************************)
EXTENDS Allocation

CONSTANTS
  Budgets,     \* rows of table budget
  Expenses,    \* identifiers of the expenses of one budget
  Labels,      \* budget labels
  Sessions,    \* concurrent requests
  NoBudget,    \* budget of a session that holds none
  NoUnit       \* unit of a session that writes none

ASSUME BudgetPublicationAssumption ==
  /\ NoBudget \notin Budgets
  /\ NoUnit \notin Units

VARIABLES
  draft,        \* budget.draft
  live,         \* budget.deleted_at IS NULL
  label,        \* budget.label
  expense,      \* amounts of a budget's expenses, 0 when there is none
  share,        \* shares of the units, 0 for a unit that does not exist (any more)
  cotisation,   \* amounts called for a published budget, per unit
  phase,        \* per session: where its transaction is
  budget,       \* per session: the budget it works on
  row,          \* per session: the draft flag of the row UpdateBudget has read
  total,        \* per session: the amount GetBudget has returned
  pending,      \* per session: cotisations inserted and not committed
  unit,         \* per session: the unit row it has written and not committed
  newShare      \* per session: the shares it wrote there

tables == <<draft, live, label, expense, share, cotisation>>
locals == <<budget, row, total, pending, unit, newShare>>
vars == <<draft, live, label, expense, share, cotisation,
          phase, budget, row, total, pending, unit, newShare>>

\* draft: budget row locked and found to be a draft, for a write; label: row read by
\* UpdateBudget, nothing locked; unit: unit row written; then the publication:
\* publish (row locked), preview (amount read), queue (waiting for table unit),
\* allocate (units locked), commit (cotisations inserted).
Phases == {"idle", "draft", "label", "unit",
           "publish", "preview", "queue", "allocate", "commit"}

NoCotisation == [u \in {} |-> 0]

Cotisations == UNION {[S -> 0 .. MaxAmount] : S \in SUBSET Units}

TypeOK ==
  /\ draft \in [Budgets -> BOOLEAN]
  /\ live \in [Budgets -> BOOLEAN]
  /\ label \in [Budgets -> Labels]
  /\ expense \in [Budgets -> [Expenses -> 0 .. MaxAmount]]
  /\ share \in [Units -> 0 .. MaxShare]
  /\ cotisation \in [Budgets -> Cotisations]
  /\ phase \in [Sessions -> Phases]
  /\ budget \in [Sessions -> Budgets \cup {NoBudget}]
  /\ row \in [Sessions -> BOOLEAN]
  /\ total \in [Sessions -> 0 .. MaxAmount]
  /\ pending \in [Sessions -> Cotisations]
  /\ unit \in [Sessions -> Units \cup {NoUnit}]
  /\ newShare \in [Sessions -> 0 .. MaxShare]

Init ==
  /\ draft = [b \in Budgets |-> TRUE]
  /\ live = [b \in Budgets |-> TRUE]
  /\ label \in [Budgets -> Labels]
  /\ expense = [b \in Budgets |-> [x \in Expenses |-> 0]]
  /\ share = [u \in Units |-> 0]
  /\ cotisation = [b \in Budgets |-> NoCotisation]
  /\ phase = [s \in Sessions |-> "idle"]
  /\ budget = [s \in Sessions |-> NoBudget]
  /\ row = [s \in Sessions |-> FALSE]
  /\ total = [s \in Sessions |-> 0]
  /\ pending = [s \in Sessions |-> NoCotisation]
  /\ unit = [s \in Sessions |-> NoUnit]
  /\ newShare = [s \in Sessions |-> 0]

------------------------------------------------------------------------------
(* Locks and transactions *)

\* The session holds the row lock of its budget.
HoldsRow(s) == phase[s] \in {"draft", "publish", "preview", "queue", "allocate", "commit"}

RowFree(b) == \A s \in Sessions : HoldsRow(s) => budget[s] # b

\* The session holds the SHARE lock on table unit, or is in its queue: PostgreSQL makes
\* later conflicting requests wait behind it.
SharesUnits(s) == phase[s] \in {"queue", "allocate", "commit"}

\* The session holds ROW EXCLUSIVE on table unit and the row lock of unit[s].
WritesUnits(s) == phase[s] = "unit"

\* COMMIT or ROLLBACK: the locks and the locals are gone.
End(s) ==
  /\ phase' = [phase EXCEPT ![s] = "idle"]
  /\ budget' = [budget EXCEPT ![s] = NoBudget]
  /\ row' = [row EXCEPT ![s] = FALSE]
  /\ total' = [total EXCEPT ![s] = 0]
  /\ pending' = [pending EXCEPT ![s] = NoCotisation]
  /\ unit' = [unit EXCEPT ![s] = NoUnit]
  /\ newShare' = [newShare EXCEPT ![s] = 0]

\* The request fails, its client leaves or its process stops: the deferred Rollback, or
\* PostgreSQL when the connection is gone, undoes what the transaction wrote.
Rollback(s) ==
  /\ phase[s] # "idle"
  /\ End(s)
  /\ UNCHANGED tables

Editable(b) == draft[b] /\ live[b]

\* mutant: the budget is read without FOR UPDATE
LockDraftBudgetUnlocked(s, b) ==
  /\ phase[s] = "idle"
  /\ Editable(b)
  /\ phase' = [phase EXCEPT ![s] = "draft"]
  /\ budget' = [budget EXCEPT ![s] = b]
  /\ UNCHANGED <<tables, row, total, pending, unit, newShare>>

\* SELECT ... FOR UPDATE, then the draft check of checkBudgetPermission.  A session that
\* waited for the lock sees the row as it is now.
LockDraftBudget(s, b) ==
  /\ phase[s] = "idle"
  /\ RowFree(b)
  /\ Editable(b)
  /\ phase' = [phase EXCEPT ![s] = "draft"]
  /\ budget' = [budget EXCEPT ![s] = b]
  /\ UNCHANGED <<tables, row, total, pending, unit, newShare>>

------------------------------------------------------------------------------
(* Expenses and deletion of a draft *)

\* Writes the amount of an expense and commits.
CommitExpense(s, x, amount) ==
  /\ expense' = [expense EXCEPT ![budget[s]][x] = amount]
  /\ End(s)
  /\ UNCHANGED <<draft, live, label, share, cotisation>>

CreateExpense(s, x, amount) ==
  /\ phase[s] = "draft"
  /\ expense[budget[s]][x] = 0
  /\ Valid(amount)
  /\ CommitExpense(s, x, amount)

UpdateExpense(s, x, amount) ==
  /\ phase[s] = "draft"
  /\ expense[budget[s]][x] # 0
  /\ Valid(amount)
  /\ CommitExpense(s, x, amount)

DeleteExpense(s, x) ==
  /\ phase[s] = "draft"
  /\ expense[budget[s]][x] # 0
  /\ CommitExpense(s, x, 0)

\* Refused when cotisations exist; deletes the expenses with the budget.
DeleteBudget(s) ==
  /\ phase[s] = "draft"
  /\ LET b == budget[s] IN
     /\ cotisation[b] = NoCotisation
     /\ expense' = [expense EXCEPT ![b] = [x \in Expenses |-> 0]]
     /\ live' = [live EXCEPT ![b] = FALSE]
  /\ End(s)
  /\ UNCHANGED <<draft, label, share, cotisation>>

------------------------------------------------------------------------------
(* UpdateBudget: the row is read without a lock, then only the label is written *)

ReadBudget(s, b) ==
  /\ phase[s] = "idle"
  /\ live[b]
  /\ phase' = [phase EXCEPT ![s] = "label"]
  /\ budget' = [budget EXCEPT ![s] = b]
  /\ row' = [row EXCEPT ![s] = draft[b]]
  /\ UNCHANGED <<tables, total, pending, unit, newShare>>

\* mutant: the whole row is saved
WriteWholeRow(s, l) ==
  /\ phase[s] = "label"
  /\ LET b == budget[s] IN
     /\ RowFree(b)
     /\ label' = IF live[b] THEN [label EXCEPT ![b] = l] ELSE label
     /\ draft' = IF live[b] THEN [draft EXCEPT ![b] = row[s]] ELSE draft
  /\ End(s)
  /\ UNCHANGED <<live, expense, share, cotisation>>

\* UPDATE budget SET label WHERE id AND deleted_at IS NULL.
WriteLabel(s, l) ==
  /\ phase[s] = "label"
  /\ LET b == budget[s] IN
     /\ RowFree(b)
     /\ label' = IF live[b] THEN [label EXCEPT ![b] = l] ELSE label
  /\ End(s)
  /\ UNCHANGED <<draft, live, expense, share, cotisation>>

------------------------------------------------------------------------------
(* Units: one UPDATE or INSERT, then the commit *)

\* The statement waits for a publication that holds or awaits the table and for a session
\* that holds the row.
WriteUnit(s, u, n) ==
  /\ phase[s] = "idle"
  /\ \A r \in Sessions : ~SharesUnits(r) /\ unit[r] # u
  /\ phase' = [phase EXCEPT ![s] = "unit"]
  /\ unit' = [unit EXCEPT ![s] = u]
  /\ newShare' = [newShare EXCEPT ![s] = n]
  /\ UNCHANGED <<tables, budget, row, total, pending>>

CreateUnit(s, u, n) == share[u] = 0 /\ WriteUnit(s, u, n)

UpdateUnit(s, u, n) == share[u] # 0 /\ WriteUnit(s, u, n)

DeleteUnit(s, u) == share[u] # 0 /\ WriteUnit(s, u, 0)

\* mutant: unit writes refresh the drafts, whose rows they lock
CommitUnitLocking(s) ==
  /\ phase[s] = "unit"
  /\ \A b \in Budgets : RowFree(b)
  /\ share' = [share EXCEPT ![unit[s]] = newShare[s]]
  /\ End(s)
  /\ UNCHANGED <<draft, live, label, expense, cotisation>>

CommitUnit(s) ==
  /\ phase[s] = "unit"
  /\ share' = [share EXCEPT ![unit[s]] = newShare[s]]
  /\ End(s)
  /\ UNCHANGED <<draft, live, label, expense, cotisation>>

------------------------------------------------------------------------------
(* PublishBudget *)

\* Row lock, draft check, no cotisation.
PublishBudget(s, b) ==
  /\ phase[s] = "idle"
  /\ RowFree(b)
  /\ Editable(b)
  /\ cotisation[b] = NoCotisation
  /\ phase' = [phase EXCEPT ![s] = "publish"]
  /\ budget' = [budget EXCEPT ![s] = b]
  /\ UNCHANGED <<tables, row, total, pending, unit, newShare>>

Amount(b) == Total(expense[b])

\* mutant: the total of the expenses is not checked against the ceiling
ReadAmountUnchecked(s) ==
  /\ phase[s] = "publish"
  /\ IF TotalShares(share) > 0
       THEN /\ phase' = [phase EXCEPT ![s] = "preview"]
            /\ total' = [total EXCEPT ![s] = Amount(budget[s])]
            /\ UNCHANGED <<budget, row, pending, unit, newShare>>
       ELSE End(s)
  /\ UNCHANGED tables

\* GetBudget: the amount is the sum of the expenses; a preview that is not Ready, its
\* units read without a lock, ends in a refusal.
ReadAmount(s) ==
  /\ phase[s] = "publish"
  /\ IF Divisible(Amount(budget[s]), share)
       THEN /\ phase' = [phase EXCEPT ![s] = "preview"]
            /\ total' = [total EXCEPT ![s] = Amount(budget[s])]
            /\ UNCHANGED <<budget, row, pending, unit, newShare>>
       ELSE End(s)
  /\ UNCHANGED tables

\* LOCK TABLE unit IN SHARE MODE is sent.
RequestUnits(s) ==
  /\ phase[s] = "preview"
  /\ phase' = [phase EXCEPT ![s] = "queue"]
  /\ UNCHANGED <<tables, locals>>

\* mutant: the units are not locked
SkipUnitsLock(s) ==
  /\ phase[s] = "queue"
  /\ phase' = [phase EXCEPT ![s] = "allocate"]
  /\ UNCHANGED <<tables, locals>>

\* It is granted when the unit writes in progress have ended.
LockUnits(s) ==
  /\ phase[s] = "queue"
  /\ \A r \in Sessions : ~WritesUnits(r)
  /\ phase' = [phase EXCEPT ![s] = "allocate"]
  /\ UNCHANGED <<tables, locals>>

\* The units are read again; Allocate refuses when no share is left.
AllocateBudget(s) ==
  /\ phase[s] = "allocate"
  /\ IF Divisible(total[s], share)
       THEN /\ phase' = [phase EXCEPT ![s] = "commit"]
            /\ pending' = [pending EXCEPT ![s] = Allocate(total[s], share)]
            /\ UNCHANGED <<budget, row, total, unit, newShare>>
       ELSE End(s)
  /\ UNCHANGED tables

\* draft = false and the commit.
CommitPublication(s) ==
  /\ phase[s] = "commit"
  /\ cotisation' = [cotisation EXCEPT ![budget[s]] = pending[s]]
  /\ draft' = [draft EXCEPT ![budget[s]] = FALSE]
  /\ End(s)
  /\ UNCHANGED <<live, label, expense, share>>

------------------------------------------------------------------------------
Begin(s) ==
  \/ \E b \in Budgets : LockDraftBudget(s, b) \/ ReadBudget(s, b) \/ PublishBudget(s, b)
  \/ \E u \in Units :
       \/ \E n \in 1 .. MaxShare : CreateUnit(s, u, n) \/ UpdateUnit(s, u, n)
       \/ DeleteUnit(s, u)

\* What a session does once it has begun.
Proceed(s) ==
  \/ \E x \in Expenses :
       \/ \E amount \in 1 .. MaxAmount : CreateExpense(s, x, amount) \/ UpdateExpense(s, x, amount)
       \/ DeleteExpense(s, x)
  \/ DeleteBudget(s)
  \/ \E l \in Labels : WriteLabel(s, l)
  \/ CommitUnit(s)
  \/ ReadAmount(s) \/ RequestUnits(s) \/ LockUnits(s) \/ AllocateBudget(s) \/ CommitPublication(s)

Next == \E s \in Sessions : Begin(s) \/ Proceed(s) \/ Rollback(s)

Spec == Init /\ [][Next]_vars

\* A begun request goes on: its handler waits for nothing but the locks, and PostgreSQL
\* serves the waiters of a lock in order (strong fairness).  That a request fails, or
\* that a new one arrives, is not assumed.
FairSpec == Spec /\ \A s \in Sessions : SF_vars(Proceed(s))

------------------------------------------------------------------------------
(* Properties *)

\* The cotisations of a published budget add up to its expenses, as they are now: the
\* publication lost no concurrent edit and none came after it (README.md:214, 250).
CotisationsMatchExpenses ==
  \A b \in Budgets : ~draft[b] => SumFunction(cotisation[b]) = Amount(b)

\* A published budget stays published, with the same expenses and cotisations, and is
\* not deleted; in particular "le changement de libellé ne réécrit jamais un ancien état
\* brouillon" (README.md:214-215, 222).
PublishedIsFrozen ==
  [][\A b \in Budgets : ~draft[b] =>
       /\ ~draft'[b]
       /\ live'[b] = live[b]
       /\ expense'[b] = expense[b]
       /\ cotisation'[b] = cotisation[b]]_vars

\* The promise: every request takes effect at one instant.  For a publication it is the
\* commit, where the expenses and the shares must still be those it allocated: "le jeu
\* des lots et leurs parts est verrouillé pendant la publication" (README.md:253).
Promise == INSTANCE AtomicBudget

ImplementsAtomicBudget == Promise!Spec

\* No request waits for ever: the budget row is always locked before table unit and
\* unit writes lock no budget (the comment of PublishBudget), so the locks make no cycle.
RequestsEnd == \A s \in Sessions : phase[s] # "idle" ~> phase[s] = "idle"
==============================================================================
