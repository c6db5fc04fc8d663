-------------------------- MODULE BudgetLedger_proofs --------------------------
(***************************************************************************)
(* For any number of cotisations, payments, entries and concurrent         *)
(* dialogs: the requests on a ledger take effect one at a time, and an     *)
(* entry is recorded on the sums its author was shown, whatever the sums   *)
(* are and permit; with the sums and the rules of the code, no history     *)
(* refunds more than was paid or calls a negative amount.                  *)
(***************************************************************************)
EXTENDS BudgetLedger, SumTheorems

\* The parts of the type invariant the proofs use.
Rows ==
  /\ paid \in [Cotisations -> [Payments -> 0 .. MaxAmount]]
  /\ DOMAIN writes = Cotisations
  /\ phase \in [Sessions -> Phases]
  /\ cotisation \in [Sessions -> Cotisations \cup {NoCotisation}]
  /\ payment \in [Sessions -> Payments \cup {NoPayment}]
  /\ amount \in [Sessions -> 0 .. MaxAmount]
  /\ form \in [Sessions -> EntryRows \cup {NoForm}]
  /\ DOMAIN shown = Sessions
  /\ DOMAIN seenWrites = Sessions
  /\ DOMAIN seenEntries = Sessions

\* A dialog works on one cotisation, and its form is for that one.
Dialogs ==
  \A s \in Sessions :
    /\ phase[s] # "idle" => cotisation[s] \in Cotisations
    /\ phase[s] \in {"reading", "previewed", "recording", "inserting"} =>
         form[s] \in EntryRows /\ form[s].cotisation = cotisation[s]

\* One transaction at a time holds the budget row.
SingleHolder ==
  \A s, r \in Sessions : phase[s] \in Holding /\ phase[r] \in Holding => s = r

\* What CheckEntry has checked still holds when the entry is inserted.
EntriesChecked ==
  \A s \in Sessions : phase[s] = "inserting" =>
    /\ Permitted(form[s], SumsOf(cotisation[s]), entry)
    /\ UpToDate(s)
    /\ \A e \in entry : e.id # form[s].id

\* So does what the payment handlers have checked when the payment is written.
PaymentsChecked ==
  \A s \in Sessions :
    /\ phase[s] \in {"inserted", "saving"} => payment[s] \in Payments
    /\ phase[s] = "inserted" =>
         paid[cotisation[s]][payment[s]] = 0 /\ amount[s] # 0
    /\ phase[s] = "saving" =>
         /\ paid[cotisation[s]][payment[s]] # 0
         /\ Reducible(SumsOf(cotisation[s]), paid[cotisation[s]][payment[s]] - amount[s])

IInv == Rows /\ Dialogs /\ SingleHolder /\ EntriesChecked /\ PaymentsChecked

\* What the steps of one session leave alone of the others.
OthersKept(s) ==
  \A r \in Sessions : r # s =>
    /\ phase'[r] = phase[r]
    /\ cotisation'[r] = cotisation[r]
    /\ payment'[r] = payment[r]
    /\ amount'[r] = amount[r]
    /\ form'[r] = form[r]
    /\ shown'[r] = shown[r]
    /\ seenWrites'[r] = seenWrites[r]
    /\ seenEntries'[r] = seenEntries[r]

Ledger == <<initial, paid, entry, writes>>

------------------------------------------------------------------------------
LEMMA InitInvariant == Init => IInv
  BY BudgetLedgerAssumption, LedgerAssumption
  DEF Init, IInv, Rows, Dialogs, SingleHolder, EntriesChecked, PaymentsChecked,
      Phases, Holding

\* A step of one session that leaves the ledger alone keeps the invariant if it keeps
\* the part of it about that session, and takes no lock another session holds.
LEMMA LocalStep ==
  ASSUME IInv, NEW s \in Sessions, OthersKept(s), UNCHANGED Ledger, Rows',
         phase'[s] \in Holding => phase[s] \in Holding \/ RowFree,
         phase'[s] # "idle" => cotisation'[s] \in Cotisations,
         phase'[s] \in {"reading", "previewed", "recording", "inserting"} =>
           form'[s] \in EntryRows /\ form'[s].cotisation = cotisation'[s],
         phase'[s] = "inserting" =>
           /\ Permitted(form'[s], SumsOf(cotisation'[s]), entry)
           /\ UpToDate(s)'
           /\ \A e \in entry : e.id # form'[s].id,
         phase'[s] \in {"inserted", "saving"} => payment'[s] \in Payments,
         phase'[s] = "inserted" =>
           paid[cotisation'[s]][payment'[s]] = 0 /\ amount'[s] # 0,
         phase'[s] = "saving" =>
           /\ paid[cotisation'[s]][payment'[s]] # 0
           /\ Reducible(SumsOf(cotisation'[s]), paid[cotisation'[s]][payment'[s]] - amount'[s])
  PROVE IInv'
<1> USE DEF IInv, OthersKept, Ledger
<1>1. Dialogs'
  BY DEF Dialogs
<1>2. SingleHolder'
  BY DEF SingleHolder, RowFree
<1>3. EntriesChecked'
  BY DEF EntriesChecked, UpToDate, SumsOf, EntryIds
<1>4. PaymentsChecked'
  BY DEF PaymentsChecked, SumsOf
<1> QED BY <1>1, <1>2, <1>3, <1>4

\* A session that commits or gives up, and leaves the ledger as it is.
LEMMA RollbackStep ==
  ASSUME IInv, NEW s \in Sessions, End(s), UNCHANGED tables
  PROVE IInv'
<1>1. Rows'
  BY BudgetLedgerAssumption, LedgerAssumption DEF IInv, Rows, End, tables, Phases
<1>2. OthersKept(s) /\ UNCHANGED Ledger /\ phase'[s] = "idle"
  BY DEF IInv, Rows, End, tables, OthersKept, Ledger
<1> QED BY <1>1, <1>2, LocalStep DEF Holding

LEMMA PreviewStep ==
  ASSUME IInv, NEW s \in Sessions, Preview(s)
  PROVE IInv' /\ UNCHANGED Ledger
<1>1. CASE \E r \in EntryRows : PreviewEntry(s, r)
  <2>1. PICK r \in EntryRows : PreviewEntry(s, r)
    BY <1>1
  <2> USE <2>1 DEF PreviewEntry, tables
  <2>2. Rows' /\ r.cotisation \in Cotisations
    BY DEF IInv, Rows, Phases, EntryRows
  <2>3. OthersKept(s) /\ UNCHANGED Ledger /\ phase'[s] = "reading"
    BY DEF IInv, Rows, OthersKept, Ledger
  <2>4. form'[s] = r /\ cotisation'[s] = r.cotisation
    BY DEF IInv, Rows
  <2> HIDE <2>1 DEF PreviewEntry
  <2> QED BY <2>2, <2>3, <2>4, LocalStep DEF Holding
<1>2. CASE PreviewVersion(s)
  <2> USE <1>2 DEF PreviewVersion, tables
  <2>1. Rows'
    BY DEF IInv, Rows, Phases
  <2>2. OthersKept(s) /\ UNCHANGED Ledger /\ phase'[s] = "previewed"
    BY DEF IInv, Rows, OthersKept, Ledger
  <2>3. form'[s] = form[s] /\ cotisation'[s] = cotisation[s] /\ phase[s] = "reading"
    OBVIOUS
  <2> HIDE <1>2 DEF PreviewVersion
  <2> QED BY <2>1, <2>2, <2>3, LocalStep DEF Holding, IInv, Dialogs
<1>3. CASE \E r \in Sessions : Repeat(s, r)
  <2>1. PICK r \in Sessions : Repeat(s, r)
    BY <1>3
  <2> USE <2>1 DEF Repeat, tables
  <2>2. Rows'
    BY DEF IInv, Rows, Phases
  <2>3. OthersKept(s) /\ UNCHANGED Ledger /\ phase'[s] = "previewed"
    BY DEF IInv, Rows, OthersKept, Ledger
  <2>4. form'[s] = form[r] /\ cotisation'[s] = cotisation[r] /\ phase[r] = "previewed"
    BY DEF IInv, Rows
  <2> HIDE <2>1 DEF Repeat
  <2> QED BY <2>2, <2>3, <2>4, LocalStep DEF Holding, IInv, Dialogs
<1> QED BY <1>1, <1>2, <1>3 DEF Preview

LEMMA LockStep ==
  ASSUME IInv, NEW s \in Sessions,
         LockForEntry(s) \/ \E c \in Cotisations : LockForPayment(s, c)
  PROVE IInv' /\ UNCHANGED Ledger
<1>1. CASE LockForEntry(s)
  <2> USE <1>1 DEF LockForEntry, Goto, tables, locals
  <2>1. Rows'
    BY DEF IInv, Rows, Phases
  <2>2. OthersKept(s) /\ UNCHANGED Ledger /\ phase'[s] = "recording" /\ RowFree
    BY DEF IInv, Rows, OthersKept, Ledger
  <2>3. form'[s] = form[s] /\ cotisation'[s] = cotisation[s] /\ phase[s] = "previewed"
    OBVIOUS
  <2> HIDE <1>1 DEF LockForEntry
  <2> QED BY <2>1, <2>2, <2>3, LocalStep DEF IInv, Dialogs
<1>2. CASE \E c \in Cotisations : LockForPayment(s, c)
  <2>1. PICK c \in Cotisations : LockForPayment(s, c)
    BY <1>2
  <2> USE <2>1 DEF LockForPayment, tables
  <2>2. Rows'
    BY DEF IInv, Rows, Phases
  <2>3. OthersKept(s) /\ UNCHANGED Ledger /\ phase'[s] = "locked" /\ RowFree
    BY DEF IInv, Rows, OthersKept, Ledger
  <2>4. cotisation'[s] = c
    BY DEF IInv, Rows
  <2> HIDE <2>1 DEF LockForPayment
  <2> QED BY <2>2, <2>3, <2>4, LocalStep
<1> QED BY <1>1, <1>2

LEMMA CheckEntryStep ==
  ASSUME IInv, NEW s \in Sessions, CheckEntry(s)
  PROVE IInv' /\ UNCHANGED Ledger
<1> USE DEF CheckEntry, Goto, tables, locals
<1>1. Rows'
  BY DEF IInv, Rows, Phases
<1>2. OthersKept(s) /\ UNCHANGED Ledger /\ phase'[s] = "inserting"
  BY DEF IInv, Rows, OthersKept, Ledger
<1>3. form' = form /\ cotisation' = cotisation /\ phase[s] = "recording"
  OBVIOUS
<1>4. UpToDate(s)'
  BY DEF UpToDate, SumsOf, EntryIds
<1>5. /\ Permitted(form[s], SumsOf(cotisation[s]), entry)
      /\ \A e \in entry : e.id # form[s].id
  OBVIOUS
<1> HIDE DEF CheckEntry
<1> QED BY <1>1, <1>2, <1>3, <1>4, <1>5, LocalStep DEF Holding, IInv, Dialogs

LEMMA PaymentStep ==
  ASSUME IInv, NEW s \in Sessions, NEW p \in Payments,
         \/ \E a \in 1 .. MaxAmount : CreatePayment(s, p, a) \/ UpdatePayment(s, p, a)
         \/ DeletePayment(s, p)
  PROVE IInv' /\ UNCHANGED Ledger
<1>1. PICK a \in 0 .. MaxAmount :
        \/ /\ Prepare(s, "inserted", p, a)
           /\ paid[cotisation[s]][p] = 0 /\ a # 0
        \/ /\ Prepare(s, "saving", p, a)
           /\ paid[cotisation[s]][p] # 0
           /\ Reducible(SumsOf(cotisation[s]), paid[cotisation[s]][p] - a)
  <2>1. CASE DeletePayment(s, p)
    <3>1. cotisation[s] \in Cotisations
      BY <2>1 DEF IInv, Dialogs, DeletePayment
    <3>2. paid[cotisation[s]][p] - 0 = paid[cotisation[s]][p] /\ 0 \in 0 .. MaxAmount
      BY <3>1, LedgerAssumption DEF IInv, Rows
    <3> QED BY <2>1, <3>2 DEF DeletePayment
  <2>2. CASE \E a \in 1 .. MaxAmount : CreatePayment(s, p, a) \/ UpdatePayment(s, p, a)
    <3>1. PICK a \in 1 .. MaxAmount : CreatePayment(s, p, a) \/ UpdatePayment(s, p, a)
      BY <2>2
    <3>2. a \in 0 .. MaxAmount /\ a # 0
      BY LedgerAssumption
    <3> QED BY <3>1, <3>2 DEF CreatePayment, UpdatePayment
  <2> QED BY <2>1, <2>2
<1>2. phase[s] = "locked"
  BY DEF CreatePayment, UpdatePayment, DeletePayment
<1>3. Rows'
  BY <1>1 DEF IInv, Rows, Phases, Prepare, tables
<1>4. OthersKept(s) /\ UNCHANGED Ledger
  BY <1>1 DEF IInv, Rows, OthersKept, Ledger, Prepare, tables
<1>5. cotisation'[s] = cotisation[s] /\ payment'[s] = p /\ amount'[s] = a
  BY <1>1 DEF IInv, Rows, Prepare
<1>6. /\ phase'[s] \in {"inserted", "saving"}
      /\ phase'[s] = "inserted" => paid[cotisation[s]][p] = 0 /\ a # 0
      /\ phase'[s] = "saving" =>
           /\ paid[cotisation[s]][p] # 0
           /\ Reducible(SumsOf(cotisation[s]), paid[cotisation[s]][p] - a)
  BY <1>1 DEF IInv, Rows, Prepare
<1> QED BY <1>2, <1>3, <1>4, <1>5, <1>6, LocalStep DEF Holding, IInv, Dialogs

------------------------------------------------------------------------------
(* The commits: their session is the only one that holds the row, so none of the *)
(* others counts on what changes.                                                *)

LEMMA CommitStep ==
  ASSUME IInv, NEW s \in Sessions, phase[s] \in Holding, OthersKept(s), Rows',
         \/ phase'[s] = "idle"
         \/ /\ phase[s] = "inserting" /\ phase'[s] = "previewed"
            /\ form'[s] = form[s] /\ cotisation'[s] = cotisation[s]
  PROVE IInv'
<1>1. \A r \in Sessions : r # s => phase'[r] = phase[r] /\ phase[r] \notin Holding
  BY DEF IInv, SingleHolder, OthersKept
<1>2. Dialogs'
  BY DEF IInv, Dialogs, OthersKept
<1>3. SingleHolder' /\ EntriesChecked' /\ PaymentsChecked'
  BY <1>1 DEF SingleHolder, EntriesChecked, PaymentsChecked, Holding
<1> QED BY <1>2, <1>3 DEF IInv

LEMMA InsertEntryStep ==
  ASSUME IInv, NEW s \in Sessions, InsertEntry(s) \/ InsertEntryUnreported(s)
  PROVE IInv' /\ Promise!Next
<1>1. /\ phase[s] = "inserting"
      /\ entry' = entry \cup {form[s]}
      /\ UNCHANGED <<initial, paid, writes>>
  BY DEF InsertEntry, InsertEntryUnreported
<1>2. Rows' /\ OthersKept(s)
  BY BudgetLedgerAssumption, LedgerAssumption
  DEF IInv, Rows, Phases, OthersKept, InsertEntry, InsertEntryUnreported, End, Goto, locals
<1>3. \/ phase'[s] = "idle"
      \/ phase'[s] = "previewed" /\ form'[s] = form[s] /\ cotisation'[s] = cotisation[s]
  BY DEF IInv, Rows, InsertEntry, InsertEntryUnreported, End, Goto, locals
<1>4. IInv'
  BY <1>1, <1>2, <1>3, CommitStep DEF Holding
<1>5. form[s] \in EntryRows /\ form[s].cotisation = cotisation[s]
  BY <1>1 DEF IInv, Dialogs
<1>6. Promise!Record(form[s])
  BY <1>1, <1>5 DEF IInv, EntriesChecked, SumsOf, Promise!Record, Promise!SumsOf
<1> QED BY <1>4, <1>5, <1>6 DEF Promise!Next

LEMMA WritePaymentStep ==
  ASSUME IInv, NEW s \in Sessions, CommitCreation(s) \/ SavePayment(s)
  PROVE IInv' /\ Promise!Next
<1>1. phase[s] \in {"inserted", "saving"} /\ WritePayment(s)
  BY DEF CommitCreation, SavePayment
<1>2. /\ cotisation[s] \in Cotisations
      /\ payment[s] \in Payments
      /\ amount[s] \in 0 .. MaxAmount
  BY <1>1 DEF IInv, Rows, Dialogs, PaymentsChecked
<1>3. Rows' /\ OthersKept(s) /\ phase'[s] = "idle"
  BY <1>1, <1>2, BudgetLedgerAssumption, LedgerAssumption
  DEF IInv, Rows, Phases, OthersKept, WritePayment, End
<1>4. IInv'
  BY <1>1, <1>3, CommitStep DEF Holding
<1>5. Promise!SetPayment(cotisation[s], payment[s], amount[s])
  BY <1>1 DEF WritePayment, Promise!SetPayment
<1>6. CASE phase[s] = "inserted"
  <2>1. paid[cotisation[s]][payment[s]] = 0 /\ amount[s] \in 1 .. MaxAmount
    BY <1>2, <1>6, LedgerAssumption DEF IInv, PaymentsChecked
  <2> QED BY <1>2, <1>4, <1>5, <2>1 DEF Promise!Next, Promise!Pay
<1>7. CASE phase[s] = "saving"
  BY <1>2, <1>4, <1>5, <1>7
  DEF IInv, PaymentsChecked, SumsOf, Promise!Next, Promise!Correct, Promise!SumsOf
<1> QED BY <1>1, <1>6, <1>7

------------------------------------------------------------------------------
(* The specification *)

\* Every step keeps the invariant and is, for the promise, one step or none.
LEMMA NextStep ==
  ASSUME IInv, Next
  PROVE IInv' /\ (Promise!Next \/ UNCHANGED Promise!vars)
<1> USE DEF Ledger, Promise!vars
<1>1. CASE \E s \in Sessions : Preview(s)
  BY <1>1, PreviewStep
<1>2. CASE \E s \in Sessions : Rollback(s)
  BY <1>2, RollbackStep DEF Rollback, tables
<1>3. CASE \E s \in Sessions : Write(s)
  <2>1. PICK s \in Sessions : Write(s)
    BY <1>3
  <2>2. CASE LockForEntry(s) \/ \E c \in Cotisations : LockForPayment(s, c)
    BY <2>2, LockStep
  <2>3. CASE CheckEntry(s)
    BY <2>3, CheckEntryStep
  <2>4. CASE InsertEntry(s) \/ InsertEntryUnreported(s)
    BY <2>4, InsertEntryStep
  <2>5. CASE \E p \in Payments :
               \/ \E a \in 1 .. MaxAmount : CreatePayment(s, p, a) \/ UpdatePayment(s, p, a)
               \/ DeletePayment(s, p)
    BY <2>5, PaymentStep
  <2>6. CASE CommitCreation(s) \/ SavePayment(s)
    BY <2>6, WritePaymentStep
  <2> QED BY <2>1, <2>2, <2>3, <2>4, <2>5, <2>6 DEF Write
<1>4. CASE \E c \in Cotisations : DeleteUnit(c)
  <2>1. UNCHANGED <<Ledger, phase, locals>>
    BY <1>4 DEF DeleteUnit
  <2>2. Rows' /\ Dialogs' /\ SingleHolder'
    BY <2>1 DEF locals, IInv, Rows, Dialogs, SingleHolder
  <2>3. EntriesChecked' /\ PaymentsChecked'
    BY <2>1 DEF locals, IInv, EntriesChecked, PaymentsChecked, UpToDate, SumsOf, EntryIds
  <2> QED BY <2>1, <2>2, <2>3 DEF IInv
<1> QED BY <1>1, <1>2, <1>3, <1>4 DEF Next

LEMMA StutterStep ==
  ASSUME IInv, UNCHANGED vars
  PROVE IInv'
BY DEF vars, IInv, Rows, Dialogs, SingleHolder, EntriesChecked, PaymentsChecked,
       UpToDate, SumsOf, EntryIds

\* The lock does what the handlers count on: one transaction holds the budget row, and
\* what it has checked holds until it commits.
THEOREM InvariantHolds == Spec => []IInv
<1>1. IInv /\ [Next]_vars => IInv'
  BY NextStep, StutterStep
<1> QED BY InitInvariant, <1>1, PTL DEF Spec

\* Payments and entries are written one at a time, each permitted by the sums of the
\* instant of its commit, and no identifier is used twice.
THEOREM LedgerIsAtomic == Spec => ImplementsAtomicLedger
<1>1. Init => Promise!Init
  BY BudgetLedgerAssumption DEF Init, Promise!Init
<1>2. IInv /\ [Next]_vars => [Promise!Next]_(Promise!vars)
  BY NextStep DEF vars, Promise!vars
<1> QED BY InvariantHolds, <1>1, <1>2, PTL DEF Spec, ImplementsAtomicLedger, Promise!Spec

\* An entry is inserted only on the sums its author was shown, whatever is written
\* between the preview and the insertion.
THEOREM PreviewsAreHonoured == Spec => PreviewIsHonoured
<1> DEFINE Honoured == \A s \in Sessions :
             phase[s] = "inserting" /\ entry' # entry => shown[s] = SumsOf(cotisation[s])
<1>1. IInv => Honoured
  BY DEF IInv, EntriesChecked, UpToDate
<1>2. IInv /\ [Next]_vars => [Honoured]_vars
  BY <1>1
<1> QED BY InvariantHolds, <1>2, PTL DEF Spec, PreviewIsHonoured

------------------------------------------------------------------------------
(* What the sums come to.  The entries are never changed, so a reversal   *)
(* cancels the one entry it names, and each rule keeps the sums it reads  *)
(* under the lock on the right side of zero.                              *)

OfKind(rows, c, kind) == {e \in rows : e.cotisation = c /\ e.kind = kind}

\* The entries that were never reversed.
Standing(rows, c, kind) ==
  {e \in rows : /\ e.cotisation = c /\ e.kind = kind /\ e.reverses = NoEntry
                /\ \A f \in rows : f.reverses # e.id}

EntriesKept ==
  /\ entry \subseteq EntryRows /\ IsFiniteSet(entry)
  /\ \A d, e \in entry : d.id = e.id => d = e
  /\ \A f \in entry : f.reverses # NoEntry =>
       \E e \in entry : e.id = f.reverses /\ e.cotisation = f.cotisation
  /\ \A e \in entry : e.kind = "refund" /\ e.reverses = NoEntry => e.amount > 0

ReversalsCancel ==
  \A c \in Cotisations, kind \in Kinds : EntrySum(entry, c, kind) = AmountsOf(Standing(entry, c, kind))

Balanced ==
  \A c \in Cotisations :
    /\ EntrySum(entry, c, "refund") <= SumFunction(paid[c])
    /\ 0 <= initial[c] + EntrySum(entry, c, "adjustment")

Books ==
  /\ initial \in [Cotisations -> 0 .. MaxAmount]
  /\ paid \in [Cotisations -> [Payments -> 0 .. MaxAmount]]
  /\ EntriesKept /\ ReversalsCancel /\ Balanced

LEMMA SumOfKind ==
  ASSUME NEW rows, NEW c, NEW kind
  PROVE  EntrySum(rows, c, kind) = AmountsOf(OfKind(rows, c, kind))
BY DEF EntrySum, AmountsOf, OfKind

LEMMA SumsAreInt ==
  ASSUME NEW rows, rows \subseteq EntryRows, IsFiniteSet(rows), NEW c, NEW kind
  PROVE  /\ EntrySum(rows, c, kind) \in Int
         /\ IsFiniteSet(OfKind(rows, c, kind)) /\ IsFiniteSet(Standing(rows, c, kind))
         /\ \A e \in OfKind(rows, c, kind) \cup Standing(rows, c, kind) : e.amount \in Int
<1>1. OfKind(rows, c, kind) \subseteq rows /\ Standing(rows, c, kind) \subseteq rows
  BY DEF OfKind, Standing
<1>2. \A e \in rows : e.amount \in Int
  BY DEF EntryRows
<1>3. IsFiniteSet(OfKind(rows, c, kind)) /\ IsFiniteSet(Standing(rows, c, kind))
  BY <1>1, FS_Subset
<1> QED
  BY <1>1, <1>2, <1>3, AmountsAreInt, SumOfKind

LEMMA GrossIsInt ==
  ASSUME NEW p \in [Payments -> 0 .. MaxAmount]
  PROVE  SumFunction(p) \in Int /\ Integral(p, Payments) /\ SumFunction(p) = SumFunctionOnSet(p, Payments)
<1>1. Integral(p, Payments)
  BY LedgerAssumption DEF Integral
<1> QED
  BY <1>1, LedgerAssumption, SumOfFunction, SumIsInt

\* What was refunded and never taken back.
LEMMA RefundsArePositive ==
  ASSUME EntriesKept, ReversalsCancel, NEW c \in Cotisations
  PROVE  EntrySum(entry, c, "refund") \in Nat
<1> DEFINE R == Standing(entry, c, "refund")
<1>1. IsFiniteSet(R) /\ \A e \in R : e.amount \in Nat
  <2>1. IsFiniteSet(R) /\ \A e \in R : e.amount \in Int
    BY SumsAreInt DEF EntriesKept
  <2>2. \A e \in R : e.amount > 0
    BY DEF Standing, EntriesKept
  <2> QED
    BY <2>1, <2>2
<1> HIDE DEF R
<1>2. SumFunctionOnSet([e \in R |-> e.amount], R) \in Nat
  BY <1>1, SumNotNegative
<1>3. AmountsOf(R) \in Nat
  BY <1>2, AmountsAreSum
<1> QED
  BY <1>3 DEF ReversalsCancel, Kinds, R

LEMMA BooksBegin == Promise!Init => Books
<1> SUFFICES ASSUME Promise!Init PROVE Books
  OBVIOUS
<1>1. entry = {} /\ initial \in [Cotisations -> 0 .. MaxAmount]
      /\ paid = [c \in Cotisations |-> [p \in Payments |-> 0]]
  BY DEF Promise!Init
<1>2. paid \in [Cotisations -> [Payments -> 0 .. MaxAmount]]
  BY <1>1, LedgerAssumption
<1>3. EntriesKept
  BY <1>1, FS_EmptySet DEF EntriesKept
<1>4. \A c, kind : EntrySum(entry, c, kind) = 0 /\ AmountsOf(Standing(entry, c, kind)) = 0
  <2> TAKE c, kind
  <2>1. OfKind(entry, c, kind) = {} /\ Standing(entry, c, kind) = {}
    BY <1>1 DEF OfKind, Standing
  <2> QED
    BY <2>1, NoAmounts, SumOfKind
<1>5. \A c \in Cotisations : SumFunction(paid[c]) \in Nat
  <2> TAKE c \in Cotisations
  <2>1. \A p \in Payments : paid[c][p] \in Nat
    BY <1>1
  <2>2. paid[c] \in [Payments -> 0 .. MaxAmount]
    BY <1>2
  <2> QED
    BY <2>1, <2>2, GrossIsInt, SumNotNegative, LedgerAssumption
<1>6. Balanced
  BY <1>1, <1>4, <1>5, LedgerAssumption DEF Balanced
<1> QED
  BY <1>1, <1>2, <1>3, <1>4, <1>6 DEF Books, ReversalsCancel

\* What the rules ask of a new row.
LEMMA PermittedRow ==
  ASSUME NEW r \in EntryRows, NEW sums, NEW rows, Permitted(r, sums, rows)
  PROVE  /\ r.reverses = NoEntry /\ r.kind = "refund" => r.amount > 0
         /\ r.reverses # NoEntry => Reversible(r, rows)
         /\ r.kind = "adjustment" => sums.initial + sums.adjustment + r.amount >= 0
         /\ r.kind = "refund" => sums.gross - sums.refunded - r.amount >= 0
BY DEF Permitted, Solvent, Called, Net

LEMMA RowFields ==
  ASSUME NEW r \in EntryRows
  PROVE  /\ r.id \in Entries /\ r.cotisation \in Cotisations /\ r.kind \in Kinds
         /\ r.amount \in Int /\ r.reverses \in Entries \cup {NoEntry}
BY DEF EntryRows

\* A new row counts in the sum of its cotisation and kind, and in no other.
LEMMA NewRowCounts ==
  ASSUME EntriesKept, NEW r \in EntryRows, \A e \in entry : e.id # r.id,
         NEW c \in Cotisations, NEW kind \in Kinds
  PROVE  EntrySum(entry \cup {r}, c, kind) =
           IF c = r.cotisation /\ kind = r.kind
             THEN r.amount + EntrySum(entry, c, kind)
             ELSE EntrySum(entry, c, kind)
<1>1. /\ IsFiniteSet(OfKind(entry, c, kind))
      /\ \A e \in OfKind(entry, c, kind) : e.amount \in Int
      /\ r.amount \in Int
  BY SumsAreInt, RowFields DEF EntriesKept
<1>2. CASE c = r.cotisation /\ kind = r.kind
  <2>1. OfKind(entry \cup {r}, c, kind) = OfKind(entry, c, kind) \cup {r}
    BY <1>2 DEF OfKind
  <2>2. r \notin OfKind(entry, c, kind)
    BY DEF OfKind
  <2> QED
    BY <1>1, <1>2, <2>1, <2>2, AmountsJoined, SumOfKind
<1>3. CASE ~(c = r.cotisation /\ kind = r.kind)
  <2>1. OfKind(entry \cup {r}, c, kind) = OfKind(entry, c, kind)
    BY <1>3 DEF OfKind
  <2> QED
    BY <1>3, <2>1, SumOfKind
<1> QED
  BY <1>2, <1>3

\* The entry a new row reverses is the only one that stops standing; a row that
\* reverses none stands beside the others.
LEMMA NewRowStands ==
  ASSUME EntriesKept, NEW r \in EntryRows, \A e \in entry : e.id # r.id,
         r.reverses = NoEntry,
         NEW c \in Cotisations, NEW kind \in Kinds
  PROVE  Standing(entry \cup {r}, c, kind) =
           IF c = r.cotisation /\ kind = r.kind
             THEN Standing(entry, c, kind) \cup {r}
             ELSE Standing(entry, c, kind)
<1>1. \A e \in entry \cup {r} : r.reverses # e.id
  BY RowFields, LedgerAssumption DEF EntriesKept
<1>2. \A f \in entry : f.reverses # r.id
  BY RowFields, LedgerAssumption DEF EntriesKept
<1> QED
  BY <1>1, <1>2 DEF Standing

LEMMA ReversedStood ==
  ASSUME EntriesKept, NEW r \in EntryRows, \A e \in entry : e.id # r.id,
         r.reverses # NoEntry, Reversible(r, entry)
  PROVE  \E e \in entry :
           /\ r.amount = -e.amount
           /\ e \in Standing(entry, r.cotisation, r.kind)
           /\ e \notin Standing(entry \cup {r}, r.cotisation, r.kind)
           /\ Standing(entry, r.cotisation, r.kind) = Standing(entry \cup {r}, r.cotisation, r.kind) \cup {e}
           /\ \A c, kind : c # r.cotisation \/ kind # r.kind =>
                Standing(entry \cup {r}, c, kind) = Standing(entry, c, kind)
<1>1. PICK e \in entry : /\ e.id = r.reverses /\ e.cotisation = r.cotisation
                         /\ e.reverses = NoEntry /\ e.kind = r.kind
                         /\ r.amount = -e.amount
  BY DEF Reversible
<1>2. \A d \in entry : d.id = r.reverses => d = e
  BY <1>1 DEF EntriesKept
<1>3. \A f \in entry : f.reverses # e.id
  <2> SUFFICES ASSUME NEW f \in entry, f.reverses = e.id PROVE FALSE
    OBVIOUS
  <2>1. f.reverses # NoEntry
    BY <1>1
  <2>2. f.cotisation = r.cotisation
    BY <1>1, <1>2, <2>1 DEF EntriesKept
  <2> QED
    BY <1>1, <2>2 DEF Reversible
<1>4. e \in Standing(entry, r.cotisation, r.kind)
  BY <1>1, <1>3 DEF Standing
<1>5. \A c, kind : e \notin Standing(entry \cup {r}, c, kind)
  BY <1>1 DEF Standing
<1>6. \A c, kind : Standing(entry, c, kind) \ {e} = Standing(entry \cup {r}, c, kind)
  <2> TAKE c, kind
  <2>1. \A d \in entry \ {e} : r.reverses # d.id
    BY <1>2
  <2> QED
    BY <1>1, <2>1 DEF Standing
<1>7. \A c, kind : c # r.cotisation \/ kind # r.kind => e \notin Standing(entry, c, kind)
  BY <1>1 DEF Standing
<1>8. Standing(entry, r.cotisation, r.kind) = Standing(entry \cup {r}, r.cotisation, r.kind) \cup {e}
  BY <1>4, <1>6
<1>9. \A c, kind : c # r.cotisation \/ kind # r.kind =>
        Standing(entry \cup {r}, c, kind) = Standing(entry, c, kind)
  <2> SUFFICES ASSUME NEW c, NEW kind, c # r.cotisation \/ kind # r.kind
               PROVE  Standing(entry \cup {r}, c, kind) = Standing(entry, c, kind)
    OBVIOUS
  <2>1. Standing(entry, c, kind) \ {e} = Standing(entry \cup {r}, c, kind)
    BY <1>6
  <2>2. e \notin Standing(entry, c, kind)
    BY <1>7
  <2> QED
    BY <2>1, <2>2
<1> QED
  BY <1>1, <1>4, <1>5, <1>8, <1>9

\* With or without a reversal, the standing entries make up the sums.
LEMMA NewRowCancels ==
  ASSUME EntriesKept, ReversalsCancel, NEW r \in EntryRows, \A e \in entry : e.id # r.id,
         r.reverses # NoEntry => Reversible(r, entry),
         NEW c \in Cotisations, NEW kind \in Kinds
  PROVE  EntrySum(entry \cup {r}, c, kind) = AmountsOf(Standing(entry \cup {r}, c, kind))
<1> DEFINE S == Standing(entry, c, kind)
           T == Standing(entry \cup {r}, c, kind)
<1>1. /\ IsFiniteSet(S) /\ \A e \in S : e.amount \in Int
      /\ r.amount \in Int
  BY SumsAreInt, RowFields DEF EntriesKept
<1>2. IsFiniteSet(T) /\ \A e \in T : e.amount \in Int
  <2>1. IsFiniteSet(entry \cup {r}) /\ entry \cup {r} \subseteq EntryRows
    BY FS_AddElement DEF EntriesKept
  <2> QED
    BY <2>1, SumsAreInt
<1>3. EntrySum(entry, c, kind) = AmountsOf(S)
  BY DEF ReversalsCancel
<1>4. CASE r.reverses = NoEntry
  <2>1. T = IF c = r.cotisation /\ kind = r.kind THEN S \cup {r} ELSE S
    BY <1>4, NewRowStands
  <2>2. r \notin S
    BY DEF Standing
  <2> HIDE DEF S, T
  <2>3. AmountsOf(S \cup {r}) = r.amount + AmountsOf(S)
    BY <1>1, <2>2, AmountsJoined
  <2> QED
    BY <1>3, <2>1, <2>3, NewRowCounts DEF T
<1>5. ASSUME r.reverses # NoEntry, c = r.cotisation, kind = r.kind
      PROVE  EntrySum(entry \cup {r}, c, kind) = AmountsOf(T)
  <2>1. PICK e \in entry : r.amount = -e.amount /\ e \in S /\ e \notin T /\ S = T \cup {e}
    BY <1>5, ReversedStood
  <2> HIDE DEF S, T
  <2>2. e.amount \in Int
    BY <1>1, <2>1
  <2>3. AmountsOf(S) = e.amount + AmountsOf(T)
    BY <1>1, <1>2, <2>1, AmountsJoined
  <2>4. AmountsOf(T) \in Int
    BY <1>2, AmountsAreInt
  <2>5. EntrySum(entry \cup {r}, c, kind) = r.amount + AmountsOf(S)
    BY <1>3, <1>5, NewRowCounts
  <2> QED
    BY <2>1, <2>2, <2>3, <2>4, <2>5
<1>6. CASE r.reverses # NoEntry /\ (c # r.cotisation \/ kind # r.kind)
  <2>1. T = S
    <3>1. \A d, k : d # r.cotisation \/ k # r.kind =>
            Standing(entry \cup {r}, d, k) = Standing(entry, d, k)
      BY <1>6, ReversedStood
    <3> QED
      BY <1>6, <3>1
  <2>2. EntrySum(entry \cup {r}, c, kind) = EntrySum(entry, c, kind)
    BY <1>6, NewRowCounts
  <2> QED
    BY <1>3, <2>1, <2>2
<1> QED
  BY <1>4, <1>5, <1>6

LEMMA RecordKeepsBooks ==
  ASSUME Books, NEW r \in EntryRows, Promise!Record(r)
  PROVE  Books'
<1>1. /\ \A e \in entry : e.id # r.id
      /\ Permitted(r, SumsOf(r.cotisation), entry)
      /\ entry' = entry \cup {r} /\ initial' = initial /\ paid' = paid
  BY DEF Promise!Record, Promise!SumsOf, SumsOf
<1>2. /\ EntriesKept /\ ReversalsCancel /\ Balanced
      /\ initial \in [Cotisations -> 0 .. MaxAmount]
      /\ paid \in [Cotisations -> [Payments -> 0 .. MaxAmount]]
  BY DEF Books
<1>3. /\ r.reverses = NoEntry /\ r.kind = "refund" => r.amount > 0
      /\ r.reverses # NoEntry => Reversible(r, entry)
  BY <1>1, PermittedRow
<1>4. /\ r.kind = "adjustment" =>
           initial[r.cotisation] + EntrySum(entry, r.cotisation, "adjustment") + r.amount >= 0
      /\ r.kind = "refund" =>
           SumFunction(paid[r.cotisation]) - EntrySum(entry, r.cotisation, "refund") - r.amount >= 0
  BY <1>1, PermittedRow DEF SumsOf, Sums
<1>5. EntriesKept'
  <2>1. entry' \subseteq EntryRows /\ IsFiniteSet(entry')
    BY <1>1, <1>2, FS_AddElement DEF EntriesKept
  <2>2. \A d, e \in entry' : d.id = e.id => d = e
    BY <1>1, <1>2 DEF EntriesKept
  <2>3. \A f \in entry' : f.reverses # NoEntry =>
          \E e \in entry' : e.id = f.reverses /\ e.cotisation = f.cotisation
    BY <1>1, <1>2, <1>3 DEF EntriesKept, Reversible
  <2>4. \A e \in entry' : e.kind = "refund" /\ e.reverses = NoEntry => e.amount > 0
    BY <1>1, <1>2, <1>3 DEF EntriesKept
  <2> QED
    BY <2>1, <2>2, <2>3, <2>4 DEF EntriesKept
<1>6. \A c \in Cotisations, kind \in Kinds :
        EntrySum(entry', c, kind) = AmountsOf(Standing(entry', c, kind))
  BY <1>1, <1>2, <1>3, NewRowCancels
<1>7. ASSUME NEW c \in Cotisations
      PROVE  /\ EntrySum(entry', c, "refund") <= SumFunction(paid[c])
             /\ 0 <= initial[c] + EntrySum(entry', c, "adjustment")
  <2>1. \A kind \in Kinds : EntrySum(entry', c, kind) =
          IF c = r.cotisation /\ kind = r.kind
            THEN r.amount + EntrySum(entry, c, kind)
            ELSE EntrySum(entry, c, kind)
    BY <1>1, <1>2, NewRowCounts
  <2>2. /\ EntrySum(entry, c, "refund") \in Int /\ EntrySum(entry, c, "adjustment") \in Int
        /\ SumFunction(paid[c]) \in Int /\ initial[c] \in Int /\ r.amount \in Int
    BY <1>2, SumsAreInt, GrossIsInt, RowFields, LedgerAssumption DEF EntriesKept
  <2>3. /\ EntrySum(entry, c, "refund") <= SumFunction(paid[c])
        /\ 0 <= initial[c] + EntrySum(entry, c, "adjustment")
    BY <1>2 DEF Balanced
  <2>4. EntrySum(entry', c, "refund") <= SumFunction(paid[c])
    <3>1. CASE c = r.cotisation /\ r.kind = "refund"
      BY <1>4, <2>1, <2>2, <3>1 DEF Kinds
    <3>2. CASE ~(c = r.cotisation /\ r.kind = "refund")
      BY <2>1, <2>3, <3>2 DEF Kinds
    <3> QED
      BY <3>1, <3>2
  <2>5. 0 <= initial[c] + EntrySum(entry', c, "adjustment")
    <3>1. CASE c = r.cotisation /\ r.kind = "adjustment"
      BY <1>4, <2>1, <2>2, <3>1 DEF Kinds
    <3>2. CASE ~(c = r.cotisation /\ r.kind = "adjustment")
      BY <2>1, <2>3, <3>2 DEF Kinds
    <3> QED
      BY <3>1, <3>2
  <2> QED
    BY <2>4, <2>5
<1> QED
  BY <1>1, <1>2, <1>5, <1>6, <1>7 DEF Books, ReversalsCancel, Balanced

\* A payment changes what was paid in all by as much.
LEMMA PaymentCounts ==
  ASSUME Books, NEW c \in Cotisations, NEW p \in Payments, NEW a \in 0 .. MaxAmount,
         paid' = [paid EXCEPT ![c][p] = a]
  PROVE  /\ paid' \in [Cotisations -> [Payments -> 0 .. MaxAmount]]
         /\ SumFunction(paid'[c]) = SumFunction(paid[c]) - paid[c][p] + a
         /\ SumFunction(paid[c]) \in Int /\ paid[c][p] \in 0 .. MaxAmount
         /\ \A d \in Cotisations \ {c} : paid'[d] = paid[d]
<1>1. paid \in [Cotisations -> [Payments -> 0 .. MaxAmount]]
  BY DEF Books
<1>2. paid' \in [Cotisations -> [Payments -> 0 .. MaxAmount]]
  BY <1>1
<1> DEFINE f == paid[c]
           h == paid'[c]
<1>3. /\ f \in [Payments -> 0 .. MaxAmount] /\ h \in [Payments -> 0 .. MaxAmount]
      /\ h[p] = a /\ \A q \in Payments \ {p} : h[q] = f[q]
  BY <1>1, <1>2
<1> HIDE DEF f, h
<1>4. SumFunctionOnSet(h, Payments) = SumFunctionOnSet(f, Payments) - f[p] + h[p]
  BY <1>3, GrossIsInt, SumChanged, LedgerAssumption
<1>5. SumFunction(h) = SumFunction(f) - f[p] + a /\ SumFunction(f) \in Int
  BY <1>3, <1>4, GrossIsInt
<1> QED
  BY <1>1, <1>2, <1>5 DEF f, h

LEMMA PaymentKeepsBooks ==
  ASSUME Books, NEW c \in Cotisations, NEW p \in Payments, NEW a \in 0 .. MaxAmount,
         Promise!SetPayment(c, p, a),
         paid[c][p] = 0 \/ Reducible(SumsOf(c), paid[c][p] - a)
  PROVE  Books'
<1>1. paid' = [paid EXCEPT ![c][p] = a] /\ initial' = initial /\ entry' = entry
  BY DEF Promise!SetPayment
<1>2. /\ paid' \in [Cotisations -> [Payments -> 0 .. MaxAmount]]
      /\ SumFunction(paid'[c]) = SumFunction(paid[c]) - paid[c][p] + a
      /\ SumFunction(paid[c]) \in Int /\ paid[c][p] \in 0 .. MaxAmount
      /\ \A d \in Cotisations \ {c} : paid'[d] = paid[d]
  BY <1>1, PaymentCounts
<1>3. Balanced /\ EntrySum(entry, c, "refund") \in Int
  BY SumsAreInt DEF Books, EntriesKept
<1>4. EntrySum(entry, c, "refund") <= SumFunction(paid'[c])
  <2>1. CASE paid[c][p] = 0
    <3>1. EntrySum(entry, c, "refund") <= SumFunction(paid[c])
      BY <1>3 DEF Balanced
    <3>2. SumFunction(paid'[c]) = SumFunction(paid[c]) + a /\ a \in Nat
      BY <1>2, <2>1, LedgerAssumption
    <3> QED
      BY <1>2, <1>3, <3>1, <3>2
  <2>2. CASE Reducible(SumsOf(c), paid[c][p] - a)
    <3>1. SumFunction(paid[c]) - (paid[c][p] - a) >= EntrySum(entry, c, "refund")
      BY <2>2 DEF Reducible, SumsOf, Sums
    <3> QED
      BY <1>2, <1>3, <3>1, LedgerAssumption
  <2> QED
    BY <2>1, <2>2
<1>5. Balanced'
  BY <1>1, <1>2, <1>3, <1>4 DEF Balanced
<1> QED
  BY <1>1, <1>2, <1>5 DEF Books, EntriesKept, ReversalsCancel

LEMMA BooksStay == Books /\ [Promise!Next]_(Promise!vars) => Books'
<1> SUFFICES ASSUME Books, [Promise!Next]_(Promise!vars) PROVE Books'
  OBVIOUS
<1>1. CASE \E r \in EntryRows : Promise!Record(r)
  BY <1>1, RecordKeepsBooks
<1>2. CASE \E c \in Cotisations, p \in Payments :
             \/ \E x \in 1 .. MaxAmount : Promise!Pay(c, p, x)
             \/ \E x \in 0 .. MaxAmount : Promise!Correct(c, p, x)
  <2>1. PICK c \in Cotisations, p \in Payments :
             \/ \E x \in 1 .. MaxAmount : Promise!Pay(c, p, x)
             \/ \E x \in 0 .. MaxAmount : Promise!Correct(c, p, x)
    BY <1>2
  <2>2. PICK a \in 0 .. MaxAmount : Promise!Pay(c, p, a) \/ Promise!Correct(c, p, a)
    BY <2>1, LedgerAssumption
  <2> QED
    BY <2>2, PaymentKeepsBooks
    DEF Promise!Pay, Promise!Correct, Promise!SumsOf, SumsOf
<1>3. CASE UNCHANGED Promise!vars
  BY <1>3 DEF Promise!vars, Books, EntriesKept, ReversalsCancel, Balanced
<1> QED
  BY <1>1, <1>2, <1>3 DEF Promise!Next

H == INSTANCE LedgerHistories


LEMMA SameEntrySum ==
  ASSUME NEW rows, NEW c, NEW kind
  PROVE  H!EntrySum(rows, c, kind) = EntrySum(rows, c, kind)
BY DEF H!EntrySum, H!MapThenSumSet, H!MapThenFoldSet, EntrySum, MapThenSumSet, MapThenFoldSet

LEMMA SameGross ==
  ASSUME NEW f
  PROVE  H!SumFunction(f) = SumFunction(f)
BY DEF H!SumFunction, H!SumFunctionOnSet, H!FoldFunctionOnSet, H!MapThenFoldSet,
       SumFunction, SumFunctionOnSet, FoldFunctionOnSet, MapThenFoldSet

LEMMA SameSums ==
  ASSUME NEW i, NEW p, NEW rows, NEW c
  PROVE  H!Sums(i, p, rows, c) = Sums(i, p, rows, c)
BY SameEntrySum, SameGross DEF H!Sums, Sums

LEMMA SameRules ==
  ASSUME NEW r, NEW sums, NEW rows, NEW reduction
  PROVE  /\ H!Permitted(r, sums, rows) = Permitted(r, sums, rows)
         /\ H!Reducible(sums, reduction) = Reducible(sums, reduction)
BY DEF H!Permitted, H!Reducible, H!Reversible, H!Valid, H!Magnitude, H!Net, H!Called, H!Solvent,
       Permitted, Reducible, Reversible, Valid, Magnitude, Net, Called, Solvent

LEMMA HistoriesArePromised == H!Spec => Promise!Spec
<1>1. H!Init => Promise!Init
  BY DEF H!Init, Promise!Init
<1>2. [H!Next]_(H!vars) => [Promise!Next]_(Promise!vars)
  BY SameSums, SameRules
  DEF H!Next, H!Pay, H!Correct, H!SetPayment, H!Record, H!SumsOf, H!EntryRows, H!Kinds, H!vars,
      Promise!Next, Promise!Pay, Promise!Correct, Promise!SetPayment, Promise!Record,
      Promise!SumsOf, Promise!vars, EntryRows, Kinds
<1> QED
  BY <1>1, <1>2, PTL DEF H!Spec, Promise!Spec

LEMMA BooksSay == Books => NeverNegative /\ SumsAreStandingEntries
<1> SUFFICES ASSUME Books PROVE NeverNegative /\ SumsAreStandingEntries
  OBVIOUS
<1>1. SumsAreStandingEntries
  <2> SUFFICES ASSUME NEW c \in Cotisations, NEW kind \in Kinds
               PROVE  EntrySum(entry, c, kind) =
                        MapThenSumSet(LAMBDA e : e.amount, Standing(entry, c, kind))
    BY DEF SumsAreStandingEntries, Standing
  <2> QED
    BY DEF Books, ReversalsCancel, AmountsOf
<1>2. NeverNegative
  BY RefundsArePositive DEF NeverNegative, Called, Sums, Books, Balanced
<1> QED
  BY <1>1, <1>2

LEMMA PromiseKeepsBooks == Promise!Spec => []Books
BY BooksBegin, BooksStay, PTL DEF Promise!Spec

\* In every history the rules permit, of any length and on any number of payments and
\* entries, no more is refunded than was paid and no negative amount is called.
THEOREM HistoriesNeverNegative == H!Spec => []NeverNegative
BY HistoriesArePromised, PromiseKeepsBooks, BooksSay, PTL

\* The sums of every history are those of the entries that were never reversed.
THEOREM HistoriesSumStandingEntries == H!Spec => []SumsAreStandingEntries
BY HistoriesArePromised, PromiseKeepsBooks, BooksSay, PTL

\* The same of concurrent requests, which take effect one at a time.
THEOREM LedgerNeverNegative == Spec => [](NeverNegative /\ SumsAreStandingEntries)
BY LedgerIsAtomic, PromiseKeepsBooks, BooksSay, PTL DEF ImplementsAtomicLedger

------------------------------------------------------------------------------
(* The type of every variable.  The sums of a preview are integers because  *)
(* the books they were read from are finite.                                *)

LEMMA SumsAreRows ==
  ASSUME Books, NEW c \in Cotisations
  PROVE  SumsOf(c) \in SumRows
<1>1. /\ initial[c] \in Int /\ SumFunction(paid[c]) \in Int
      /\ EntrySum(entry, c, "refund") \in Int /\ EntrySum(entry, c, "adjustment") \in Int
  BY SumsAreInt, GrossIsInt, LedgerAssumption DEF Books, EntriesKept
<1> QED
  BY <1>1 DEF SumsOf, Sums, SumRows

LEMMA TypeBegins == Init => TypeOK
<1> SUFFICES ASSUME Init PROVE TypeOK
  OBVIOUS
<1>1. 0 \in 0 .. MaxAmount /\ 0 \in 0 .. MaxWrites /\ NoSums \in SumRows
  BY BudgetLedgerAssumption, LedgerAssumption DEF NoSums, SumRows
<1>2. initial \in [Cotisations -> 0 .. MaxAmount]
  BY BudgetLedgerAssumption DEF Init
<1>3. paid \in [Cotisations -> [Payments -> 0 .. MaxAmount]]
  BY <1>1 DEF Init
<1> QED
  BY <1>1, <1>2, <1>3 DEF Init, TypeOK, Phases

LEMMA EndKeepsType ==
  ASSUME TypeOK, NEW s \in Sessions, End(s),
         paid' \in [Cotisations -> [Payments -> 0 .. MaxAmount]], entry' \subseteq EntryRows,
         writes' \in [Cotisations -> 0 .. MaxWrites], UNCHANGED <<initial, listed>>
  PROVE  TypeOK'
BY BudgetLedgerAssumption, LedgerAssumption DEF TypeOK, End, NoSums, SumRows, Phases

LEMMA PreviewKeepsType ==
  ASSUME TypeOK, IInv, Books, NEW s \in Sessions, Preview(s)
  PROVE  TypeOK'
<1>1. CASE \E r \in EntryRows : PreviewEntry(s, r)
  <2>1. PICK r \in EntryRows : PreviewEntry(s, r)
    BY <1>1
  <2>2. PICK sums \in SumRows : shown' = [shown EXCEPT ![s] = sums]
    BY <2>1, RowFields, SumsAreRows DEF PreviewEntry
  <2> QED
    BY <2>1, <2>2, RowFields DEF PreviewEntry, TypeOK, Phases, tables
<1>2. CASE PreviewVersion(s)
  <2>1. cotisation[s] \in Cotisations
    BY <1>2 DEF PreviewVersion, IInv, Dialogs
  <2>2. PICK ids \in SUBSET Entries : seenEntries' = [seenEntries EXCEPT ![s] = ids]
    <3>1. EntryIds(cotisation[s]) \in SUBSET Entries
      BY RowFields DEF EntryIds, TypeOK
    <3> QED
      BY <1>2, <3>1 DEF PreviewVersion
  <2>3. PICK n \in 0 .. MaxWrites : seenWrites' = [seenWrites EXCEPT ![s] = n]
    BY <1>2, <2>1 DEF PreviewVersion, TypeOK
  <2> QED
    BY <1>2, <2>2, <2>3 DEF PreviewVersion, TypeOK, Phases, tables
<1>3. CASE \E r \in Sessions : Repeat(s, r)
  BY <1>3 DEF Repeat, TypeOK, Phases, tables
<1> QED
  BY <1>1, <1>2, <1>3 DEF Preview

LEMMA WriteKeepsType ==
  ASSUME TypeOK, IInv, NEW s \in Sessions, Write(s)
  PROVE  TypeOK'
<1>1. CASE LockForEntry(s) \/ CheckEntry(s)
  BY <1>1 DEF LockForEntry, CheckEntry, Goto, TypeOK, Phases, tables, locals
<1>2. CASE InsertEntry(s) \/ InsertEntryUnreported(s)
  <2>1. phase[s] = "inserting" /\ form[s] \in EntryRows
    BY <1>2 DEF InsertEntry, InsertEntryUnreported, IInv, Dialogs
  <2>2. entry' \subseteq EntryRows
    BY <1>2, <2>1 DEF InsertEntry, InsertEntryUnreported, TypeOK
  <2>3. CASE InsertEntry(s)
    BY <2>2, <2>3, EndKeepsType DEF InsertEntry, TypeOK
  <2>4. CASE InsertEntryUnreported(s)
    BY <2>2, <2>4 DEF InsertEntryUnreported, Goto, TypeOK, Phases, locals
  <2> QED
    BY <1>2, <2>3, <2>4
<1>3. CASE \E c \in Cotisations : LockForPayment(s, c)
  BY <1>3 DEF LockForPayment, TypeOK, Phases, tables
<1>4. CASE \E p \in Payments :
             \/ \E a \in 1 .. MaxAmount : CreatePayment(s, p, a) \/ UpdatePayment(s, p, a)
             \/ DeletePayment(s, p)
  <2>1. PICK p \in Payments, a \in 0 .. MaxAmount, next \in {"inserted", "saving"}, b \in BOOLEAN :
          Prepare(s, next, p, a) /\ unitRead' = [unitRead EXCEPT ![s] = b]
    <3>1. PICK p \in Payments :
             \/ \E a \in 1 .. MaxAmount : CreatePayment(s, p, a) \/ UpdatePayment(s, p, a)
             \/ DeletePayment(s, p)
      BY <1>4
    <3>2. 1 .. MaxAmount \subseteq 0 .. MaxAmount /\ 0 \in 0 .. MaxAmount
      BY LedgerAssumption
    <3>3. phase[s] = "locked"
      BY <3>1 DEF CreatePayment, UpdatePayment, DeletePayment
    <3>4. cotisation[s] \in Cotisations
      BY <3>3 DEF IInv, Dialogs
    <3>5. listed[cotisation[s]] \in BOOLEAN /\ unitRead[s] \in BOOLEAN
          /\ unitRead = [unitRead EXCEPT ![s] = unitRead[s]]
      BY <3>4 DEF TypeOK
    <3>6. CASE \E a \in 1 .. MaxAmount : CreatePayment(s, p, a)
      BY <3>2, <3>5, <3>6 DEF CreatePayment
    <3>7. CASE \E a \in 1 .. MaxAmount : UpdatePayment(s, p, a)
      BY <3>2, <3>5, <3>7 DEF UpdatePayment
    <3>8. CASE DeletePayment(s, p)
      BY <3>2, <3>5, <3>8 DEF DeletePayment
    <3> QED
      BY <3>1, <3>6, <3>7, <3>8
  <2> QED
    BY <2>1 DEF Prepare, TypeOK, Phases, tables
<1>5. CASE CommitCreation(s) \/ SavePayment(s)
  <2>1. WritePayment(s) /\ phase[s] \in {"inserted", "saving"}
    BY <1>5 DEF CommitCreation, SavePayment
  <2>2. cotisation[s] \in Cotisations /\ payment[s] \in Payments /\ amount[s] \in 0 .. MaxAmount
    BY <2>1 DEF IInv, Dialogs, PaymentsChecked, TypeOK
  <2>3. paid' \in [Cotisations -> [Payments -> 0 .. MaxAmount]]
    BY <2>1, <2>2 DEF WritePayment, TypeOK
  <2>4. writes' \in [Cotisations -> 0 .. MaxWrites]
    BY <2>1, <2>2, BudgetLedgerAssumption DEF WritePayment, TypeOK
  <2> QED
    BY <2>1, <2>3, <2>4, EndKeepsType DEF WritePayment, TypeOK
<1> QED
  BY <1>1, <1>2, <1>3, <1>4, <1>5 DEF Write

\* Every variable keeps its type; the sums shown are integers because the books are.
THEOREM LedgerTypeOK == Spec => []TypeOK
<1>1. TypeOK /\ IInv /\ Books /\ [Next]_vars => TypeOK'
  <2> SUFFICES ASSUME TypeOK, IInv, Books, [Next]_vars PROVE TypeOK'
    OBVIOUS
  <2>1. CASE \E s \in Sessions : Preview(s)
    BY <2>1, PreviewKeepsType
  <2>2. CASE \E s \in Sessions : Write(s)
    BY <2>2, WriteKeepsType
  <2>3. CASE \E s \in Sessions : Rollback(s)
    BY <2>3, EndKeepsType DEF Rollback, tables, TypeOK
  <2>4. CASE \E c \in Cotisations : DeleteUnit(c)
    BY <2>4 DEF DeleteUnit, locals, TypeOK
  <2>5. CASE UNCHANGED vars
    BY <2>5 DEF vars, TypeOK
  <2> QED
    BY <2>1, <2>2, <2>3, <2>4, <2>5 DEF Next
<1>2. Spec => []Books
  BY LedgerIsAtomic, PromiseKeepsBooks, PTL DEF ImplementsAtomicLedger
<1> QED
  BY TypeBegins, <1>1, <1>2, InvariantHolds, PTL DEF Spec
====
