----------------------------- MODULE BudgetLedger -----------------------------
(***************************************************************************)
(* Concurrent requests on the ledger of one published budget: the payment  *)
(* handlers of server/handlers/budget.go and CreateFinancialEntry and      *)
(* PreviewFinancialEntry of controllers/financial.go.                      *)
(*                                                                         *)
(* A session is a dialog of the user interface with the request it sends:  *)
(* a write is one READ COMMITTED transaction that locks the budget row     *)
(* first (LockFinancialBudget) and becomes visible at its commit; a        *)
(* preview is a series of plain reads without transaction or lock.         *)
(*                                                                         *)
(* The version of a preview hashes the sums, the payments with their       *)
(* updated_at, the identifiers of the entries and the proposed entry.      *)
(* Identifiers are never used again and a write changes updated_at, so the *)
(* payments are represented by the number of writes to them.               *)
(***************************************************************************)
EXTENDS LedgerTables

CONSTANTS
  Sessions,        \* concurrent dialogs and requests
  NoCotisation,    \* cotisation of an idle session
  NoPayment,       \* payment of a session that saves none
  InitialAmounts,  \* bound: amounts called by the publication
  MaxWrites        \* bound: payment writes per cotisation

ASSUME BudgetLedgerAssumption ==
  /\ NoCotisation \notin Cotisations
  /\ NoPayment \notin Payments
  /\ InitialAmounts \subseteq 0 .. MaxAmount
  /\ MaxWrites \in Nat \ {0}

VARIABLES
  writes,       \* per cotisation: committed writes of its payments
  listed,       \* per cotisation: its unit is not deleted
  phase,        \* per session: where it is
  cotisation,   \* per session: the cotisation it works on
  payment,      \* per session: the payment it is about to save
  amount,       \* per session: its new amount, 0 to delete it
  form,         \* per session: the entry it proposes
  shown,        \* per session: the sums read for its preview
  seenWrites,   \* per session: the payments read for its preview
  seenEntries,  \* per session: the entries read for its preview
  unitRead      \* per session: Preload("Unit") found the unit

tables == <<initial, paid, entry, writes, listed>>
locals == <<cotisation, payment, amount, form, shown, seenWrites, seenEntries, unitRead>>
vars == <<initial, paid, entry, writes, listed, phase,
          cotisation, payment, amount, form, shown, seenWrites, seenEntries, unitRead>>

\* reading: sums of a preview read; previewed: its version received; recording: row
\* locked to record the form; inserting: checks passed; locked: row locked for a
\* payment; inserted: payment inserted, not committed; saving: reduction checked.
Phases == {"idle", "reading", "previewed", "recording", "inserting",
           "locked", "inserted", "saving"}

\* Phases of a transaction that holds the row lock.
Holding == {"recording", "inserting", "locked", "inserted", "saving"}

NoForm ==
  [id |-> NoEntry, cotisation |-> NoCotisation, kind |-> "refund",
   amount |-> 0, reverses |-> NoEntry]

SumRows == [initial : Int, adjustment : Int, gross : Int, refunded : Int]

NoSums == [initial |-> 0, adjustment |-> 0, gross |-> 0, refunded |-> 0]

TypeOK ==
  /\ initial \in [Cotisations -> 0 .. MaxAmount]
  /\ paid \in [Cotisations -> [Payments -> 0 .. MaxAmount]]
  /\ entry \subseteq EntryRows
  /\ writes \in [Cotisations -> 0 .. MaxWrites]
  /\ listed \in [Cotisations -> BOOLEAN]
  /\ phase \in [Sessions -> Phases]
  /\ cotisation \in [Sessions -> Cotisations \cup {NoCotisation}]
  /\ payment \in [Sessions -> Payments \cup {NoPayment}]
  /\ amount \in [Sessions -> 0 .. MaxAmount]
  /\ form \in [Sessions -> EntryRows \cup {NoForm}]
  /\ shown \in [Sessions -> SumRows]
  /\ seenWrites \in [Sessions -> 0 .. MaxWrites]
  /\ seenEntries \in [Sessions -> SUBSET Entries]
  /\ unitRead \in [Sessions -> BOOLEAN]

Init ==
  /\ initial \in [Cotisations -> InitialAmounts]
  /\ paid = [c \in Cotisations |-> [p \in Payments |-> 0]]
  /\ entry = {}
  /\ writes = [c \in Cotisations |-> 0]
  /\ listed = [c \in Cotisations |-> TRUE]
  /\ phase = [s \in Sessions |-> "idle"]
  /\ cotisation = [s \in Sessions |-> NoCotisation]
  /\ payment = [s \in Sessions |-> NoPayment]
  /\ amount = [s \in Sessions |-> 0]
  /\ form = [s \in Sessions |-> NoForm]
  /\ shown = [s \in Sessions |-> NoSums]
  /\ seenWrites = [s \in Sessions |-> 0]
  /\ seenEntries = [s \in Sessions |-> {}]
  /\ unitRead = [s \in Sessions |-> FALSE]

------------------------------------------------------------------------------
(* Locks and transactions *)

\* mutant: the budget row is read without FOR UPDATE
RowFreeAlways == TRUE

\* LockFinancialBudget does not have to wait.
RowFree == \A s \in Sessions : phase[s] \notin Holding

Goto(s, p) ==
  /\ phase' = [phase EXCEPT ![s] = p]
  /\ UNCHANGED locals

\* COMMIT or ROLLBACK, and the dialog is closed.
End(s) ==
  /\ phase' = [phase EXCEPT ![s] = "idle"]
  /\ cotisation' = [cotisation EXCEPT ![s] = NoCotisation]
  /\ payment' = [payment EXCEPT ![s] = NoPayment]
  /\ amount' = [amount EXCEPT ![s] = 0]
  /\ form' = [form EXCEPT ![s] = NoForm]
  /\ shown' = [shown EXCEPT ![s] = NoSums]
  /\ seenWrites' = [seenWrites EXCEPT ![s] = 0]
  /\ seenEntries' = [seenEntries EXCEPT ![s] = {}]
  /\ unitRead' = [unitRead EXCEPT ![s] = FALSE]

\* The request is refused or fails, or its client or its process is gone.
Rollback(s) ==
  /\ phase[s] # "idle"
  /\ End(s)
  /\ UNCHANGED tables

SumsOf(c) == Sums(initial, paid, entry, c)

EntryIds(c) == {e.id : e \in {f \in entry : f.cotisation = c}}

------------------------------------------------------------------------------
(* Preview of an entry: reads without a transaction *)

\* An entry to reverse is one of the list the user looks at; the sums read here must
\* permit the proposal.
PreviewEntry(s, r) ==
  /\ phase[s] = "idle"
  /\ Permitted(r, SumsOf(r.cotisation), entry)
  /\ phase' = [phase EXCEPT ![s] = "reading"]
  /\ cotisation' = [cotisation EXCEPT ![s] = r.cotisation]
  /\ form' = [form EXCEPT ![s] = r]
  /\ shown' = [shown EXCEPT ![s] = SumsOf(r.cotisation)]
  /\ UNCHANGED <<tables, payment, amount, seenWrites, seenEntries, unitRead>>

\* The entries, for the rules of a reversal, and the payments are read after the sums,
\* which may have changed.
PreviewVersion(s) ==
  /\ phase[s] = "reading"
  /\ Permitted(form[s], shown[s], entry)
  /\ phase' = [phase EXCEPT ![s] = "previewed"]
  /\ seenWrites' = [seenWrites EXCEPT ![s] = writes[cotisation[s]]]
  /\ seenEntries' = [seenEntries EXCEPT ![s] = EntryIds(cotisation[s])]
  /\ UNCHANGED <<tables, cotisation, payment, amount, form, shown, unitRead>>

\* The form is sent twice, as by a double click.
Repeat(s, r) ==
  /\ phase[s] = "idle"
  /\ phase[r] = "previewed"
  /\ phase' = [phase EXCEPT ![s] = "previewed"]
  /\ cotisation' = [cotisation EXCEPT ![s] = cotisation[r]]
  /\ form' = [form EXCEPT ![s] = form[r]]
  /\ shown' = [shown EXCEPT ![s] = shown[r]]
  /\ seenWrites' = [seenWrites EXCEPT ![s] = seenWrites[r]]
  /\ seenEntries' = [seenEntries EXCEPT ![s] = seenEntries[r]]
  /\ UNCHANGED <<tables, payment, amount, unitRead>>

------------------------------------------------------------------------------
(* CreateFinancialEntry *)

LockForEntry(s) ==
  /\ phase[s] = "previewed"
  /\ RowFree
  /\ Goto(s, "recording")
  /\ UNCHANGED tables

\* mutant: the version covers the rows, not the sums the user was shown
UpToDateRows(s) ==
  /\ seenWrites[s] = writes[cotisation[s]]
  /\ seenEntries[s] = EntryIds(cotisation[s])

\* The version sent is the one of the preview computed again.
UpToDate(s) ==
  /\ shown[s] = SumsOf(cotisation[s])
  /\ seenWrites[s] = writes[cotisation[s]]
  /\ seenEntries[s] = EntryIds(cotisation[s])

\* financialEffect again under the lock, the version, and an identifier not used yet.
CheckEntry(s) ==
  /\ phase[s] = "recording"
  /\ Permitted(form[s], SumsOf(cotisation[s]), entry)
  /\ UpToDate(s)
  /\ \A e \in entry : e.id # form[s].id
  /\ Goto(s, "inserting")
  /\ UNCHANGED tables

\* INSERT and COMMIT.
InsertEntry(s) ==
  /\ phase[s] = "inserting"
  /\ entry' = entry \cup {form[s]}
  /\ End(s)
  /\ UNCHANGED <<initial, paid, writes, listed>>

\* The commit succeeds, its answer is lost, and the dialog is sent again.
InsertEntryUnreported(s) ==
  /\ phase[s] = "inserting"
  /\ entry' = entry \cup {form[s]}
  /\ Goto(s, "previewed")
  /\ UNCHANGED <<initial, paid, writes, listed>>

------------------------------------------------------------------------------
(* Payments *)

LockForPayment(s, c) ==
  /\ phase[s] = "idle"
  /\ RowFree
  /\ phase' = [phase EXCEPT ![s] = "locked"]
  /\ cotisation' = [cotisation EXCEPT ![s] = c]
  /\ UNCHANGED <<tables, payment, amount, form, shown, seenWrites, seenEntries, unitRead>>

\* Ready to commit a for payment p of the session's cotisation.
Prepare(s, next, p, a) ==
  /\ phase' = [phase EXCEPT ![s] = next]
  /\ payment' = [payment EXCEPT ![s] = p]
  /\ amount' = [amount EXCEPT ![s] = a]
  /\ UNCHANGED <<tables, cotisation, form, shown, seenWrites, seenEntries>>

\* CreatePayment: reads the cotisation with its unit and inserts the payment.
CreatePayment(s, p, a) ==
  /\ phase[s] = "locked"
  /\ paid[cotisation[s]][p] = 0
  /\ Valid(a)
  /\ Prepare(s, "inserted", p, a)
  /\ unitRead' = [unitRead EXCEPT ![s] = listed[cotisation[s]]]

UpdatePayment(s, p, a) ==
  /\ phase[s] = "locked"
  /\ paid[cotisation[s]][p] # 0
  /\ Valid(a)
  /\ Reducible(SumsOf(cotisation[s]), paid[cotisation[s]][p] - a)
  /\ Prepare(s, "saving", p, a)
  /\ UNCHANGED unitRead

DeletePayment(s, p) ==
  /\ phase[s] = "locked"
  /\ paid[cotisation[s]][p] # 0
  /\ Reducible(SumsOf(cotisation[s]), paid[cotisation[s]][p])
  /\ Prepare(s, "saving", p, 0)
  /\ UNCHANGED unitRead

\* mutant: a correction is added to the payment
WritePaymentAdding(s) ==
  LET c == cotisation[s] IN
    /\ writes[c] < MaxWrites
    /\ writes' = [writes EXCEPT ![c] = @ + 1]
    /\ paid' = [paid EXCEPT ![c][payment[s]] = @ + amount[s]]
    /\ End(s)
    /\ UNCHANGED <<initial, entry, listed>>

\* The write becomes visible.
WritePayment(s) ==
  LET c == cotisation[s] IN
    /\ writes[c] < MaxWrites
    /\ writes' = [writes EXCEPT ![c] = @ + 1]
    /\ paid' = [paid EXCEPT ![c][payment[s]] = amount[s]]
    /\ End(s)
    /\ UNCHANGED <<initial, entry, listed>>

\* The log line of CreatePayment, before its commit, takes the number of the unit: the
\* handler panics when the unit has been deleted, and the payment is rolled back.
CommitCreation(s) ==
  /\ phase[s] = "inserted"
  /\ unitRead[s]
  /\ WritePayment(s)

SavePayment(s) ==
  /\ phase[s] = "saving"
  /\ WritePayment(s)

\* DeleteUnit looks at no cotisation.
DeleteUnit(c) ==
  /\ listed[c]
  /\ listed' = [listed EXCEPT ![c] = FALSE]
  /\ UNCHANGED <<initial, paid, entry, writes, phase, locals>>

------------------------------------------------------------------------------
Preview(s) ==
  \/ \E r \in EntryRows : PreviewEntry(s, r)
  \/ PreviewVersion(s)
  \/ \E r \in Sessions : Repeat(s, r)

Write(s) ==
  \/ LockForEntry(s) \/ CheckEntry(s) \/ InsertEntry(s) \/ InsertEntryUnreported(s)
  \/ \E c \in Cotisations : LockForPayment(s, c)
  \/ \E p \in Payments :
       \/ \E a \in 1 .. MaxAmount : CreatePayment(s, p, a) \/ UpdatePayment(s, p, a)
       \/ DeletePayment(s, p)
  \/ CommitCreation(s) \/ SavePayment(s)

Next ==
  \/ \E s \in Sessions : Preview(s) \/ Write(s) \/ Rollback(s)
  \/ \E c \in Cotisations : DeleteUnit(c)

Spec == Init /\ [][Next]_vars

------------------------------------------------------------------------------
(* Properties *)

\* An entry is recorded on exactly the sums its author was shown, although a preview
\* reads them without a lock, and not even from one snapshot: "stale previews cannot
\* silently record a different amount after a concurrent financial write"
\* (financial.go:131-132).
PreviewIsHonoured ==
  [][\A s \in Sessions :
       phase[s] = "inserting" /\ entry' # entry => shown[s] = SumsOf(cotisation[s])]_vars

\* The promise: the requests take effect one at a time, on the sums of that instant, and
\* a form that is sent again records nothing more (LockFinancialBudget "serializes
\* publication, payment corrections, refunds and adjustment reversals",
\* financial.go:18-19).
Promise == INSTANCE AtomicLedger

ImplementsAtomicLedger == Promise!Spec

\* "Les paiements restent modifiables selon les droits attribués" for a published budget
\* (README.md:216): CreatePayment can commit the payment it has inserted.
PaymentsStayPossible ==
  \A s \in Sessions : phase[s] = "inserted" => unitRead[s]
==============================================================================
