--------------------------- MODULE CotisationDialog ---------------------------
(***************************************************************************)
(* The window of one cotisation (payment-list.component.ts): its financial *)
(* history (financial-history.component.ts), the form of its payments      *)
(* (payment-form.component.ts) and the ledger of the server behind them.   *)
(*                                                                         *)
(* The ledger is what BudgetLedger promises: its writes act one after the  *)
(* other, so what a read returns is told by the number of writes before    *)
(* it.  The version of a preview changes with every write and stands for   *)
(* that number.  A load of the history makes two reads; it is as old as    *)
(* the first of them.                                                      *)
(*                                                                         *)
(* A payment that the window no longer waits for may be written later or   *)
(* never: that is a write another administrator might have made.           *)
(***************************************************************************)
EXTENDS Integers, FiniteSets

CONSTANTS
  Values,         \* what the form of an operation may hold
  MaxWrites,      \* bound: writes to the ledger
  MaxOperations,  \* bound: operations the user starts
  MaxLoads        \* bound: loads of one plain source, or deletions, in flight at once

ASSUME CotisationDialogAssumption ==
  /\ MaxWrites \in Nat /\ MaxOperations \in Nat /\ MaxLoads \in Nat \ {0}

VARIABLES
  writes,      \* server: the number of writes to the ledger
  entries,     \* server: the financial entries recorded from this window; start is a history field
  window,      \* "closed" or "open"
  budgetKnown, budgetLoads, loadError,
  view,
  historyLoads, historyLoading, historyError, historyShown,
  operation,   \* operationId, numbered
  form,        \* {}, or what is entered for an operation (kind)
  preview,     \* preview and payload: {} or one record
  busy,        \* {} or the request the history waits for
  dialog,      \* the payment form or the confirmation of a deletion, over the window
  deletions,   \* deletions of payments in flight
  late,        \* confirmations whose answer was lost and that the server may still receive
  started,     \* history variable: the operations the user has begun
  heard        \* history variable: the writes the window knows to have been made

historyVars == <<historyLoads, historyLoading, historyError, historyShown>>
operationVars == <<operation, form, preview, busy, late, started>>
windowVars == <<window, budgetKnown, budgetLoads, loadError, view>>
ledgerVars == <<writes, entries>>
dialogVars == <<dialog, deletions>>
cotisationVars == <<ledgerVars, windowVars, historyVars, operationVars, dialogVars, heard>>

Unread == -1   \* a load the server has not answered yet
NoDialog == "none"

Covered == dialog \in {"form", "saving", "confirm"}

CotisationInit ==
  /\ writes = 0 /\ entries = {}
  /\ window = "closed" /\ budgetKnown = FALSE /\ budgetLoads = 0 /\ loadError = FALSE /\ view = "situation"
  /\ historyLoads = {} /\ historyLoading = TRUE /\ historyError = FALSE /\ historyShown = Unread
  /\ form = {} /\ operation = 0 /\ started = 0 /\ preview = {} /\ busy = {} /\ late = {}
  /\ dialog = NoDialog /\ deletions = 0
  /\ heard = 0

(***************************************************************************)
(* The window                                                              *)
(***************************************************************************)
OpenWindow ==
  /\ window = "closed"
  /\ window' = "open" /\ budgetKnown' = FALSE /\ budgetLoads' = 1 /\ loadError' = FALSE /\ view' = "situation"
  /\ historyLoads' = {} /\ historyLoading' = TRUE /\ historyError' = FALSE /\ historyShown' = Unread
  /\ form' = {} /\ preview' = {} /\ busy' = {}
  /\ UNCHANGED <<ledgerVars, operation, late, started, dialogVars, heard>>

\* Everything the window waits for is dropped with it.
CloseWindow ==
  /\ window = "open"
  /\ window' = "closed" /\ budgetKnown' = FALSE /\ budgetLoads' = 0 /\ loadError' = FALSE /\ view' = "situation"
  /\ historyLoads' = {} /\ historyLoading' = TRUE /\ historyError' = FALSE /\ historyShown' = Unread
  /\ form' = {} /\ preview' = {} /\ busy' = {}
  /\ late' = late \cup {r \in busy : r.what = "confirm"}
  /\ dialog' = NoDialog /\ deletions' = 0
  /\ heard' = 0
  /\ UNCHANGED <<ledgerVars, operation, started>>

Close == busy = {} /\ ~Covered /\ CloseWindow

RetryBudget ==
  /\ window = "open" /\ loadError /\ ~Covered
  /\ budgetLoads < MaxLoads
  /\ budgetLoads' = budgetLoads + 1
  /\ UNCHANGED <<ledgerVars, window, budgetKnown, loadError, view>>
  /\ UNCHANGED <<historyVars, operationVars, dialogVars, heard>>

SetView ==
  /\ window = "open" /\ ~Covered
  /\ busy = {}
  /\ view' = IF view = "situation" THEN "payments" ELSE "situation"
  /\ UNCHANGED <<ledgerVars, window, budgetKnown, budgetLoads, loadError>>
  /\ UNCHANGED <<historyVars, operationVars, dialogVars, heard>>

(***************************************************************************)
(* Loads                                                                   *)
(***************************************************************************)
\* Mutant: the earlier load goes on.
LoadHistoryMerged ==
  /\ historyLoads' = historyLoads \cup {Unread}
  /\ historyLoading' = TRUE
  /\ historyError' = FALSE
  /\ preview' = {}
  /\ UNCHANGED historyShown

\* load(): the earlier load ends, and a preview of what was shown with it.
LoadHistory ==
  /\ historyLoads' = {Unread}
  /\ historyLoading' = TRUE
  /\ historyError' = FALSE
  /\ preview' = {}
  /\ UNCHANGED historyShown

\* refresh(): nothing to load while the budget is unknown.
Refresh ==
  IF budgetKnown THEN LoadHistory ELSE UNCHANGED <<historyVars, preview>>

\* The history is created with the first budget that arrives.
BudgetArrives ==
  /\ budgetLoads > 0
  /\ budgetLoads' = budgetLoads - 1
  /\ budgetKnown' = TRUE
  /\ loadError' = FALSE
  /\ IF budgetKnown THEN UNCHANGED <<historyVars, preview>> ELSE LoadHistory
  /\ UNCHANGED <<ledgerVars, window, view, operation, form, busy, late, started, dialogVars, heard>>

BudgetFails ==
  /\ budgetLoads > 0
  /\ budgetLoads' = budgetLoads - 1
  /\ loadError' = TRUE
  /\ UNCHANGED <<ledgerVars, window, budgetKnown, view>>
  /\ UNCHANGED <<historyVars, operationVars, dialogVars, heard>>

ReadHistory ==
  /\ Unread \in historyLoads
  /\ historyLoads' = (historyLoads \ {Unread}) \cup {writes}
  /\ UNCHANGED <<ledgerVars, windowVars, historyLoading, historyError, historyShown>>
  /\ UNCHANGED <<operationVars, dialogVars, heard>>

\* The cotisation may be missing from the rows: that is an error too.
HearHistory ==
  \E f \in historyLoads \ {Unread}, found \in BOOLEAN :
    /\ historyLoads' = historyLoads \ {f}
    /\ historyShown' = f
    /\ historyLoading' = FALSE
    /\ historyError' = ~found
    /\ UNCHANGED <<ledgerVars, windowVars, operationVars, dialogVars, heard>>

HistoryFails ==
  \E f \in historyLoads :
    /\ historyLoads' = historyLoads \ {f}
    /\ historyLoading' = FALSE
    /\ historyError' = TRUE
    /\ UNCHANGED <<ledgerVars, windowVars, historyShown, operationVars, dialogVars, heard>>

ReloadHistory ==
  /\ historyError /\ ~historyLoading /\ busy = {} /\ ~Covered /\ view = "situation"
  /\ LoadHistory
  /\ UNCHANGED <<ledgerVars, windowVars, operation, form, busy, late, started, dialogVars, heard>>

(***************************************************************************)
(* Operations of the history                                               *)
(***************************************************************************)
Usual == window = "open" /\ budgetKnown /\ view = "situation" /\ ~Covered /\ busy = {}

Start ==
  /\ Usual /\ form = {}
  /\ ~historyLoading /\ ~historyError
  /\ started < MaxOperations
  /\ \E v \in Values : form' = {v}
  /\ operation' = operation + 1 /\ started' = started + 1
  /\ preview' = {}
  /\ UNCHANGED <<ledgerVars, windowVars, historyVars, busy, late, dialogVars, heard>>

\* Mutant: what is edited leaves the preview on display.
EditKeeping ==
  /\ Usual /\ form # {}
  /\ \E v \in Values \ form : form' = {v}
  /\ UNCHANGED preview
  /\ UNCHANGED <<ledgerVars, windowVars, historyVars, operation, busy, late, started, dialogVars, heard>>

\* valueChanges
Edit ==
  /\ Usual /\ form # {}
  /\ \E v \in Values \ form : form' = {v}
  /\ preview' = {}
  /\ UNCHANGED <<ledgerVars, windowVars, historyVars, operation, busy, late, started, dialogVars, heard>>

Cancel ==
  /\ Usual /\ form # {}
  /\ form' = {}
  /\ preview' = {}
  /\ UNCHANGED <<ledgerVars, windowVars, historyVars, operation, busy, late, started, dialogVars, heard>>

\* Mutant: the operation is identified when it is sent.
ReviewRenamed ==
  /\ Usual /\ form # {} /\ preview = {}
  /\ operation' = operation + 1
  /\ busy' = {[what |-> "review", operation |-> operation', start |-> started, values |-> v, on |-> Unread] : v \in form}
  /\ UNCHANGED <<ledgerVars, windowVars, historyVars, form, preview, late, started, dialogVars, heard>>

Review ==
  /\ Usual /\ form # {} /\ preview = {}
  /\ busy' = {[what |-> "review", operation |-> operation, start |-> started, values |-> v, on |-> Unread] : v \in form}
  /\ UNCHANGED <<ledgerVars, windowVars, historyVars, operation, form, preview, late, started, dialogVars, heard>>

ServerPreviews ==
  \E r \in busy :
    /\ r.what = "review" /\ r.on = Unread
    /\ busy' = {[r EXCEPT !.on = writes]}
    /\ UNCHANGED <<ledgerVars, windowVars, historyVars, operation, form, preview, late, started, dialogVars, heard>>

HearPreview ==
  \E r \in busy :
    /\ r.what = "review" /\ r.on # Unread
    /\ busy' = {}
    /\ preview' = {[operation |-> r.operation, start |-> r.start, values |-> r.values, on |-> r.on]}
    /\ UNCHANGED <<ledgerVars, windowVars, historyVars, operation, form, late, started, dialogVars, heard>>

PreviewFails ==
  /\ \E r \in busy : r.what = "review"
  /\ busy' = {}
  /\ UNCHANGED <<ledgerVars, windowVars, historyVars, operation, form, preview, late, started, dialogVars, heard>>

Confirm ==
  /\ Usual /\ form # {}
  /\ \E p \in preview : busy' = {[what |-> "confirm", operation |-> p.operation, start |-> p.start, values |-> p.values, on |-> p.on]}
  /\ UNCHANGED <<ledgerVars, windowVars, historyVars, operation, form, preview, late, started, dialogVars, heard>>

\* Mutant: an operation that is known is recorded again.
AcceptsAgain(r) == r.on = writes

\* createFinancialEntry: only what was previewed on the ledger as it is, and once.
Accepts(r) == r.on = writes /\ \A e \in entries : e.operation # r.operation

Record(r) ==
  /\ writes < MaxWrites
  /\ Accepts(r)
  /\ writes' = writes + 1
  /\ entries' = entries \cup {[operation |-> r.operation, start |-> r.start, id |-> Cardinality(entries) + 1]}

\* The history reloads, and the window with it.
HearRecorded ==
  /\ \E r \in busy : r.what = "confirm" /\ Record(r)
  /\ busy' = {} /\ form' = {}
  /\ heard' = writes'
  /\ LoadHistory
  /\ UNCHANGED <<windowVars, operation, late, started, dialogVars>>

\* Refused or lost: the preview goes, the values stay, and the history is loaded for
\* the user to look whether the operation is in it.
HearNothing ==
  /\ \E r \in busy :
       /\ r.what = "confirm"
       /\ \/ Record(r) /\ UNCHANGED late
          \/ late' \in {late, late \cup {r}} /\ UNCHANGED ledgerVars
  /\ busy' = {}
  /\ LoadHistory
  /\ UNCHANGED <<windowVars, operation, form, started, dialogVars, heard>>

RecordLate ==
  \E r \in late :
    /\ Record(r)
    /\ late' = late \ {r}
    /\ UNCHANGED <<windowVars, historyVars, operation, form, preview, busy, started, dialogVars, heard>>

(***************************************************************************)
(* Payments                                                                *)
(***************************************************************************)
\* From the table of payments, or from the menu of the history.
OpenForm ==
  /\ window = "open" /\ budgetKnown /\ dialog = NoDialog
  /\ view = "payments" \/ (busy = {} /\ form = {} /\ ~historyLoading /\ ~historyError)
  /\ dialog' = "form"
  /\ UNCHANGED <<ledgerVars, windowVars, historyVars, operationVars, deletions, heard>>

CancelForm ==
  /\ dialog = "form"
  /\ dialog' = NoDialog
  /\ UNCHANGED <<ledgerVars, windowVars, historyVars, operationVars, deletions, heard>>

SubmitForm ==
  /\ dialog = "form"
  /\ dialog' = "saving"
  /\ UNCHANGED <<ledgerVars, windowVars, historyVars, operationVars, deletions, heard>>

\* A payment has no number of its own before the server gives it one: a form whose answer
\* is lost can be sent again.
HearPayment ==
  /\ dialog = "saving"
  /\ \/ writes < MaxWrites /\ writes' = writes + 1 /\ dialog' \in {"closing", "form"}
     \/ dialog' = "form" /\ UNCHANGED writes
  /\ UNCHANGED <<entries, windowVars, historyVars, operationVars, deletions, heard>>

\* afterClosed
FormClosed ==
  /\ dialog = "closing"
  /\ dialog' = NoDialog
  /\ heard' = writes
  /\ Refresh
  /\ UNCHANGED <<ledgerVars, windowVars, operation, form, busy, late, started, deletions>>

AskToDelete ==
  /\ window = "open" /\ budgetKnown /\ dialog = NoDialog /\ view = "payments"
  /\ dialog' = "confirm"
  /\ UNCHANGED <<ledgerVars, windowVars, historyVars, operationVars, deletions, heard>>

Delete ==
  /\ dialog = "confirm"
  /\ dialog' = NoDialog
  /\ deletions' \in {deletions} \cup (IF deletions < MaxLoads THEN {deletions + 1} ELSE {})
  /\ UNCHANGED <<ledgerVars, windowVars, historyVars, operationVars, heard>>

HearDeletion ==
  /\ deletions > 0
  /\ deletions' = deletions - 1
  /\ writes < MaxWrites
  /\ writes' = writes + 1
  /\ heard' = writes'
  /\ Refresh
  /\ UNCHANGED <<entries, windowVars, operation, form, busy, late, started, dialog>>

DeletionFails ==
  /\ deletions > 0
  /\ deletions' = deletions - 1
  /\ writes' \in {writes} \cup (IF writes < MaxWrites THEN {writes + 1} ELSE {})
  /\ UNCHANGED <<entries, windowVars, historyVars, operationVars, dialog, heard>>

\* Another administrator, or a request nobody waits for.
OthersWrite ==
  /\ writes < MaxWrites
  /\ writes' = writes + 1
  /\ UNCHANGED <<entries, windowVars, historyVars, operationVars, dialogVars, heard>>

WindowStep ==
  \/ RetryBudget \/ SetView \/ BudgetArrives \/ BudgetFails
  \/ ReadHistory \/ HearHistory \/ HistoryFails \/ ReloadHistory
  \/ Start \/ Edit \/ Cancel \/ Review \/ ServerPreviews \/ HearPreview \/ PreviewFails
  \/ Confirm \/ HearRecorded \/ HearNothing \/ RecordLate
  \/ OpenForm \/ CancelForm \/ SubmitForm \/ HearPayment \/ FormClosed
  \/ AskToDelete \/ Delete \/ HearDeletion \/ DeletionFails \/ OthersWrite
==============================================================================
