--------------------------- MODULE BudgetPages_proofs ---------------------------
(***************************************************************************)
(* For any budgets, values, templates, sizes of files, names and numbers   *)
(* of writes: each page about budgets agrees with what it knows, and no    *)
(* step acts on something else than what is shown.  The page of a budget   *)
(* comes first, in three parts that are proved apart: the operations of    *)
(* the window of a cotisation, its history, and the reader of the page.    *)
(* Then come the lists, the templates, the editor of values and the        *)
(* dashboard, each with an invariant of its own, and last the pages        *)
(* together, of which one takes the steps.                                 *)
(***************************************************************************)
EXTENDS BudgetPages, SumTheorems

BusyRows == [what : {"review", "confirm"}, operation : Nat, start : Nat, values : Values, on : Int]
PreviewRows == [operation : Nat, start : Nat, values : Values, on : Int]

\* An operation has one name from its start to its entry, and what is shown is of the form.
OperationsNamed ==
  /\ operation \in Nat /\ started = operation
  /\ form \subseteq Values /\ \A v, w \in form : v = w
  /\ writes \in Nat
  /\ busy \subseteq BusyRows /\ late \subseteq BusyRows /\ preview \subseteq PreviewRows
  /\ \A r \in busy \cup late \cup preview : r.start = r.operation
  /\ \A r \in busy : r.what = "review" => form = {r.values} /\ r.operation = operation
  /\ \A p \in preview : form = {p.values} /\ p.operation = operation
  /\ \A e \in entries : e.start = e.operation
  /\ \A d, e \in entries : d.operation = e.operation => d = e

\* A load that will be shown is not older than what the window was told.
HistoryFollows ==
  /\ writes \in Nat /\ heard \in 0 .. writes /\ deletions \in Nat
  /\ \A f \in historyLoads : f = Unread \/ (f \in Nat /\ f >= heard)
  /\ ~historyLoading /\ ~historyError => historyShown \in Nat /\ historyShown >= heard
  /\ window = "closed" => dialog = NoDialog /\ deletions = 0
  /\ dialog # NoDialog \/ deletions # 0 => budgetKnown

\* One load is in flight while the page waits, and it asks what the route says.
ReaderFollows ==
  /\ route \in Budgets /\ round \in 0 .. 1
  /\ budgetLoading \in BOOLEAN /\ budgetError \in BOOLEAN
  /\ \A f, g \in flights : f = g
  /\ \A f \in flights : f.asks = Asked
  /\ flights # {} <=> budgetLoading
  /\ ~budgetLoading /\ ~budgetError => budget.asks = Asked

IInv == OperationsNamed /\ HistoryFollows /\ ReaderFollows /\ ScopeFollowsRoute

------------------------------------------------------------------------------
(* The window of a cotisation *)

\* What the page does with the window.
LEMMA WindowSteps ==
  ASSUME [Next]_vars
  PROVE  \/ OpenWindow \/ CloseWindow \/ WindowStep \/ UNCHANGED cotisationVars
<1>1. CASE OnBudget
  <2> USE DEF vars, budgetPageVars
  <2>1. CASE Navigate
    BY <2>1 DEF Navigate
  <2>2. CASE InWindow \/ OpenCotisation \/ CloseCotisation \/ BackFromCotisation
    BY <2>2 DEF InWindow, OpenCotisation, CloseCotisation, Close, BackFromCotisation
  <2>3. CASE \/ WindowFocus \/ ServerReadsBudget \/ HearBudget \/ BudgetUnavailable \/ FilterCoverage
             \/ EditExpense \/ SubmitExpense \/ CancelExpense \/ HearExpense \/ ExpenseClosed
             \/ AskToDeleteExpense \/ AcceptDeletion \/ DeclineDeletion \/ DeletionClosed
             \/ HearExpenseDeletion \/ OthersPublish
    BY <2>3
    DEF WindowFocus, ServerReadsBudget, HearBudget, BudgetUnavailable, FilterCoverage,
        EditExpense, SubmitExpense, CancelExpense, HearExpense, ExpenseClosed, ExpenseStep,
        AskToDeleteExpense, AcceptDeletion, DeclineDeletion, DeletionClosed,
        HearExpenseDeletion, OthersPublish
  <2> QED
    BY <1>1, <2>1, <2>2, <2>3 DEF OnBudget, BudgetPageNext
<1>2. CASE ~OnBudget
  BY <1>2 DEF Next, OnTemplates, OnValues, OnDashboard, OnLists, vars, budgetPageVars
<1> QED
  BY <1>1, <1>2

\* A step that leaves the operation alone, or drops its preview.
LEMMA OperationIdle ==
  ASSUME OperationsNamed, UNCHANGED <<operation, started, form, busy, late, entries>>,
         preview' \subseteq preview, writes' \in Nat
  PROVE  OperationsNamed'
  BY DEF OperationsNamed

LEMMA HistoryStepsKeepOperations ==
  ASSUME OperationsNamed,
         \/ RetryBudget \/ SetView \/ BudgetArrives \/ BudgetFails
         \/ ReadHistory \/ HearHistory \/ HistoryFails \/ ReloadHistory
         \/ UNCHANGED cotisationVars
  PROVE  OperationsNamed'
<1> USE DEF cotisationVars, ledgerVars, windowVars, historyVars, operationVars, dialogVars
<1>1. /\ UNCHANGED <<operation, started, form, busy, late, entries, writes>>
      /\ preview' = preview \/ preview' = {}
  BY DEF RetryBudget, SetView, BudgetArrives, BudgetFails, ReadHistory, HearHistory, HistoryFails,
         ReloadHistory, LoadHistory
<1> QED
  BY <1>1, OperationIdle DEF OperationsNamed

LEMMA PaymentStepsKeepOperations ==
  ASSUME OperationsNamed,
         \/ OpenForm \/ CancelForm \/ SubmitForm \/ HearPayment \/ FormClosed
         \/ AskToDelete \/ Delete \/ HearDeletion \/ DeletionFails \/ OthersWrite
  PROVE  OperationsNamed'
<1> USE DEF cotisationVars, ledgerVars, windowVars, historyVars, operationVars, dialogVars
<1>1. UNCHANGED <<operation, started, form, busy, late, entries>>
  BY DEF OpenForm, CancelForm, SubmitForm, HearPayment, FormClosed, AskToDelete, Delete, HearDeletion,
         DeletionFails, OthersWrite
<1>2. preview' = preview \/ preview' = {}
  BY DEF OpenForm, CancelForm, SubmitForm, HearPayment, FormClosed, AskToDelete, Delete, HearDeletion,
         DeletionFails, OthersWrite, Refresh, LoadHistory
<1>3. writes' \in {writes, writes + 1}
  BY DEF OpenForm, CancelForm, SubmitForm, HearPayment, FormClosed, AskToDelete, Delete, HearDeletion,
         DeletionFails, OthersWrite
<1> QED
  BY <1>1, <1>2, <1>3, OperationIdle DEF OperationsNamed

LEMMA FormStepsKeepOperations ==
  ASSUME OperationsNamed, OpenWindow \/ CloseWindow \/ Start \/ Edit \/ Cancel \/ PreviewFails
  PROVE  OperationsNamed'
<1> USE DEF cotisationVars, ledgerVars, windowVars, historyVars, operationVars, dialogVars
<1>1. CASE OpenWindow
  BY <1>1 DEF OpenWindow, OperationsNamed
<1>2. CASE CloseWindow
  BY <1>2 DEF CloseWindow, OperationsNamed
<1>3. CASE Start
  BY <1>3 DEF Start, Usual, OperationsNamed
<1>4. CASE Edit
  BY <1>4 DEF Edit, Usual, OperationsNamed
<1>5. CASE Cancel
  BY <1>5 DEF Cancel, Usual, OperationsNamed
<1>6. CASE PreviewFails
  BY <1>6 DEF PreviewFails, OperationsNamed
<1> QED
  BY <1>1, <1>2, <1>3, <1>4, <1>5, <1>6

\* A request is made of what the form holds, and its answer is shown while the form holds it.
LEMMA RequestStepsKeepOperations ==
  ASSUME OperationsNamed, Review \/ ServerPreviews \/ HearPreview \/ Confirm
  PROVE  OperationsNamed'
<1> USE DEF ledgerVars, windowVars, historyVars, operationVars, dialogVars
<1>1. CASE Review
  <2>1. PICK v \in Values : form = {v}
    BY <1>1 DEF Review, OperationsNamed
  <2>2. busy' = {[what |-> "review", operation |-> operation, start |-> started, values |-> v, on |-> Unread]}
    BY <1>1, <2>1 DEF Review
  <2>3. [what |-> "review", operation |-> operation, start |-> started, values |-> v, on |-> Unread] \in BusyRows
    BY DEF BusyRows, OperationsNamed, Unread
  <2>4. UNCHANGED <<entries, writes, operation, started, form, preview, late>>
    BY <1>1 DEF Review
  <2> QED
    BY <2>1, <2>2, <2>3, <2>4 DEF OperationsNamed
<1>2. CASE ServerPreviews
  <2>1. PICK r \in busy : r.what = "review" /\ busy' = {[r EXCEPT !.on = writes]}
    BY <1>2 DEF ServerPreviews
  <2>2. r \in BusyRows
    BY DEF OperationsNamed
  <2>3. [r EXCEPT !.on = writes] \in BusyRows
    BY <2>2 DEF BusyRows, OperationsNamed
  <2>4. PICK q \in BusyRows : /\ busy' = {q} /\ q.what = "review" /\ q.operation = r.operation
                              /\ q.start = r.start /\ q.values = r.values
    BY <2>1, <2>2, <2>3 DEF BusyRows
  <2>5. UNCHANGED <<entries, writes, operation, started, form, preview, late>>
    BY <1>2 DEF ServerPreviews
  <2> QED
    BY <2>1, <2>4, <2>5 DEF OperationsNamed
<1>3. CASE HearPreview
  <2>1. PICK r \in busy :
          /\ r.what = "review" /\ busy' = {}
          /\ preview' = {[operation |-> r.operation, start |-> r.start, values |-> r.values, on |-> r.on]}
    BY <1>3 DEF HearPreview
  <2>2. PICK q \in PreviewRows : /\ preview' = {q} /\ q.operation = r.operation
                                 /\ q.start = r.start /\ q.values = r.values
    BY <2>1, ZenonT(60) DEF BusyRows, PreviewRows, OperationsNamed
  <2>3. UNCHANGED <<entries, writes, operation, started, form, late>>
    BY <1>3 DEF HearPreview
  <2> QED
    BY <2>1, <2>2, <2>3 DEF OperationsNamed
<1>4. CASE Confirm
  <2>1. PICK p \in preview :
          busy' = {[what |-> "confirm", operation |-> p.operation, start |-> p.start, values |-> p.values, on |-> p.on]}
    BY <1>4 DEF Confirm
  <2>2. PICK q \in BusyRows : busy' = {q} /\ q.what = "confirm" /\ q.operation = p.operation /\ q.start = p.start
    BY <2>1, ZenonT(60) DEF BusyRows, PreviewRows, OperationsNamed
  <2>3. UNCHANGED <<entries, writes, operation, started, form, preview, late>>
    BY <1>4 DEF Confirm
  <2> QED
    BY <2>1, <2>2, <2>3 DEF OperationsNamed
<1> QED
  BY <1>1, <1>2, <1>3, <1>4

\* The server records an operation it does not know.
LEMMA RecordedOnce ==
  ASSUME OperationsNamed, NEW r \in busy \cup late, Record(r)
  PROVE  /\ writes' \in Nat
         /\ \A e \in entries' : e.start = e.operation
         /\ \A d, e \in entries' : d.operation = e.operation => d = e
<1> PICK x : x = [operation |-> r.operation, start |-> r.start, id |-> Cardinality(entries) + 1]
  OBVIOUS
<1>1. entries' = entries \cup {x} /\ x.operation = r.operation /\ x.start = r.start /\ writes' = writes + 1
  BY DEF Record
<1>2. r.start = r.operation /\ \A e \in entries : e.operation # r.operation
  BY DEF OperationsNamed, Record, Accepts
<1> QED
  BY <1>1, <1>2 DEF OperationsNamed

LEMMA RecordStepsKeepOperations ==
  ASSUME OperationsNamed, HearRecorded \/ HearNothing \/ RecordLate
  PROVE  OperationsNamed'
<1> USE DEF ledgerVars, windowVars, historyVars, operationVars, dialogVars
<1>1. CASE HearRecorded
  <2>1. PICK r \in busy : Record(r)
    BY <1>1 DEF HearRecorded
  <2>2. /\ writes' \in Nat
        /\ \A e \in entries' : e.start = e.operation
        /\ \A d, e \in entries' : d.operation = e.operation => d = e
    BY <2>1, RecordedOnce
  <2>3. busy' = {} /\ form' = {} /\ preview' = {} /\ UNCHANGED <<operation, late, started>>
    BY <1>1 DEF HearRecorded, LoadHistory
  <2> QED
    BY <2>2, <2>3 DEF OperationsNamed
<1>2. CASE HearNothing
  <2>1. busy' = {} /\ preview' = {} /\ UNCHANGED <<operation, form, started>>
    BY <1>2 DEF HearNothing, LoadHistory
  <2>2. PICK r \in busy : \/ Record(r) /\ UNCHANGED late
                          \/ late' \in {late, late \cup {r}} /\ UNCHANGED ledgerVars
    BY <1>2 DEF HearNothing
  <2>3. late' \subseteq late \cup busy
    BY <2>2
  <2>4. /\ writes' \in Nat
        /\ \A e \in entries' : e.start = e.operation
        /\ \A d, e \in entries' : d.operation = e.operation => d = e
    BY <2>2, RecordedOnce DEF OperationsNamed
  <2> QED
    BY <2>1, <2>3, <2>4 DEF OperationsNamed
<1>3. CASE RecordLate
  <2>1. PICK r \in late : Record(r) /\ late' = late \ {r}
    BY <1>3 DEF RecordLate
  <2>2. /\ writes' \in Nat
        /\ \A e \in entries' : e.start = e.operation
        /\ \A d, e \in entries' : d.operation = e.operation => d = e
    BY <2>1, RecordedOnce
  <2>3. UNCHANGED <<operation, form, preview, busy, started>>
    BY <1>3 DEF RecordLate
  <2> QED
    BY <2>1, <2>2, <2>3 DEF OperationsNamed
<1> QED
  BY <1>1, <1>2, <1>3

LEMMA StepKeepsOperations == ASSUME OperationsNamed, [Next]_vars PROVE OperationsNamed'
  BY WindowSteps, HistoryStepsKeepOperations, PaymentStepsKeepOperations, FormStepsKeepOperations,
     RequestStepsKeepOperations, RecordStepsKeepOperations
  DEF WindowStep

------------------------------------------------------------------------------
(* The history on display *)

\* The window may begin to load again at any time, and then knows of every write until then.
LEMMA LoadingKeepsHistory ==
  ASSUME HistoryFollows, LoadHistory, writes' \in {writes, writes + 1}, heard' \in {heard, writes'},
         deletions' \in Nat, window' = window, budgetKnown => budgetKnown',
         dialog' # NoDialog => dialog # NoDialog, deletions' # 0 => deletions # 0
  PROVE  HistoryFollows'
  BY DEF HistoryFollows, LoadHistory

\* Writes of others do not make what is shown older than what the window was told.
LEMMA HistoryIdle ==
  ASSUME HistoryFollows, UNCHANGED <<heard, deletions, historyLoads, historyLoading, historyError, historyShown>>,
         writes' \in {writes, writes + 1},
         window' = window, dialog' = dialog, budgetKnown' = budgetKnown
  PROVE  HistoryFollows'
  BY DEF HistoryFollows

LEMMA OperationStepsKeepHistory ==
  ASSUME HistoryFollows,
         \/ RetryBudget \/ SetView \/ BudgetFails
         \/ Start \/ Edit \/ Cancel \/ Review \/ ServerPreviews \/ HearPreview \/ PreviewFails \/ Confirm
         \/ RecordLate \/ OthersWrite \/ UNCHANGED cotisationVars
  PROVE  HistoryFollows'
<1> USE DEF cotisationVars, ledgerVars, windowVars, historyVars, operationVars, dialogVars
<1>1. /\ UNCHANGED <<heard, deletions, historyLoads, historyLoading, historyError, historyShown, window, dialog, budgetKnown>>
      /\ writes' \in {writes, writes + 1}
  BY DEF RetryBudget, SetView, BudgetFails, Start, Edit, Cancel, Review, ServerPreviews, HearPreview,
         PreviewFails, Confirm, RecordLate, Record, OthersWrite
<1> QED
  BY <1>1, HistoryIdle

LEMMA LoadStepsKeepHistory ==
  ASSUME HistoryFollows,
         \/ BudgetArrives \/ ReadHistory \/ HearHistory \/ HistoryFails \/ ReloadHistory
         \/ HearRecorded \/ HearNothing
  PROVE  HistoryFollows'
<1> USE DEF cotisationVars, ledgerVars, windowVars, historyVars, operationVars, dialogVars
<1>1. CASE BudgetArrives
  <2>1. /\ UNCHANGED <<writes, heard, window, dialog, deletions>> /\ budgetKnown'
        /\ (budgetKnown /\ UNCHANGED historyVars) \/ LoadHistory
    BY <1>1 DEF BudgetArrives
  <2> QED
    BY <2>1 DEF HistoryFollows, LoadHistory
<1>2. CASE ReadHistory
  BY <1>2 DEF ReadHistory, HistoryFollows
<1>3. CASE HearHistory
  <2>1. PICK f \in historyLoads \ {Unread}, found \in BOOLEAN :
          historyLoads' = historyLoads \ {f} /\ historyShown' = f
    BY <1>3 DEF HearHistory
  <2>2. UNCHANGED <<writes, heard, window, dialog, deletions, budgetKnown>>
    BY <1>3 DEF HearHistory
  <2> QED
    BY <2>1, <2>2 DEF HistoryFollows
<1>4. CASE HistoryFails
  BY <1>4 DEF HistoryFails, HistoryFollows
<1>5. CASE ReloadHistory
  BY <1>5, LoadingKeepsHistory DEF ReloadHistory, HistoryFollows
<1>6. CASE HearRecorded \/ HearNothing
  <2>1. /\ LoadHistory /\ writes' \in {writes, writes + 1} /\ heard' \in {heard, writes'}
        /\ UNCHANGED <<window, budgetKnown, dialog, deletions>>
    BY <1>6 DEF HearRecorded, HearNothing, Record
  <2> QED
    BY <2>1, LoadingKeepsHistory DEF HistoryFollows
<1> QED
  BY <1>1, <1>2, <1>3, <1>4, <1>5, <1>6

LEMMA PaymentStepsKeepHistory ==
  ASSUME HistoryFollows,
         \/ OpenForm \/ CancelForm \/ SubmitForm \/ HearPayment \/ FormClosed
         \/ AskToDelete \/ Delete \/ HearDeletion \/ DeletionFails
  PROVE  HistoryFollows'
<1> USE DEF cotisationVars, ledgerVars, windowVars, historyVars, operationVars, dialogVars, NoDialog
<1>1. CASE OpenForm \/ AskToDelete
  BY <1>1 DEF OpenForm, AskToDelete, HistoryFollows
<1>2. CASE CancelForm \/ SubmitForm
  BY <1>2 DEF CancelForm, SubmitForm, HistoryFollows
<1>3. CASE HearPayment
  <2>1. writes' \in {writes, writes + 1} /\ dialog = "saving"
    BY <1>3 DEF HearPayment
  <2>2. UNCHANGED <<heard, deletions, historyLoads, historyLoading, historyError, historyShown, window, budgetKnown>>
    BY <1>3 DEF HearPayment
  <2> QED
    BY <2>1, <2>2 DEF HistoryFollows
<1>4. CASE FormClosed
  <2>1. budgetKnown
    BY <1>4 DEF FormClosed, HistoryFollows
  <2>2. LoadHistory /\ dialog' = NoDialog /\ heard' = writes /\ UNCHANGED <<writes, window, budgetKnown, deletions>>
    BY <1>4, <2>1 DEF FormClosed, Refresh
  <2> QED
    BY <2>2, LoadingKeepsHistory DEF HistoryFollows
<1>5. CASE Delete
  <2>1. /\ dialog = "confirm" /\ dialog' = "none" /\ deletions' \in {deletions, deletions + 1}
        /\ UNCHANGED <<writes, window, budgetKnown, heard, historyLoads, historyLoading, historyError, historyShown>>
    BY <1>5 DEF Delete
  <2> QED
    BY <2>1 DEF HistoryFollows
<1>6. CASE HearDeletion
  <2>1. deletions > 0 /\ budgetKnown
    BY <1>6 DEF HearDeletion, HistoryFollows
  <2>2. /\ LoadHistory /\ deletions' = deletions - 1 /\ writes' = writes + 1 /\ heard' = writes'
        /\ UNCHANGED <<window, budgetKnown, dialog>>
    BY <1>6, <2>1 DEF HearDeletion, Refresh
  <2>3. deletions' \in Nat
    BY <2>1, <2>2 DEF HistoryFollows
  <2> QED
    BY <2>1, <2>2, <2>3, LoadingKeepsHistory
<1>7. CASE DeletionFails
  <2>1. /\ deletions > 0 /\ deletions' = deletions - 1 /\ writes' \in {writes, writes + 1}
        /\ UNCHANGED <<window, budgetKnown, dialog, heard, historyLoads, historyLoading, historyError, historyShown>>
    BY <1>7 DEF DeletionFails
  <2> QED
    BY <2>1 DEF HistoryFollows
<1> QED
  BY <1>1, <1>2, <1>3, <1>4, <1>5, <1>6, <1>7

LEMMA WindowOpensAndCloses ==
  ASSUME HistoryFollows, OpenWindow \/ CloseWindow
  PROVE  HistoryFollows'
<1> USE DEF ledgerVars, dialogVars
<1>1. CASE OpenWindow
  BY <1>1 DEF OpenWindow, HistoryFollows
<1>2. CASE CloseWindow
  BY <1>2 DEF CloseWindow, HistoryFollows
<1> QED
  BY <1>1, <1>2

LEMMA StepKeepsHistory == ASSUME HistoryFollows, [Next]_vars PROVE HistoryFollows'
  BY WindowSteps, OperationStepsKeepHistory, LoadStepsKeepHistory, PaymentStepsKeepHistory, WindowOpensAndCloses
  DEF WindowStep

------------------------------------------------------------------------------
(* The page *)

\* How the page moves between its loads.
LEMMA PageSteps ==
  ASSUME route \in Budgets, [Next]_vars
  PROVE  \/ route' \in Budgets /\ LoadBudget(route')
         \/ ServerReadsBudget \/ HearBudget \/ BudgetUnavailable \/ FilterCoverage
         \/ UNCHANGED <<routeVars, budgetVars>>
<1> USE DEF vars, budgetPageVars, routeVars
<1>1. CASE OnBudget
  <2>1. CASE Navigate
    BY <2>1 DEF Navigate
  <2>2. CASE WindowFocus \/ ExpenseClosed \/ CloseCotisation \/ BackFromCotisation \/ HearExpenseDeletion
    <3>1. RefreshBudget \/ UNCHANGED <<routeVars, budgetVars>>
      BY <2>2 DEF WindowFocus, ExpenseClosed, CloseCotisation, BackFromCotisation, HearExpenseDeletion
    <3>2. RefreshBudget => route' = route /\ LoadBudget(route)
      BY DEF RefreshBudget
    <3>3. RefreshBudget => LoadBudget(route')
      BY <3>2 DEF LoadBudget
    <3> QED
      BY <3>1, <3>2, <3>3
  <2>3. CASE \/ EditExpense \/ SubmitExpense \/ CancelExpense \/ HearExpense
             \/ AskToDeleteExpense \/ AcceptDeletion \/ DeclineDeletion \/ DeletionClosed
             \/ OthersPublish \/ OpenCotisation \/ InWindow
    BY <2>3
    DEF EditExpense, SubmitExpense, CancelExpense, HearExpense, ExpenseStep, AskToDeleteExpense,
        AcceptDeletion, DeclineDeletion, DeletionClosed, OthersPublish, OpenCotisation, InWindow
  <2> QED
    BY <1>1, <2>1, <2>2, <2>3 DEF OnBudget, BudgetPageNext
<1>2. CASE ~OnBudget
  BY <1>2 DEF Next, OnTemplates, OnValues, OnDashboard, OnLists
<1> QED
  BY <1>1, <1>2

LEMMA LoadKeepsReader ==
  ASSUME ReaderFollows, route' \in Budgets, LoadBudget(route')
  PROVE  ReaderFollows' /\ ScopeFollowsRoute'
<1>1. PICK n : n = (round + 1) % 2
  OBVIOUS
<1>2. n \in 0 .. 1
  BY <1>1 DEF ReaderFollows
<1>3. round' = n /\ budgetLoading' = TRUE /\ budgetError' = FALSE /\ scope' = Nothing
  BY <1>1 DEF LoadBudget
<1>4. flights' = {[asks |-> [budget |-> route', round |-> round'], draft |-> Nothing]}
  BY DEF LoadBudget
<1>5. Asked' = [budget |-> route', round |-> round']
  BY DEF Asked
<1>6. \A f \in flights' : f = [asks |-> [budget |-> route', round |-> round'], draft |-> Nothing]
  BY <1>4
<1>7. \A f \in flights' : f.asks = Asked'
  BY <1>5, <1>6
<1>8. ReaderFollows'
  BY <1>2, <1>3, <1>4, <1>6, <1>7 DEF ReaderFollows
<1> QED
  BY <1>3, <1>8 DEF ScopeFollowsRoute

LEMMA AnswerKeepsReader ==
  ASSUME ReaderFollows, ScopeFollowsRoute, ServerReadsBudget \/ HearBudget \/ BudgetUnavailable \/ FilterCoverage
  PROVE  ReaderFollows' /\ ScopeFollowsRoute'
<1> USE DEF routeVars
<1>1. CASE ServerReadsBudget
  <2>1. PICK f \in flights :
          /\ flights' = (flights \ {f}) \cup {[f EXCEPT !.draft = {f.asks.budget} \cap drafts]}
          /\ UNCHANGED <<routeVars, round, budgetLoading, budgetError, budget, scope>>
    BY <1>1 DEF ServerReadsBudget
  <2>2. f.asks = Asked /\ \A g \in flights : g = f
    BY DEF ReaderFollows
  <2>3. PICK h : flights' = {h} /\ h = [f EXCEPT !.draft = {f.asks.budget} \cap drafts]
    BY <2>1, <2>2
  <2>4. h.asks = f.asks
    BY <2>3
  <2> QED
    BY <2>1, <2>2, <2>3, <2>4 DEF ReaderFollows, ScopeFollowsRoute, Asked
<1>2. CASE HearBudget
  <2>1. PICK f \in flights :
          /\ flights' = flights \ {f} /\ budgetLoading' = FALSE
          /\ budget' = [asks |-> f.asks, draft |-> f.draft # {}]
          /\ scope' = IF f.draft = {} THEN coverage ELSE Nothing
          /\ UNCHANGED <<routeVars, round, budgetError>>
    BY <1>2 DEF HearBudget
  <2>2. f.asks = Asked /\ flights' = {} /\ budget'.asks = Asked
    BY <2>1 DEF ReaderFollows
  <2> QED
    BY <2>1, <2>2 DEF ReaderFollows, ScopeFollowsRoute, Asked
<1>3. CASE BudgetUnavailable
  <2>1. PICK f \in flights :
          /\ flights' = flights \ {f} /\ budgetLoading' = FALSE /\ budgetError' = TRUE
          /\ UNCHANGED <<routeVars, round, budget, scope>>
    BY <1>3 DEF BudgetUnavailable
  <2>2. flights' = {}
    BY <2>1 DEF ReaderFollows
  <2> QED
    BY <2>1, <2>2 DEF ReaderFollows, ScopeFollowsRoute, Asked
<1>4. CASE FilterCoverage
  BY <1>4 DEF FilterCoverage, ReaderFollows, ScopeFollowsRoute, Asked
<1> QED
  BY <1>1, <1>2, <1>3, <1>4

LEMMA StepKeepsReader ==
  ASSUME ReaderFollows, ScopeFollowsRoute, [Next]_vars
  PROVE  ReaderFollows' /\ ScopeFollowsRoute'
<1>1. CASE UNCHANGED <<routeVars, budgetVars>>
  BY <1>1 DEF routeVars, budgetVars, ReaderFollows, ScopeFollowsRoute, Asked
<1> QED
  BY <1>1, PageSteps, LoadKeepsReader, AnswerKeepsReader DEF ReaderFollows

------------------------------------------------------------------------------
(* Theorems *)

LEMMA InitInvariant == Init => IInv
<1> SUFFICES ASSUME Init PROVE IInv
  OBVIOUS
<1>1. CotisationInit /\ BudgetPageInit
  BY DEF Init, BudgetPageInit
<1>2. OperationsNamed
  BY <1>1 DEF CotisationInit, OperationsNamed
<1>3. HistoryFollows
  BY <1>1 DEF CotisationInit, HistoryFollows, NoDialog
<1>4. ReaderFollows /\ ScopeFollowsRoute
  <2>1. flights = {[asks |-> Asked, draft |-> Nothing]} /\ budgetLoading = TRUE /\ scope = Nothing
    BY <1>1 DEF BudgetPageInit
  <2>2. \A f \in flights : f = [asks |-> Asked, draft |-> Nothing]
    BY <2>1
  <2>3. route \in Budgets /\ round = 0 /\ budgetError = FALSE
    BY <1>1 DEF BudgetPageInit
  <2>4. \A f \in flights : f.asks = Asked
    BY <2>2
  <2> HIDE DEF Asked
  <2>5. (\A f, g \in flights : f = g) /\ flights # {}
    BY <2>1, <2>2
  <2>6. round \in 0 .. 1
    BY <2>3
  <2>7. ReaderFollows
    BY <2>1, <2>3, <2>4, <2>5, <2>6, Zenon DEF ReaderFollows
  <2> QED
    BY <2>1, <2>7 DEF ScopeFollowsRoute
<1> QED
  BY <1>2, <1>3, <1>4 DEF IInv

LEMMA StepInvariant == ASSUME IInv, [Next]_vars PROVE IInv'
  BY StepKeepsOperations, StepKeepsHistory, StepKeepsReader DEF IInv

THEOREM PageInvariant == Spec => []IInv
  BY InitInvariant, StepInvariant, PTL DEF Spec

\* What is begun in the window of a cotisation is recorded once at the most, for any number of
\* operations, lost answers and late confirmations (operationId, financial-history.component.ts).
THEOREM RecordedOnceAtMost == Spec => []OneEntryPerOperation
<1>1. IInv => OneEntryPerOperation
  BY DEF IInv, OperationsNamed, OneEntryPerOperation
<1> QED
  BY <1>1, PageInvariant, PTL

\* The page agrees with the writes it was told of and with its address.
THEOREM PageStaysCoherent == Spec => []PageIsCoherent
<1>1. IInv => PageIsCoherent
  BY DEF IInv, HistoryFollows, PageIsCoherent, HistoryIsFresh
<1> QED
  BY <1>1, PageInvariant, PTL

------------------------------------------------------------------------------
Shown == IF budgetLoading THEN [reader |-> "waits"]
           ELSE IF budgetError THEN [reader |-> "is told"] ELSE budget.asks

LEMMA ReaderInit == Init => Reader!Init
<1> SUFFICES ASSUME Init PROVE Reader!Init
  OBVIOUS
<1>1. route \in Budgets /\ round = 0 /\ budgetLoading = TRUE
  BY DEF Init, BudgetPageInit
<1>2. Asked \in [budget : Budgets, round : 0 .. 1]
  BY <1>1 DEF Asked
<1> QED
  BY <1>1, <1>2 DEF Reader!Init

LEMMA ReaderStep ==
  ASSUME IInv, [Next]_vars
  PROVE  Reader!Next \/ UNCHANGED <<Asked, Shown>>
<1>1. ReaderFollows /\ ReaderFollows'
  BY StepInvariant DEF IInv
<1>2. CASE LoadBudget(route')
  <2>1. Asked' \in [budget : Budgets, round : 0 .. 1]
    BY <1>1 DEF ReaderFollows, Asked
  <2>2. budgetLoading'
    BY <1>2 DEF LoadBudget
  <2> QED
    BY <2>1, <2>2 DEF Reader!Next, Reader!Ask
<1>3. CASE ServerReadsBudget \/ FilterCoverage \/ UNCHANGED <<routeVars, budgetVars>>
  <2>1. UNCHANGED <<route, round, budgetLoading, budgetError, budget>>
    BY <1>3 DEF ServerReadsBudget, FilterCoverage, routeVars, budgetVars
  <2> QED
    BY <2>1 DEF Asked, Shown
<1>4. CASE HearBudget
  <2>1. budgetLoading /\ ~budgetLoading' /\ Asked' = Asked /\ budgetError' = budgetError
    BY <1>1, <1>4 DEF HearBudget, ReaderFollows, routeVars, Asked
  <2>2. CASE budgetError
    BY <1>1, <2>1, <2>2 DEF Reader!Next, Reader!Fail
  <2>3. CASE ~budgetError
    <3>1. budget'.asks = Asked'
      BY <1>1, <2>1, <2>3 DEF ReaderFollows
    <3> QED
      BY <2>1, <2>3, <3>1 DEF Reader!Next, Reader!Answer
  <2> QED
    BY <2>2, <2>3
<1>5. CASE BudgetUnavailable
  <2>1. budgetLoading /\ ~budgetLoading' /\ Asked' = Asked /\ budgetError'
    BY <1>1, <1>5 DEF BudgetUnavailable, ReaderFollows, routeVars, Asked
  <2> QED
    BY <2>1 DEF Reader!Next, Reader!Fail
<1> QED
  BY <1>1, <1>2, <1>3, <1>4, <1>5, PageSteps DEF ReaderFollows

\* "Aucune donnée de l'ancien contexte ne remplace la nouvelle" (docs/fiche-validation.md:416):
\* whatever the order of answers and of moves of the route, the page implements LatestAnswer.
THEOREM PageAnswersLatest == Spec => ImplementsLatestAnswer
<1>1. ASSUME IInv, [Next]_vars PROVE [Reader!Next]_<<Asked, Shown>>
  BY <1>1, ReaderStep
<1>2. Shown = IF budgetLoading THEN [reader |-> "waits"]
           ELSE IF budgetError THEN [reader |-> "is told"] ELSE budget.asks
  BY DEF Shown
<1> QED
  BY <1>1, ReaderInit, PageInvariant, PTL DEF Spec, ImplementsLatestAnswer, Reader!Spec, Shown

------------------------------------------------------------------------------
\* A confirmation leaves with what is previewed.
LEMMA StepConfirms == ASSUME IInv, [Next]_vars PROVE ConfirmedAsPreviewed
<1> USE DEF cotisationVars, ledgerVars, windowVars, historyVars, operationVars, dialogVars
<1>1. CASE OpenWindow \/ CloseWindow \/ UNCHANGED cotisationVars
  BY <1>1 DEF OpenWindow, CloseWindow, ConfirmedAsPreviewed
<1>2. CASE Confirm
  <2>1. PICK p \in preview :
          busy' = {[what |-> "confirm", operation |-> p.operation, start |-> p.start, values |-> p.values, on |-> p.on]}
    BY <1>2 DEF Confirm
  <2>2. form = {p.values} /\ p.operation = operation /\ p \in PreviewRows
    BY DEF IInv, OperationsNamed
  <2>3. p = [operation |-> p.operation, start |-> p.start, values |-> p.values, on |-> p.on]
    BY <2>2 DEF PreviewRows
  <2>4. \A r \in busy' : /\ r.operation = p.operation /\ r.start = p.start
                        /\ r.values = p.values /\ r.on = p.on
    BY <2>1
  <2> QED
    BY <2>2, <2>3, <2>4 DEF ConfirmedAsPreviewed
<1>3. CASE Review
  <2>1. \A r \in busy' : r.what = "review"
    BY <1>3 DEF Review
  <2> QED
    BY <2>1 DEF ConfirmedAsPreviewed
<1>4. CASE \/ Start \/ Edit \/ Cancel \/ PreviewFails \/ HearPreview \/ ServerPreviews
           \/ HearRecorded \/ HearNothing \/ RecordLate
  <2>1. busy' = {} \/ busy' = busy \/ busy # {}
    BY <1>4 DEF Start, Edit, Cancel, PreviewFails, HearPreview, ServerPreviews, HearRecorded,
                HearNothing, RecordLate
  <2> QED
    BY <2>1 DEF ConfirmedAsPreviewed
<1>5. CASE \/ RetryBudget \/ SetView \/ BudgetArrives \/ BudgetFails
           \/ ReadHistory \/ HearHistory \/ HistoryFails \/ ReloadHistory
           \/ OpenForm \/ CancelForm \/ SubmitForm \/ HearPayment \/ FormClosed
           \/ AskToDelete \/ Delete \/ HearDeletion \/ DeletionFails \/ OthersWrite
  <2>1. busy' = busy
    BY <1>5 DEF RetryBudget, SetView, BudgetArrives, BudgetFails, ReadHistory, HearHistory,
                HistoryFails, ReloadHistory, OpenForm, CancelForm, SubmitForm, HearPayment,
                FormClosed, AskToDelete, Delete, HearDeletion, DeletionFails, OthersWrite
  <2> QED
    BY <2>1 DEF ConfirmedAsPreviewed
<1> QED
  BY <1>1, <1>2, <1>3, <1>4, <1>5, WindowSteps DEF WindowStep

\* A deletion leaves when its dialog closes over the draft it was asked for.
LEMMA StepDeletes == ASSUME [Next]_vars PROVE DeletedAsDisplayed
<1> USE DEF vars, budgetPageVars, expenseVars
<1>1. CASE DeletionClosed
  <2>1. \A b \in expenseDeletions' \ expenseDeletions : StillDraft /\ b = expense.of
    BY <1>1 DEF DeletionClosed
  <2> QED
    BY <2>1 DEF StillDraft, DraftShown, DeletedAsDisplayed
<1>2. CASE OnBudget /\ ~DeletionClosed
  <2>1. expenseDeletions' \subseteq expenseDeletions
    BY <1>2
    DEF OnBudget, BudgetPageNext, WindowFocus, Navigate, ServerReadsBudget, HearBudget,
        BudgetUnavailable, FilterCoverage, EditExpense, SubmitExpense, CancelExpense, HearExpense,
        ExpenseClosed, ExpenseStep, AskToDeleteExpense, AcceptDeletion, DeclineDeletion,
        HearExpenseDeletion, OthersPublish, OpenCotisation, CloseCotisation, BackFromCotisation, InWindow
  <2> QED
    BY <2>1 DEF DeletedAsDisplayed
<1>3. CASE ~OnBudget
  <2>1. expenseDeletions' = expenseDeletions
    BY <1>3 DEF Next, OnTemplates, OnValues, OnDashboard, OnLists
  <2> QED
    BY <2>1 DEF DeletedAsDisplayed
<1> QED
  BY <1>1, <1>2, <1>3

------------------------------------------------------------------------------
(* The lists of budgets and units *)

RowStates == {"none", "draft", "published"}
RowForms == [row : TableRows \cup {AbsentRow}, sending : 0 .. 1, closing : BOOLEAN]
Listings == SUBSET [rows : [TableRows -> RowStates], stamp : Nat]

\* A load that began alone will bring every write the page was told of.
ListFollows ==
  /\ tableLoads \in Seq(Listings)
  /\ stored \in [TableRows -> RowStates]
  /\ writesMade \in Nat /\ announced \in 0 .. writesMade
  /\ ~overlapped => /\ Len(tableLoads) <= 1
                    /\ \A i \in DOMAIN tableLoads : \A s \in tableLoads[i] : s.stamp >= announced
  /\ TableFollowsWrites

\* A form that made a row closes, unless its answer was lost.
FormMakesOne ==
  /\ createdRows \in Nat /\ unheardRow \in BOOLEAN
  /\ rowForm \subseteq RowForms
  /\ \A f \in rowForm : f.closing => f.sending = 0
  /\ \A f, g \in rowForm : f = g
  /\ unheardRow \/ createdRows <= 1
  /\ unheardRow \/ createdRows = 0 \/ \A f \in rowForm : f.closing

LEMMA Removed ==
  ASSUME NEW S, NEW s \in Seq(S), NEW i \in DOMAIN s
  PROVE  RemoveAt(s, i) \in Seq(S) /\ Len(RemoveAt(s, i)) = Len(s) - 1
BY DEF RemoveAt

\* The list begins to load, and then the page may be told of every write there was.
LEMMA LoadKeepsList ==
  ASSUME ListFollows, LoadTable, stored' \in [TableRows -> RowStates],
         writesMade' \in {writesMade, writesMade + 1}, announced' \in {announced, writesMade'}
  PROVE  ListFollows'
<1>1. tableLoads' = Append(tableLoads, {}) /\ overlapped' = (tableLoads # <<>>)
  BY DEF LoadTable
<1>2. tableLoads' \in Seq(Listings) /\ Len(tableLoads') > 0
  BY <1>1 DEF ListFollows, Listings
<1>3. ~overlapped' => tableLoads' = <<{}>>
  <2>1. ~overlapped' => tableLoads = <<>>
    BY <1>1
  <2>2. Append(<<>>, {}) = <<{}>>
    OBVIOUS
  <2> QED
    BY <1>1, <2>1, <2>2
<1>4. writesMade' \in Nat /\ announced' \in 0 .. writesMade'
  BY DEF ListFollows
<1>5. TableFollowsWrites'
  BY <1>2 DEF TableFollowsWrites
<1>6. ~overlapped' => /\ Len(tableLoads') <= 1
                      /\ \A i \in DOMAIN tableLoads' : \A s \in tableLoads'[i] : s.stamp >= announced'
  <2> SUFFICES ASSUME ~overlapped'
               PROVE  /\ Len(tableLoads') <= 1
                      /\ \A i \in DOMAIN tableLoads' : \A s \in tableLoads'[i] : s.stamp >= announced'
    OBVIOUS
  <2>1. tableLoads' = <<{}>>
    BY <1>3
  <2>2. Len(<<{}>>) = 1 /\ \A i \in DOMAIN <<{}>> : <<{}>>[i] = {}
    OBVIOUS
  <2> QED
    BY <2>1, <2>2
<1> QED
  BY <1>2, <1>4, <1>5, <1>6 DEF ListFollows

LEMMA ListIdle ==
  ASSUME ListFollows, UNCHANGED <<tableSourceVars, announced>>,
         stored' \in [TableRows -> RowStates],
         writesMade' \in {writesMade, writesMade + 1}
  PROVE  ListFollows'
BY DEF ListFollows, tableSourceVars, TableFollowsWrites

LEMMA WrittenRow ==
  ASSUME ListFollows, NEW r, NEW state \in RowStates, WriteRow(r, state)
  PROVE  /\ stored' \in [TableRows -> RowStates]
         /\ writesMade' \in {writesMade, writesMade + 1}
BY DEF WriteRow, ListFollows

LEMMA ReadKeepsList == ASSUME ListFollows, ServerListsRows PROVE ListFollows'
<1>1. PICK i \in DOMAIN tableLoads :
        /\ tableLoads[i] = {}
        /\ tableLoads' = [tableLoads EXCEPT ![i] = {[rows |-> stored, stamp |-> writesMade]}]
        /\ UNCHANGED <<tableServerVars, tableLoading, tableError, tableShown, overlapped, rowVars, announced>>
  BY DEF ServerListsRows
<1> PICK x : x = [rows |-> stored, stamp |-> writesMade]
  OBVIOUS
<1>2. x \in [rows : [TableRows -> RowStates], stamp : Nat] /\ x.stamp = writesMade
  BY DEF ListFollows
<1>3. tableLoads' = [tableLoads EXCEPT ![i] = {x}]
  BY <1>1
<1>4. /\ tableLoads' \in Seq(Listings)
      /\ Len(tableLoads') = Len(tableLoads) /\ DOMAIN tableLoads' = DOMAIN tableLoads /\ tableLoads' # <<>>
  BY <1>2, <1>3 DEF ListFollows, Listings
<1>5. \A j \in DOMAIN tableLoads' : tableLoads'[j] = {x} \/ tableLoads'[j] = tableLoads[j]
  BY <1>3, <1>4
<1>6. writesMade >= announced
  BY DEF ListFollows
<1>7. ~overlapped' => /\ Len(tableLoads') <= 1
                      /\ \A j \in DOMAIN tableLoads' : \A s \in tableLoads'[j] : s.stamp >= announced'
  BY <1>1, <1>2, <1>4, <1>5, <1>6 DEF ListFollows
<1> QED
  BY <1>1, <1>4, <1>7 DEF ListFollows, tableServerVars, TableFollowsWrites

LEMMA AnswerKeepsList == ASSUME ListFollows, TableLoadEnds PROVE ListFollows'
<1>1. PICK i \in DOMAIN tableLoads :
        /\ tableLoads' = RemoveAt(tableLoads, i)
        /\ \/ tableLoads[i] # {} /\ tableShown' = tableLoads[i] /\ tableError' = FALSE
           \/ tableShown' = {} /\ tableError' = TRUE
        /\ UNCHANGED <<tableServerVars, overlapped, rowVars, announced>>
  BY DEF TableLoadEnds
<1>2. tableLoads' \in Seq(Listings) /\ Len(tableLoads') = Len(tableLoads) - 1
  BY <1>1, Removed DEF ListFollows
<1>3. ~overlapped => tableLoads' = <<>>
  BY <1>2 DEF ListFollows
<1>4. ~overlapped' => /\ Len(tableLoads') <= 1
                      /\ \A j \in DOMAIN tableLoads' : \A s \in tableLoads'[j] : s.stamp >= announced'
  BY <1>1, <1>3
<1>5. TableFollowsWrites'
  BY <1>1 DEF ListFollows, TableFollowsWrites
<1> QED
  BY <1>1, <1>2, <1>4, <1>5 DEF ListFollows, tableServerVars

LEMMA FormStepsKeepList ==
  ASSUME ListFollows, OpenRowForm \/ CancelRow \/ SubmitRow \/ HearRowSaved \/ RowFormClosed
  PROVE  ListFollows'
<1> USE DEF tableServerVars, rowVars
<1>1. CASE OpenRowForm \/ CancelRow \/ SubmitRow
  BY <1>1, ListIdle DEF OpenRowForm, CancelRow, SubmitRow, ListFollows
<1>2. CASE HearRowSaved
  <2>1. PICK f \in rowForm :
          \/ Saves(f)
          \/ UNCHANGED tableServerVars
    BY <1>2 DEF HearRowSaved
  <2>2. CASE Saves(f)
    <3>1. CASE \E r \in TableRows : WriteRow(r, "draft")
      BY <1>2, <3>1, WrittenRow, ListIdle DEF HearRowSaved, RowStates
    <3>2. CASE WriteRow(f.row, stored[f.row])
      <4>1. stored' = stored /\ writesMade' = writesMade + 1
        BY <3>2 DEF WriteRow, ListFollows
      <4> QED
        BY <1>2, <4>1, ListIdle DEF HearRowSaved, ListFollows
    <3> QED
      BY <2>2, <3>1, <3>2 DEF Saves
  <2>3. CASE UNCHANGED tableServerVars
    BY <1>2, <2>3, ListIdle DEF HearRowSaved, ListFollows
  <2> QED
    BY <2>1, <2>2, <2>3
<1>3. CASE RowFormClosed
  BY <1>3, LoadKeepsList DEF RowFormClosed, ListFollows
<1> QED
  BY <1>1, <1>2, <1>3

LEMMA RowStepsKeepList ==
  ASSUME ListFollows,
         \/ OthersWriteRow \/ RefreshTable \/ AnswerRow \/ HearRowCall
         \/ \E what \in {"publish", "delete"} : AskRow(what, {"draft"})
  PROVE  ListFollows'
<1> USE DEF tableServerVars, rowVars
<1>1. CASE OthersWriteRow
  <2>1. PICK r \in TableRows, state \in RowStates : WriteRow(r, state)
    BY <1>1 DEF OthersWriteRow, RowStates
  <2> QED
    BY <1>1, <2>1, WrittenRow, ListIdle DEF OthersWriteRow
<1>2. CASE RefreshTable
  BY <1>2, LoadKeepsList DEF RefreshTable, ListFollows
<1>3. CASE AnswerRow \/ \E what \in {"publish", "delete"} : AskRow(what, {"draft"})
  BY <1>3, ListIdle DEF AnswerRow, AskRow, ListFollows
<1>4. CASE HearRowCall
  <2>1. PICK call \in rowCalls :
          \/ /\ WriteRow(call.row, After(call))
             /\ (announced' = writesMade' /\ LoadTable) \/ UNCHANGED <<tableSourceVars, announced>>
          \/ UNCHANGED <<tableServerVars, tableSourceVars, announced>>
    BY <1>4 DEF HearRowCall
  <2>2. After(call) \in RowStates
    BY DEF After, RowStates
  <2>3. CASE WriteRow(call.row, After(call))
    BY <2>1, <2>2, <2>3, WrittenRow, LoadKeepsList, ListIdle DEF ListFollows
  <2>4. CASE UNCHANGED <<tableServerVars, tableSourceVars, announced>>
    BY <2>4, ListIdle DEF ListFollows
  <2> QED
    BY <2>1, <2>3, <2>4
<1> QED
  BY <1>1, <1>2, <1>3, <1>4

LEMMA OneForm ==
  ASSUME NEW g \in RowForms, rowForm' = {g}, g.closing => g.sending = 0,
         createdRows' \in Nat, unheardRow' \in BOOLEAN,
         unheardRow' \/ createdRows' <= 1, unheardRow' \/ createdRows' = 0 \/ g.closing
  PROVE  FormMakesOne'
<1>1. \A f \in rowForm' : f = g
  OBVIOUS
<1> QED
  BY <1>1 DEF FormMakesOne

\* One request of a form is in flight, and after the one that was carried out it closes.
LEMMA TableStepsKeepForm == ASSUME FormMakesOne, TableNext PROVE FormMakesOne'
<1> USE DEF tableServerVars, tableSourceVars, rowVars
<1>1. CASE OpenRowForm
  <2>1. PICK r \in TableRows \cup {AbsentRow} : rowForm' = {[row |-> r, sending |-> 0, closing |-> FALSE]}
    BY <1>1 DEF OpenRowForm, InTable
  <2>2. createdRows' = 0 /\ unheardRow' = FALSE
    BY <1>1 DEF OpenRowForm
  <2>3. PICK g \in RowForms : rowForm' = {g} /\ g.sending = 0 /\ g.closing = FALSE
    <3>1. PICK g : g = [row |-> r, sending |-> 0, closing |-> FALSE]
      OBVIOUS
    <3>2. g \in RowForms /\ g.sending = 0 /\ g.closing = FALSE
      BY <3>1 DEF RowForms
    <3> QED
      BY <2>1, <3>1, <3>2
  <2>4. createdRows' \in Nat /\ createdRows' <= 1
    BY <2>2
  <2>5. unheardRow' \in BOOLEAN
    BY <2>2, Zenon
  <2> QED
    BY <2>2, <2>3, <2>4, <2>5, OneForm
<1>2. CASE CancelRow \/ RowFormClosed
  BY <1>2 DEF CancelRow, RowFormClosed, FormMakesOne
<1>3. CASE SubmitRow
  <2>1. PICK f \in rowForm : f.sending = 0 /\ ~f.closing /\ rowForm' = {[f EXCEPT !.sending = @ + 1]}
    BY <1>3 DEF SubmitRow, MaySubmit
  <2>2. f \in RowForms
    BY DEF FormMakesOne
  <2>3. PICK g \in RowForms : rowForm' = {g} /\ ~g.closing
    <3>1. PICK g : g = [f EXCEPT !.sending = @ + 1]
      OBVIOUS
    <3>2. g \in RowForms /\ ~g.closing
      BY <2>1, <2>2, <3>1 DEF RowForms
    <3> QED
      BY <2>1, <3>1, <3>2
  <2>4. unheardRow \/ createdRows = 0
    BY <2>1 DEF FormMakesOne
  <2> QED
    BY <1>3, <2>3, <2>4 DEF SubmitRow, FormMakesOne
<1>4. CASE HearRowSaved
  <2>1. PICK f \in rowForm :
          /\ f.sending > 0
          /\ \/ /\ Saves(f)
                /\ \/ rowForm' = {[f EXCEPT !.sending = @ - 1, !.closing = TRUE]} /\ UNCHANGED unheardRow
                   \/ rowForm' = {[f EXCEPT !.sending = @ - 1]} /\ unheardRow' = TRUE
             \/ /\ rowForm' = {[f EXCEPT !.sending = @ - 1]}
                /\ UNCHANGED <<createdRows, unheardRow>>
    BY <1>4 DEF HearRowSaved
  <2>2. f \in RowForms /\ f.sending = 1 /\ ~f.closing
    BY <2>1 DEF FormMakesOne, RowForms
  <2>3. unheardRow \/ createdRows = 0
    BY <2>2 DEF FormMakesOne
  <2>4. PICK g \in RowForms :
          /\ rowForm' = {g} /\ g.sending = 0
          /\ g.closing \/ unheardRow' \/ UNCHANGED <<createdRows, unheardRow>>
    <3>1. PICK g, h : g = [f EXCEPT !.sending = @ - 1] /\ h = [f EXCEPT !.sending = @ - 1, !.closing = TRUE]
      OBVIOUS
    <3>2. g \in RowForms /\ g.sending = 0
      BY <2>2, <3>1 DEF RowForms
    <3>3. h \in RowForms /\ h.sending = 0 /\ h.closing
      <4>1. PICK e \in RowForms : e = [f EXCEPT !.sending = @ - 1] /\ e.sending = 0
        BY <3>1, <3>2
      <4>2. h = [e EXCEPT !.closing = TRUE]
        BY <2>2, <3>1, <4>1 DEF RowForms
      <4> QED
        BY <4>1, <4>2 DEF RowForms
    <3>4. rowForm' = {g} \/ rowForm' = {h}
      BY <2>1, <3>1
    <3>5. rowForm' = {g} => unheardRow' \/ UNCHANGED <<createdRows, unheardRow>> \/ g.closing
      BY <2>1, <3>1, <3>2, <3>3
    <3> QED
      BY <3>2, <3>3, <3>4, <3>5
  <2>5. createdRows' \in {createdRows, createdRows + 1} /\ unheardRow' \in {unheardRow, TRUE}
    BY <2>1 DEF Saves
  <2> QED
    <3>1. createdRows \in Nat /\ unheardRow \in BOOLEAN
      BY DEF FormMakesOne
    <3>2. createdRows' \in Nat /\ unheardRow' \in BOOLEAN
      <4>1. createdRows' \in Nat
        BY <2>5, <3>1
      <4>2. unheardRow' \in BOOLEAN
        BY <2>5, <3>1, Zenon
      <4> QED
        BY <4>1, <4>2
    <3>3. unheardRow => unheardRow'
      BY <2>5, <3>1
    <3>4. unheardRow' \/ createdRows' <= 1
      BY <2>3, <2>5, <3>3
    <3>5. unheardRow' \/ createdRows' = 0 \/ g.closing
      BY <2>3, <2>4, <3>3
    <3> QED
      BY <2>4, <3>2, <3>4, <3>5, OneForm DEF RowForms
<1>5. CASE UNCHANGED <<rowForm, createdRows, unheardRow>>
  BY <1>5 DEF FormMakesOne
<1>6. ASSUME \/ RefreshTable \/ ServerListsRows \/ TableLoadEnds \/ OthersWriteRow \/ AnswerRow \/ HearRowCall
             \/ \E what \in {"publish", "delete"} : AskRow(what, {"draft"})
      PROVE  UNCHANGED <<rowForm, createdRows, unheardRow>>
  BY <1>6 DEF RefreshTable, ServerListsRows, TableLoadEnds, OthersWriteRow, AnswerRow, HearRowCall, AskRow
<1> QED
  BY <1>1, <1>2, <1>3, <1>4, <1>5, <1>6
  DEF TableNext, BudgetFormStep, UnitFormStep, FormStep, PublishBudgetRow, BudgetListStep, UnitListStep, ListStep

LEMMA TableStepsKeepList == ASSUME ListFollows, TableNext PROVE ListFollows'
BY ReadKeepsList, AnswerKeepsList, FormStepsKeepList, RowStepsKeepList
DEF TableNext, BudgetFormStep, UnitFormStep, FormStep, PublishBudgetRow, BudgetListStep, UnitListStep, ListStep

LEMMA TablesBegin == TableInit => ListFollows /\ FormMakesOne
<1> SUFFICES ASSUME TableInit PROVE ListFollows /\ FormMakesOne
  OBVIOUS
<1>1. tableLoads = <<{}>> /\ tableShown = {} /\ stored \in [TableRows -> RowStates]
  BY DEF TableInit, RowStates
<1>2. tableLoads \in Seq(Listings) /\ Len(tableLoads) = 1 /\ \A i \in DOMAIN tableLoads : tableLoads[i] = {}
  BY <1>1 DEF Listings
<1> QED
  <2>1. ListFollows
    BY <1>1, <1>2 DEF TableInit, ListFollows, TableFollowsWrites
  <2>2. FormMakesOne
    <3>1. rowForm = {} /\ createdRows \in Nat /\ createdRows <= 1 /\ unheardRow = FALSE
      BY DEF TableInit
    <3>2. unheardRow \in BOOLEAN
      BY <3>1, Zenon
    <3> QED
      BY <3>1, <3>2 DEF FormMakesOne
  <2> QED
    BY <2>1, <2>2

LEMMA TablesSay == ListFollows /\ FormMakesOne => TablesAreCurrent
BY DEF ListFollows, FormMakesOne, TablesAreCurrent, OneRowPerForm

------------------------------------------------------------------------------
(* The templates of e-mails and their attachments *)

Waits == {"save", "preview", "upload"}
WindowOf == [save |-> "form", preview |-> "trial", upload |-> "file"]

\* Places for requests.
CallForm ==
  /\ calls = [n \in DOMAIN calls |-> calls[n]] /\ DOMAIN calls = 1..MaxCalls
  /\ \A n \in DOMAIN calls : calls[n] = [op |-> calls[n].op, of |-> calls[n].of, answer |-> calls[n].answer]

\* The window that waits for an answer is open and says so, and nothing else waits.
WindowsWait ==
  /\ \A n \in DOMAIN calls : calls[n].op \in Waits => panel = WindowOf[calls[n].op]
  /\ \A n, m \in DOMAIN calls : calls[n].op \in Waits /\ calls[m].op \in Waits => n = m
  /\ \A n \in DOMAIN calls : /\ calls[n].op = "save" => draft.saving
                             /\ calls[n].op = "preview" => trial.asked

\* A preview that is up to date, and the one that is awaited for it, are of the data on
\* the page, which are valid.
TrialAgrees ==
  /\ trial = [of |-> trial.of, source |-> trial.source, sample |-> trial.sample, custom |-> trial.custom,
              locked |-> trial.locked, asked |-> trial.asked, same |-> trial.same, result |-> trial.result, current |-> trial.current]
  /\ trial.source \in Sources
  /\ trial.same => ActiveData(trial) # "bad"
  /\ trial.current => trial.result = <<trial.source, ActiveData(trial)>> /\ ActiveData(trial) # "bad"
  /\ \A n \in DOMAIN calls : calls[n].op = "preview" /\ trial.same =>
       calls[n].of[2] = trial.source /\ calls[n].of[3] = ActiveData(trial)

\* A subject is one line in the form, on its way and where it is kept.
SubjectsAreLines ==
  /\ draft = [id |-> draft.id, subject |-> draft.subject, message |-> draft.message, dirty |-> draft.dirty,
              saving |-> draft.saving]
  /\ draft.subject \in {"", "line"}
  /\ \A n \in DOMAIN calls : calls[n].op = "save" => calls[n].of.subject \in {"", "line"}
  /\ models \in Seq({"", "line", "gone"})

Additions == [stage : {"none", "waiting", "locked", "measured"}, size : Nat, total : Nat]
Holders == {u \in DOMAIN uploads : uploads[u].stage \in {"locked", "measured"}}

\* One addition holds the row; what it measured is not exceeded, and it adds to nothing else.
QuotaKept ==
  /\ attached \in [Uploads -> Nat] /\ uploads \in [Uploads -> Additions] /\ chosenFile \in Nat
  /\ \A u \in Uploads : uploads[u].stage # "none" => attached[u] = 0
  /\ \A u, v \in Uploads : uploads[u].stage \in {"locked", "measured"} /\ uploads[v].stage \in {"locked", "measured"} => u = v
  /\ \A u \in Uploads : uploads[u].stage = "measured" => Total <= uploads[u].total
  /\ Total <= Limit

TemplatesHold == CallForm /\ WindowsWait /\ TrialAgrees /\ SubjectsAreLines /\ QuotaKept

\* Requests end, are answered, or one more is sent.
Same(c, d) == c.op = d.op /\ c.of = d.of
Becomes(gone, c) ==
  /\ CallForm' /\ DOMAIN calls' = DOMAIN calls
  /\ \E k : \A n \in DOMAIN calls :
       \/ calls'[n].op = "none"
       \/ n \notin gone /\ Same(calls'[n], calls[n])
       \/ n = k /\ calls'[n] = c

Left(cs, gone) ==
  /\ cs = [n \in DOMAIN calls |-> cs[n]]
  /\ \A n \in DOMAIN calls : /\ cs[n] = [op |-> cs[n].op, of |-> cs[n].of, answer |-> cs[n].answer]
                             /\ cs[n].op = "none" \/ (n \notin gone /\ Same(cs[n], calls[n]))

LEMMA LeftIs ==
  ASSUME CallForm, NEW gone, Left(calls', gone)
  PROVE  Becomes(gone, NoCall)
BY DEF CallForm, Left, Becomes

LEMMA Rest ==
  ASSUME CallForm, calls' = calls
  PROVE  Becomes({}, NoCall)
BY DEF CallForm, Becomes, Same

LEMMA LeftAll ==
  ASSUME CallForm
  PROVE  Left(calls, {})
BY DEF CallForm, Left, Same

LEMMA LeftWithout ==
  ASSUME CallForm, NEW n \in DOMAIN calls
  PROVE  Left(Without(n), {n})
<1>1. PICK none : none = NoCall
  OBVIOUS
<1>2. none = [op |-> none.op, of |-> none.of, answer |-> none.answer] /\ none.op = "none"
  BY <1>1 DEF NoCall
<1>3. Without(n) = [m \in DOMAIN calls |-> IF m = n THEN none ELSE calls[m]]
  BY <1>1 DEF Without, CallForm
<1> QED
  BY <1>2, <1>3 DEF CallForm, Left, Same

LEMMA LeftDisconnected ==
  ASSUME CallForm, NEW source
  PROVE  Left(Disconnected(calls, source), {})
<1>1. PICK none : none = NoCall
  OBVIOUS
<1>2. none = [op |-> none.op, of |-> none.of, answer |-> none.answer] /\ none.op = "none"
  BY <1>1 DEF NoCall
<1> QED
  BY <1>1, <1>2 DEF Disconnected, CallForm, Left, Same

LEMMA SentIs ==
  ASSUME CallForm, NEW gone, NEW cs, Left(cs, gone), NEW c, c = [op |-> c.op, of |-> c.of, answer |-> c.answer], Send(cs, c)
  PROVE  Becomes(gone, c)
<1> DEFINE free == {n \in DOMAIN cs : cs[n].op = "none"}
           k == CHOOSE n \in free : \A m \in free : n <= m
<1>1. free # {} /\ calls' = [cs EXCEPT ![k] = c]
  BY DEF Send
<1>2. DOMAIN cs = 1..MaxCalls
  BY DEF Left, CallForm
<1>3. \E n \in free : \A m \in free : n <= m
  <2>1. free \subseteq Nat
    BY <1>2
  <2> HIDE DEF free
  <2> QED
    BY <1>1, <2>1, LeastNumber
<1>4. k \in DOMAIN cs
  BY <1>3
<1> HIDE DEF k, free
<1>5. calls' = [n \in DOMAIN calls |-> IF n = k THEN c ELSE cs[n]]
  BY <1>1, <1>4 DEF Left
<1>6. CallForm'
  BY <1>5 DEF CallForm, Left
<1>7. \A n \in DOMAIN calls : \/ calls'[n].op = "none"
                              \/ n \notin gone /\ Same(calls'[n], calls[n])
                              \/ n = k /\ calls'[n] = c
  BY <1>5 DEF Left
<1> QED
  BY <1>5, <1>6, <1>7 DEF Becomes

LEMMA CallIs ==
  ASSUME NEW op, NEW of
  PROVE  Call(op, of).op = op /\ Call(op, of).of = of /\ Call(op, of) = [op |-> Call(op, of).op, of |-> Call(op, of).of, answer |-> Call(op, of).answer]
BY DEF Call

\* Nothing waits where no window could.
Waiting == \E n \in DOMAIN calls : calls[n].op \in Waits

LEMMA IdleWindows ==
  ASSUME WindowsWait,
         \/ panel \in {"none", "files"}
         \/ panel = "form" /\ ~draft.saving
         \/ panel = "trial" /\ ~trial.asked
         \/ panel = "file" /\ ~Uploading
  PROVE  ~Waiting
BY DEF WindowsWait, Waiting, Waits, WindowOf, Uploading

LEMMA IdleAfter ==
  ASSUME WindowsWait, NEW gone, NEW c, Becomes(gone, c), c.op \notin Waits,
         ~Waiting \/ \E n \in gone \cap DOMAIN calls : calls[n].op \in Waits
  PROVE  WindowsWait'
<1>1. ~Waiting'
  <2> SUFFICES ASSUME NEW n \in DOMAIN calls, calls'[n].op \in Waits PROVE FALSE
    BY DEF Waiting, Becomes
  <2>1. n \notin gone /\ calls'[n].op = calls[n].op
    BY DEF Becomes, Same, Waits
  <2> QED
    BY <2>1 DEF Waiting, WindowsWait
<1> QED
  BY <1>1 DEF Waiting, WindowsWait, Waits

LEMMA WindowsRest ==
  ASSUME WindowsWait, NEW gone, NEW c, Becomes(gone, c), c.op \notin Waits, panel' = panel,
         draft.saving => draft'.saving, trial.asked => trial'.asked
  PROVE  WindowsWait'
<1>1. \A n \in DOMAIN calls : calls'[n].op \in Waits => calls'[n].op = calls[n].op
  BY DEF Becomes, Same, Waits
<1>2. DOMAIN calls' = DOMAIN calls
  BY DEF Becomes
<1> QED
  BY <1>1, <1>2 DEF WindowsWait, Waits

LEMMA WindowAsks ==
  ASSUME ~Waiting, NEW gone, NEW c, Becomes(gone, c), c.op \in Waits, panel' = WindowOf[c.op],
         c.op = "save" => draft'.saving, c.op = "preview" => trial'.asked
  PROVE  WindowsWait'
<1>1. \A n \in DOMAIN calls : calls'[n].op \in Waits => calls'[n] = c
  BY DEF Becomes, Same, Waits, Waiting
<1>2. \A n, m \in DOMAIN calls : calls'[n].op \in Waits /\ calls'[m].op \in Waits => n = m
  BY DEF Becomes, Same, Waits, Waiting
<1>3. DOMAIN calls' = DOMAIN calls
  BY DEF Becomes
<1> QED
  BY <1>1, <1>2, <1>3 DEF WindowsWait, Waits

LEMMA TrialRests ==
  ASSUME TrialAgrees, NEW gone, NEW c, Becomes(gone, c), c.op # "preview", trial' = trial
  PROVE  TrialAgrees'
<1>1. \A n \in DOMAIN calls : calls'[n].op = "preview" => calls[n].op = "preview" /\ calls'[n].of = calls[n].of
  BY DEF Becomes, Same
<1>2. DOMAIN calls' = DOMAIN calls
  BY DEF Becomes
<1> QED
  BY <1>1, <1>2 DEF TrialAgrees, ActiveData

LEMMA SubjectsRest ==
  ASSUME SubjectsAreLines, NEW gone, NEW c, Becomes(gone, c), c.op # "save",
         draft' = draft \/ draft' = NoDraft, models' = models
  PROVE  SubjectsAreLines'
<1>1. \A n \in DOMAIN calls : calls'[n].op = "save" => calls[n].op = "save" /\ calls'[n].of = calls[n].of
  BY DEF Becomes, Same
<1>2. DOMAIN calls' = DOMAIN calls
  BY DEF Becomes
<1>3. /\ draft' = [id |-> draft'.id, subject |-> draft'.subject, message |-> draft'.message, dirty |-> draft'.dirty,
              saving |-> draft'.saving]
      /\ draft'.subject \in {"", "line"}
  <2>1. PICK d : d = NoDraft
    OBVIOUS
  <2>2. d = [id |-> d.id, subject |-> d.subject, message |-> d.message, dirty |-> d.dirty, saving |-> d.saving]
        /\ d.subject = ""
    BY <2>1 DEF NoDraft
  <2>3. CASE draft' = d
    BY <2>2, <2>3
  <2>4. CASE draft' = draft
    BY <2>4 DEF SubjectsAreLines
  <2> QED
    BY <2>1, <2>3, <2>4
<1> QED
  BY <1>1, <1>2, <1>3 DEF SubjectsAreLines

LEMMA QuotaRests ==
  ASSUME QuotaKept, UNCHANGED <<attached, uploads>>, chosenFile' \in Nat
  PROVE  QuotaKept'
<1>1. Total' = Total
  BY DEF Total
<1> QED
  BY <1>1 DEF QuotaKept

(* Lists, and what ends nothing that waits *)

\* A load, or a removal, that is sent after what is left.
LEMMA CallSent ==
  ASSUME CallForm, NEW gone, NEW cs, Left(cs, gone), NEW op, NEW of, Send(cs, Call(op, of))
  PROVE  Becomes(gone, Call(op, of)) /\ Call(op, of).op = op /\ Call(op, of).of = of
BY SentIs, CallIs

LEMMA LoadSent ==
  ASSUME CallForm, NEW gone, NEW cs, Left(cs, gone), NEW source, LoadList(cs, source)
  PROVE  \E c : Becomes(gone, c) /\ c.op = "list"
BY CallSent DEF LoadList

LEMMA Ended ==
  ASSUME CallForm, NEW n \in DOMAIN calls, calls' = Without(n)
  PROVE  \E c : Becomes({n}, c) /\ c.op = "none"
<1>1. NoCall.op = "none"
  BY DEF NoCall
<1> QED
  BY <1>1, LeftWithout, LeftIs

LEMMA Rested ==
  ASSUME CallForm, calls' = calls
  PROVE  \E c : Becomes({}, c) /\ c.op = "none"
<1>1. NoCall.op = "none"
  BY DEF NoCall
<1> QED
  BY <1>1, Rest

\* Everything holds after a step that leaves the form, the preview and the server alone.
LEMMA AllRest ==
  ASSUME TemplatesHold, NEW gone, NEW c, Becomes(gone, c), c.op \notin Waits,
         trial' = trial, draft' = draft, models' = models, UNCHANGED <<attached, uploads>>, chosenFile' \in Nat,
         panel' = panel \/ ~Waiting \/ \E n \in gone \cap DOMAIN calls : calls[n].op \in Waits
  PROVE  TemplatesHold'
<1>1. CallForm' /\ TrialAgrees' /\ SubjectsAreLines' /\ QuotaKept'
  <2>1. /\ CallForm /\ WindowsWait /\ TrialAgrees /\ SubjectsAreLines /\ QuotaKept
        /\ c.op # "preview" /\ c.op # "save"
    BY DEF TemplatesHold, Waits
  <2>2. CallForm'
    BY DEF Becomes
  <2>3. TrialAgrees'
    BY <2>1, TrialRests
  <2>4. SubjectsAreLines'
    BY <2>1, SubjectsRest
  <2>5. QuotaKept'
    BY <2>1, QuotaRests
  <2> QED
    BY <2>2, <2>3, <2>4, <2>5
<1>2. WindowsWait'
  <2>1. CASE panel' = panel
    BY <2>1, WindowsRest DEF TemplatesHold
  <2>2. CASE panel' # panel
    BY <2>2, IdleAfter DEF TemplatesHold
  <2> QED
    BY <2>1, <2>2
<1> QED
  BY <1>1, <1>2 DEF TemplatesHold

LEMMA ListSteps ==
  ASSUME TemplatesHold,
         \/ RefreshList
         \/ \E n \in DOMAIN calls : HearList(n) \/ ListFails(n) \/ HearRemoved(n) \/ RemovalFails(n)
         \/ RemoveRow
  PROVE  TemplatesHold'
<1>0. CallForm /\ chosenFile \in Nat /\ Left(calls, {})
  BY LeftAll DEF TemplatesHold, QuotaKept
<1>1. UNCHANGED <<trial, draft, models, attached, uploads, panel, chosenFile>>
  BY DEF RefreshList, HearList, ListFails, HearRemoved, RemovalFails, RemoveRow, templateServerVars
<1>2. \E gone, c : Becomes(gone, c) /\ c.op \notin Waits
  <2>1. CASE RefreshList
    <3>1. \E s : LoadList(calls, s)
      BY <2>1 DEF RefreshList
    <3> QED
      BY <1>0, <3>1, LoadSent DEF Waits
  <2>2. ASSUME NEW n \in DOMAIN calls, HearList(n) \/ ListFails(n) \/ RemovalFails(n) PROVE \E gone, c : Becomes(gone, c) /\ c.op \notin Waits
    <3>1. calls' = Without(n)
      BY <2>2 DEF HearList, ListFails, RemovalFails
    <3> QED
      BY <1>0, <3>1, Ended DEF Waits
  <2>3. ASSUME NEW n \in DOMAIN calls, HearRemoved(n) PROVE \E gone, c : Becomes(gone, c) /\ c.op \notin Waits
    <3>1. calls' = Without(n) \/ \E s : LoadList(Without(n), s)
      BY <2>3 DEF HearRemoved
    <3> QED
      BY <1>0, <3>1, Ended, LoadSent, LeftWithout DEF Waits
  <2>4. CASE RemoveRow
    <3>1. \E op \in {"removeTemplate", "removeFile"} : \E of : Send(calls, Call(op, of))
      BY <2>4 DEF RemoveRow
    <3> QED
      BY <1>0, <3>1, CallSent DEF Waits
  <2> QED
    BY <2>1, <2>2, <2>3, <2>4
<1> QED
  BY <1>0, <1>1, <1>2, AllRest

LEMMA FileSteps ==
  ASSUME TemplatesHold,
         \/ OpenFiles \/ CloseFiles \/ OpenFile \/ ChooseFile \/ CancelFile
         \/ \E n \in DOMAIN calls : HearFile(n) \/ FileFails(n)
  PROVE  TemplatesHold'
<1>0. CallForm /\ chosenFile \in Nat /\ Left(calls, {})
  BY LeftAll DEF TemplatesHold, QuotaKept
<1>1. UNCHANGED <<trial, draft, models, attached, uploads>> /\ chosenFile' \in Nat
  <2>1. UNCHANGED <<trial, draft, models, attached, uploads>>
    BY DEF OpenFiles, CloseFiles, OpenFile, ChooseFile, CancelFile, HearFile, FileFails, templateServerVars
  <2>2. ASSUME ChooseFile PROVE chosenFile' \in Nat
    BY <2>2, TemplatesAssumption DEF ChooseFile
  <2>3. ASSUME ~ChooseFile PROVE chosenFile' \in Nat
    <3>1. chosenFile' \in {chosenFile, 0}
      BY <2>3 DEF OpenFiles, CloseFiles, OpenFile, CancelFile, HearFile, FileFails
    <3> QED
      BY <1>0, <3>1
  <2> QED
    BY <2>1, <2>2, <2>3
<1>2. \E gone, c : /\ Becomes(gone, c) /\ c.op \notin Waits
                   /\ panel' = panel \/ ~Waiting \/ \E n \in gone \cap DOMAIN calls : calls[n].op \in Waits
  <2>1. CASE OpenFiles
    <3>1. Send(calls, Call("list", "files")) /\ panel = "none"
      BY <2>1 DEF OpenFiles
    <3>2. ~Waiting
      BY <3>1, IdleWindows DEF TemplatesHold
    <3> QED
      BY <1>0, <3>1, <3>2, CallSent DEF Waits
  <2>2. CASE CloseFiles
    <3>1. Send(Disconnected(calls, "files"), Call("list", "templates")) /\ panel = "files"
      BY <2>2 DEF CloseFiles
    <3>2. ~Waiting
      BY <3>1, IdleWindows DEF TemplatesHold
    <3> QED
      BY <1>0, <3>1, <3>2, CallSent, LeftDisconnected DEF Waits
  <2>3. CASE OpenFile \/ CancelFile
    <3>1. calls' = calls /\ (panel = "files" \/ (panel = "file" /\ ~Uploading))
      BY <2>3 DEF OpenFile, CancelFile
    <3>2. ~Waiting
      BY <3>1, IdleWindows DEF TemplatesHold
    <3> QED
      BY <1>0, <3>1, <3>2, Rested DEF Waits
  <2>4. CASE ChooseFile
    <3>1. calls' = calls /\ panel' = panel
      BY <2>4 DEF ChooseFile
    <3> QED
      BY <1>0, <3>1, Rested DEF Waits
  <2>5. ASSUME NEW n \in DOMAIN calls, HearFile(n) \/ FileFails(n)
        PROVE  \E gone, c : /\ Becomes(gone, c) /\ c.op \notin Waits
                            /\ panel' = panel \/ ~Waiting \/ \E m \in gone \cap DOMAIN calls : calls[m].op \in Waits
    <3>1. calls[n].op \in Waits /\ (calls' = Without(n) \/ \E s : LoadList(Without(n), s))
      BY <2>5 DEF HearFile, FileFails, Hears, Waits
    <3>2. n \in {n} \cap DOMAIN calls
      OBVIOUS
    <3>3. \E c : Becomes({n}, c) /\ c.op \in {"list", "none"}
      BY <1>0, <3>1, Ended, LoadSent, LeftWithout
    <3> QED
      BY <3>1, <3>2, <3>3 DEF Waits
  <2> QED
    BY <2>1, <2>2, <2>3, <2>4, <2>5
<1> QED
  BY <1>0, <1>1, <1>2, AllRest

(* The form of a template *)

LEMMA DraftIs ==
  ASSUME SubjectsAreLines, draft'.subject \in {"", "line"}, models' = models,
         draft' = [id |-> draft'.id, subject |-> draft'.subject, message |-> draft'.message, dirty |-> draft'.dirty,
                   saving |-> draft'.saving],
         NEW gone, NEW c, Becomes(gone, c), c.op = "save" => c.of.subject \in {"", "line"}
  PROVE  SubjectsAreLines'
<1>1. \A n \in DOMAIN calls : calls'[n].op = "save" => calls'[n].of.subject \in {"", "line"}
  BY DEF Becomes, Same, SubjectsAreLines
<1>2. DOMAIN calls' = DOMAIN calls
  BY DEF Becomes
<1> QED
  BY <1>1, <1>2 DEF SubjectsAreLines

LEMMA DraftKinds ==
  ASSUME SubjectsAreLines, OpenTemplate \/ TypeText \/ InsertVariable \/ SubmitTemplate \/ CancelTemplate
         \/ \E n \in DOMAIN calls : HearSaved(n) \/ SaveFails(n)
  PROVE  /\ draft'.subject \in {"", "line"}
         /\ draft' = [id |-> draft'.id, subject |-> draft'.subject, message |-> draft'.message, dirty |-> draft'.dirty,
                      saving |-> draft'.saving]
<1>1. PICK d : d = draft
  OBVIOUS
<1>2. d = [id |-> d.id, subject |-> d.subject, message |-> d.message, dirty |-> d.dirty, saving |-> d.saving]
      /\ d.subject \in {"", "line"}
  BY <1>1 DEF SubjectsAreLines
<1>3. \/ draft' = [id |-> 0, subject |-> "", message |-> "", dirty |-> FALSE, saving |-> FALSE]
      \/ \E t : draft' = [id |-> t, subject |-> "line", message |-> "line", dirty |-> FALSE, saving |-> FALSE]
      \/ \E s \in {"", "line"} : draft' = [d EXCEPT !.subject = s, !.dirty = TRUE]
      \/ \E s \in {"", "line"} : draft' = [d EXCEPT !.message = s, !.dirty = TRUE]
      \/ \E v : draft' = [d EXCEPT !.saving = v]
  <2>1. CASE OpenTemplate
    BY <2>1 DEF OpenTemplate, NoDraft
  <2>2. CASE TypeText
    BY <1>1, <2>2 DEF TypeText
  <2>3. CASE InsertVariable
    <3>1. PICK snippet \in {"line", "block"}, target \in {"subject", "message"} :
            /\ CanInsert(snippet, target)
            /\ draft' = [draft EXCEPT ![target] = IF target = "message" THEN "line" ELSE snippet, !.dirty = TRUE]
      BY <2>3 DEF InsertVariable
    <3>2. CASE target = "message"
      BY <1>1, <3>1, <3>2
    <3>3. CASE target = "subject"
      <4>1. snippet = "line"
        BY <3>1, <3>3 DEF CanInsert
      <4>2. draft' = [d EXCEPT !.subject = "line", !.dirty = TRUE]
        BY <1>1, <3>1, <3>3, <4>1
      <4> QED
        BY <4>2
    <3> QED
      BY <3>2, <3>3
  <2>4. CASE SubmitTemplate
    BY <1>1, <2>4 DEF SubmitTemplate
  <2>5. CASE CancelTemplate \/ \E n \in DOMAIN calls : HearSaved(n)
    BY <2>5 DEF CancelTemplate, HearSaved, NoDraft
  <2>6. CASE \E n \in DOMAIN calls : SaveFails(n)
    BY <1>1, <2>6 DEF SaveFails
  <2> QED
    BY <2>1, <2>2, <2>3, <2>4, <2>5, <2>6
<1>4. PICK id, subject, message, dirty, saving :
        /\ draft' = [id |-> id, subject |-> subject, message |-> message, dirty |-> dirty, saving |-> saving]
        /\ subject \in {"", "line"}
  <2>1. CASE \E s \in {"", "line"} : draft' = [d EXCEPT !.subject = s, !.dirty = TRUE]
    <3>1. PICK s \in {"", "line"} : draft' = [d EXCEPT !.subject = s, !.dirty = TRUE]
      BY <2>1
    <3>2. draft' = [id |-> d.id, subject |-> s, message |-> d.message, dirty |-> TRUE, saving |-> d.saving]
      BY <1>2, <3>1
    <3> QED
      BY <3>2
  <2>2. CASE \E s \in {"", "line"} : draft' = [d EXCEPT !.message = s, !.dirty = TRUE]
    <3>1. PICK s \in {"", "line"} : draft' = [d EXCEPT !.message = s, !.dirty = TRUE]
      BY <2>2
    <3>2. draft' = [id |-> d.id, subject |-> d.subject, message |-> s, dirty |-> TRUE, saving |-> d.saving]
      BY <1>2, <3>1
    <3> QED
      BY <1>2, <3>2
  <2>3. CASE \E v : draft' = [d EXCEPT !.saving = v]
    <3>1. PICK v : draft' = [d EXCEPT !.saving = v]
      BY <2>3
    <3>2. draft' = [id |-> d.id, subject |-> d.subject, message |-> d.message, dirty |-> d.dirty, saving |-> v]
      BY <1>2, <3>1
    <3> QED
      BY <1>2, <3>2
  <2>4. CASE draft' = [id |-> 0, subject |-> "", message |-> "", dirty |-> FALSE, saving |-> FALSE]
    BY <2>4
  <2>5. CASE \E t : draft' = [id |-> t, subject |-> "line", message |-> "line", dirty |-> FALSE, saving |-> FALSE]
    BY <2>5
  <2> QED
    BY <1>3, <2>1, <2>2, <2>3, <2>4, <2>5
<1> QED
  BY <1>4

LEMMA FormSteps ==
  ASSUME TemplatesHold,
         \/ OpenTemplate \/ TypeText \/ InsertVariable \/ SubmitTemplate \/ CancelTemplate
         \/ \E n \in DOMAIN calls : HearSaved(n) \/ SaveFails(n)
  PROVE  TemplatesHold'
<1>0. CallForm /\ WindowsWait /\ TrialAgrees /\ SubjectsAreLines /\ QuotaKept /\ Left(calls, {}) /\ chosenFile \in Nat
  BY LeftAll DEF TemplatesHold, QuotaKept
<1>1. UNCHANGED <<trial, models, attached, uploads, chosenFile>>
  BY DEF OpenTemplate, TypeText, InsertVariable, SubmitTemplate, CancelTemplate, HearSaved, SaveFails, templateServerVars
<1>2. /\ draft'.subject \in {"", "line"}
      /\ draft' = [id |-> draft'.id, subject |-> draft'.subject, message |-> draft'.message, dirty |-> draft'.dirty,
                   saving |-> draft'.saving]
  BY <1>0, DraftKinds
<1>3. \E gone, c : /\ Becomes(gone, c) /\ c.op # "preview" /\ (c.op = "save" => c.of.subject \in {"", "line"})
                   /\ WindowsWait'
  <2>1. CASE OpenTemplate \/ CancelTemplate
    <3>1. calls' = calls /\ (panel = "none" \/ (panel = "form" /\ ~draft.saving))
      BY <2>1 DEF OpenTemplate, CancelTemplate
    <3>2. ~Waiting
      BY <1>0, <3>1, IdleWindows
    <3>3. PICK c : Becomes({}, c) /\ c.op = "none"
      BY <1>0, <3>1, Rested
    <3>4. WindowsWait'
      BY <1>0, <3>2, <3>3, IdleAfter DEF Waits
    <3> QED
      BY <3>3, <3>4
  <2>2. CASE TypeText \/ InsertVariable
    <3>1. calls' = calls /\ panel' = panel
      BY <2>2 DEF TypeText, InsertVariable
    <3>2. ~draft.saving
      BY <2>2 DEF TypeText, InsertVariable, CanInsert
    <3>3. PICK c : Becomes({}, c) /\ c.op = "none"
      BY <1>0, <3>1, Rested
    <3>4. WindowsWait'
      BY <1>0, <1>1, <3>1, <3>2, <3>3, WindowsRest DEF Waits
    <3> QED
      BY <3>3, <3>4
  <2>3. CASE SubmitTemplate
    <3>1. Send(calls, Call("save", draft)) /\ panel' = "form" /\ panel = "form" /\ ~draft.saving
      BY <2>3 DEF SubmitTemplate, CanSave
    <3>2. ~Waiting
      BY <1>0, <3>1, IdleWindows
    <3>3. PICK c : Becomes({}, c) /\ c.op = "save" /\ c.of = draft
      BY <1>0, <3>1, CallSent
    <3>4. draft'.saving
      BY <1>0, <2>3 DEF SubmitTemplate, SubjectsAreLines
    <3>5. WindowsWait'
      BY <3>1, <3>2, <3>3, <3>4, WindowAsks DEF Waits, WindowOf
    <3> QED
      BY <1>0, <3>3, <3>5 DEF SubjectsAreLines
  <2>4. ASSUME NEW n \in DOMAIN calls, HearSaved(n) \/ SaveFails(n)
        PROVE  \E gone, c : /\ Becomes(gone, c) /\ c.op # "preview" /\ (c.op = "save" => c.of.subject \in {"", "line"})
                            /\ WindowsWait'
    <3>1. calls[n].op \in Waits /\ (calls' = Without(n) \/ \E s : LoadList(Without(n), s))
      BY <2>4 DEF HearSaved, SaveFails, Hears, Waits
    <3>2. n \in {n} \cap DOMAIN calls
      OBVIOUS
    <3>3. PICK c : Becomes({n}, c) /\ c.op \in {"list", "none"}
      BY <1>0, <3>1, Ended, LoadSent, LeftWithout
    <3>4. WindowsWait'
      BY <1>0, <3>1, <3>2, <3>3, IdleAfter DEF Waits
    <3> QED
      BY <3>3, <3>4
  <2> QED
    BY <2>1, <2>2, <2>3, <2>4
<1>4. PICK gone, c : Becomes(gone, c) /\ c.op # "preview" /\ (c.op = "save" => c.of.subject \in {"", "line"})
  BY <1>3
<1>5. SubjectsAreLines'
  BY <1>0, <1>1, <1>2, <1>4, DraftIs
<1>6. TrialAgrees'
  BY <1>0, <1>1, <1>4, TrialRests
<1>7. QuotaKept'
  BY <1>0, <1>1, QuotaRests
<1>8. CallForm'
  BY <1>4 DEF Becomes
<1> QED
  BY <1>3, <1>5, <1>6, <1>7, <1>8 DEF TemplatesHold

(* The preview *)

LEMMA TrialSteps ==
  ASSUME TemplatesHold,
         \/ OpenTrial \/ EditTrial \/ SubmitTrial \/ CloseTrial
         \/ \E n \in DOMAIN calls : HearTrial(n) \/ TrialFails(n)
  PROVE  TemplatesHold'
<1>0. CallForm /\ WindowsWait /\ TrialAgrees /\ SubjectsAreLines /\ QuotaKept /\ Left(calls, {}) /\ chosenFile \in Nat
  BY LeftAll DEF TemplatesHold, QuotaKept
<1>1. UNCHANGED <<draft, models, attached, uploads, chosenFile>>
  BY DEF OpenTrial, EditTrial, SubmitTrial, CloseTrial, HearTrial, TrialFails, templateServerVars
<1>2. PICK t : t = trial
  OBVIOUS
<1>3. /\ t = [of |-> t.of, source |-> t.source, sample |-> t.sample, custom |-> t.custom,
              locked |-> t.locked, asked |-> t.asked, same |-> t.same, result |-> t.result, current |-> t.current]
      /\ t.source \in Sources
      /\ t.same => ActiveData(t) # "bad"
      /\ t.current => t.result = <<t.source, ActiveData(t)>> /\ ActiveData(t) # "bad"
      /\ \A n \in DOMAIN calls : calls[n].op = "preview" /\ t.same =>
           calls[n].of[2] = t.source /\ calls[n].of[3] = ActiveData(t)
  BY <1>0, <1>2 DEF TrialAgrees
<1>4. \E gone, c : Becomes(gone, c) /\ c.op # "save" /\ WindowsWait' /\ TrialAgrees'
  <2>1. CASE OpenTrial
    <3>1. panel = "none" /\ calls' = calls
      BY <2>1 DEF OpenTrial
    <3>2. ~Waiting
      BY <1>0, <3>1, IdleWindows
    <3>3. PICK c : Becomes({}, c) /\ c.op = "none"
      BY <1>0, <3>1, Rested
    <3>4. WindowsWait'
      BY <1>0, <3>2, <3>3, IdleAfter DEF Waits
    <3>5. PICK of, sample, custom : trial' = [NoTrial EXCEPT !.of = of, !.sample = sample, !.custom = custom]
      BY <2>1 DEF OpenTrial
    <3>6. trial' = [of |-> of, source |-> "sample", sample |-> sample, custom |-> custom, locked |-> FALSE,
                    asked |-> FALSE, same |-> FALSE, result |-> <<>>, current |-> FALSE]
      BY <3>5 DEF NoTrial
    <3>7. TrialAgrees'
      BY <3>6 DEF TrialAgrees, Sources
    <3> QED
      BY <3>3, <3>4, <3>7
  <2>2. CASE EditTrial
    <3>1. panel' = panel /\ calls' = calls
      BY <2>2 DEF EditTrial
    <3>2. PICK source, sample, custom, locked :
            /\ trial' = [of |-> t.of, source |-> source, sample |-> sample, custom |-> custom, locked |-> locked,
                         asked |-> t.asked, same |-> FALSE, result |-> t.result, current |-> FALSE]
            /\ source \in Sources
      <4>1. \A u : NewTrialRevision(u) = [u EXCEPT !.same = FALSE, !.current = FALSE, !.locked = (ActiveData(u) = "bad")]
        BY DEF NewTrialRevision
      <4>2. CASE \E s \in Sources \ {trial.source} : trial' = NewTrialRevision([trial EXCEPT !.source = s])
        <5>1. PICK s \in Sources : trial' = NewTrialRevision([t EXCEPT !.source = s])
          BY <1>2, <4>2
        <5>2. PICK locked : trial' = [[t EXCEPT !.source = s] EXCEPT !.same = FALSE, !.current = FALSE, !.locked = locked]
          BY <4>1, <5>1
        <5>3. trial' = [of |-> t.of, source |-> s, sample |-> t.sample, custom |-> t.custom, locked |-> locked,
                        asked |-> t.asked, same |-> FALSE, result |-> t.result, current |-> FALSE]
          BY <1>3, <5>2
        <5> QED
          BY <5>3
      <4>3. CASE \E v \in TrialData \ {ActiveData(trial)} : trial' = NewTrialRevision([trial EXCEPT ![trial.source] = v])
        <5>1. PICK v : trial' = NewTrialRevision([t EXCEPT ![t.source] = v])
          BY <1>2, <4>3
        <5>2. PICK locked : trial' = [[t EXCEPT ![t.source] = v] EXCEPT !.same = FALSE, !.current = FALSE, !.locked = locked]
          BY <4>1, <5>1
        <5>3. CASE t.source = "sample"
          <6>1. trial' = [[t EXCEPT !.sample = v] EXCEPT !.same = FALSE, !.current = FALSE, !.locked = locked]
            BY <5>2, <5>3
          <6>2. trial' = [of |-> t.of, source |-> t.source, sample |-> v, custom |-> t.custom, locked |-> locked,
                          asked |-> t.asked, same |-> FALSE, result |-> t.result, current |-> FALSE]
            BY <1>3, <6>1
          <6> QED
            BY <1>3, <6>2
        <5>4. CASE t.source = "custom"
          <6>1. trial' = [[t EXCEPT !.custom = v] EXCEPT !.same = FALSE, !.current = FALSE, !.locked = locked]
            BY <5>2, <5>4
          <6>2. trial' = [of |-> t.of, source |-> t.source, sample |-> t.sample, custom |-> v, locked |-> locked,
                          asked |-> t.asked, same |-> FALSE, result |-> t.result, current |-> FALSE]
            BY <1>3, <6>1
          <6> QED
            BY <1>3, <6>2
        <5> QED
          BY <1>3, <5>3, <5>4 DEF Sources
      <4> QED
        BY <2>2, <4>2, <4>3 DEF EditTrial
    <3>3. PICK c : Becomes({}, c) /\ c.op = "none"
      BY <1>0, <3>1, Rested
    <3>4. trial'.asked = t.asked /\ trial'.same = FALSE /\ ~trial'.current /\ trial'.source \in Sources
      BY <3>2
    <3>5. WindowsWait'
      BY <1>0, <1>1, <1>2, <3>1, <3>3, <3>4, WindowsRest DEF Waits
    <3>6. TrialAgrees'
      BY <3>2, <3>4 DEF TrialAgrees
    <3> QED
      BY <3>3, <3>5, <3>6
  <2>3. CASE SubmitTrial
    <3>1. /\ panel = "trial" /\ panel' = "trial" /\ ~t.asked /\ ActiveData(t) # "bad"
          /\ trial' = [t EXCEPT !.asked = TRUE, !.same = TRUE, !.current = FALSE]
          /\ Send(calls, Call("preview", <<t.of, t.source, ActiveData(t)>>))
      BY <1>2, <2>3 DEF SubmitTrial, CanTry
    <3>2. ~Waiting
      BY <1>0, <1>2, <3>1, IdleWindows
    <3>3. PICK c : Becomes({}, c) /\ c.op = "preview" /\ c.of = <<t.of, t.source, ActiveData(t)>>
      BY <1>0, <3>1, CallSent
    <3>4. trial' = [of |-> t.of, source |-> t.source, sample |-> t.sample, custom |-> t.custom, locked |-> t.locked,
                    asked |-> TRUE, same |-> TRUE, result |-> t.result, current |-> FALSE]
      BY <1>3, <3>1
    <3>5. trial'.asked /\ trial'.source = t.source /\ ActiveData(trial') = ActiveData(t) /\ ~trial'.current
      BY <3>4 DEF ActiveData
    <3>6. WindowsWait'
      BY <3>1, <3>2, <3>3, <3>5, WindowAsks DEF Waits, WindowOf
    <3>7. \A n \in DOMAIN calls : calls'[n].op = "preview" =>
            calls'[n].of[2] = trial'.source /\ calls'[n].of[3] = ActiveData(trial')
      <4>1. \A n \in DOMAIN calls : calls'[n].op = "preview" => calls'[n] = c
        BY <3>2, <3>3 DEF Becomes, Same, Waiting, Waits
      <4> QED
        BY <3>3, <3>5, <4>1
    <3>8. DOMAIN calls' = DOMAIN calls
      BY <3>3 DEF Becomes
    <3>9. TrialAgrees'
      <4>1. trial' = [of |-> trial'.of, source |-> trial'.source, sample |-> trial'.sample, custom |-> trial'.custom,
                      locked |-> trial'.locked, asked |-> trial'.asked, same |-> trial'.same, result |-> trial'.result,
                      current |-> trial'.current]
        BY <3>4
      <4>2. ActiveData(trial)' = ActiveData(trial')
        BY DEF ActiveData
      <4> QED
        BY <1>3, <3>1, <3>5, <3>7, <3>8, <4>1, <4>2 DEF TrialAgrees
    <3> QED
      BY <3>3, <3>6, <3>9
  <2>4. CASE CloseTrial
    <3>1. /\ panel = "trial" /\ trial' = NoTrial
          /\ calls' = [n \in DOMAIN calls |-> IF calls[n].op = "preview" THEN NoCall ELSE calls[n]]
      BY <2>4 DEF CloseTrial
    <3>2. \A n \in DOMAIN calls : calls[n].op \in Waits => calls[n].op = "preview"
      BY <1>0, <3>1 DEF WindowsWait, Waits, WindowOf
    <3>3. PICK none : none = NoCall
      OBVIOUS
    <3>4. none = [op |-> none.op, of |-> none.of, answer |-> none.answer] /\ none.op = "none"
      BY <3>3 DEF NoCall
    <3>5. Left(calls', {})
      BY <1>0, <3>1, <3>3, <3>4 DEF Left, CallForm, Same
    <3>6. Becomes({}, NoCall) /\ NoCall.op = "none"
      BY <1>0, <3>3, <3>4, <3>5, LeftIs
    <3>7. \A n \in DOMAIN calls : calls'[n].op \notin Waits
      BY <3>1, <3>2, <3>3, <3>4 DEF Waits
    <3>8. DOMAIN calls' = DOMAIN calls
      BY <3>1
    <3>9. WindowsWait'
      BY <3>7, <3>8 DEF WindowsWait, Waits
    <3>10. TrialAgrees'
      BY <3>1, <3>7, <3>8 DEF TrialAgrees, NoTrial, Waits, Sources
    <3> QED
      BY <3>6, <3>9, <3>10
  <2>5. ASSUME NEW n \in DOMAIN calls, HearTrial(n) \/ TrialFails(n)
        PROVE  \E gone, c : Becomes(gone, c) /\ c.op # "save" /\ WindowsWait' /\ TrialAgrees'
    <3>1. calls[n].op = "preview" /\ calls' = Without(n)
      BY <2>5 DEF HearTrial, TrialFails, Hears
    <3>2. PICK c : Becomes({n}, c) /\ c.op = "none"
      BY <1>0, <3>1, Ended
    <3>3. n \in {n} \cap DOMAIN calls
      OBVIOUS
    <3>4. WindowsWait'
      BY <1>0, <3>1, <3>2, <3>3, IdleAfter DEF Waits
    <3>5. \A m \in DOMAIN calls : calls'[m].op # "preview"
      BY <1>0, <3>1, <3>2 DEF WindowsWait, Waits, Becomes, Same
    <3>6. /\ \E result, current : trial' = [of |-> t.of, source |-> t.source, sample |-> t.sample, custom |-> t.custom,
                                           locked |-> t.locked, asked |-> FALSE, same |-> t.same, result |-> result,
                                           current |-> current]
          /\ trial'.current => trial'.result = <<t.source, ActiveData(t)>> /\ ActiveData(t) # "bad"
      <4>1. CASE HearTrial(n) /\ t.same
        <5>1. trial' = [t EXCEPT !.asked = FALSE, !.result = <<calls[n].of[2], calls[n].of[3]>>, !.current = TRUE]
          BY <1>2, <4>1 DEF HearTrial, FitsRevision
        <5>2. calls[n].of[2] = t.source /\ calls[n].of[3] = ActiveData(t)
          BY <1>3, <3>1, <4>1
        <5>3. trial' = [of |-> t.of, source |-> t.source, sample |-> t.sample, custom |-> t.custom, locked |-> t.locked,
                        asked |-> FALSE, same |-> t.same, result |-> <<t.source, ActiveData(t)>>, current |-> TRUE]
          BY <1>3, <5>1, <5>2
        <5>4. trial'.result = <<t.source, ActiveData(t)>>
          BY <5>3
        <5> QED
          BY <1>3, <4>1, <5>3, <5>4
      <4>2. CASE ~(HearTrial(n) /\ t.same)
        <5>1. trial' = [t EXCEPT !.asked = FALSE]
          BY <1>2, <2>5, <4>2 DEF HearTrial, TrialFails, FitsRevision
        <5>2. trial' = [of |-> t.of, source |-> t.source, sample |-> t.sample, custom |-> t.custom, locked |-> t.locked,
                        asked |-> FALSE, same |-> t.same, result |-> t.result, current |-> t.current]
          BY <1>3, <5>1
        <5>3. trial'.result = t.result /\ trial'.current = t.current
          BY <5>2
        <5>4. \E result, current : trial' = [of |-> t.of, source |-> t.source, sample |-> t.sample, custom |-> t.custom,
                                             locked |-> t.locked, asked |-> FALSE, same |-> t.same, result |-> result,
                                             current |-> current]
          BY <5>2
        <5> QED
          BY <1>3, <5>3, <5>4
      <4> QED
        BY <4>1, <4>2
    <3>7. DOMAIN calls' = DOMAIN calls
      BY <3>2 DEF Becomes
    <3>8. /\ trial'.source = t.source /\ trial'.sample = t.sample /\ trial'.custom = t.custom /\ trial'.same = t.same
          /\ trial' = [of |-> trial'.of, source |-> trial'.source, sample |-> trial'.sample, custom |-> trial'.custom,
                       locked |-> trial'.locked, asked |-> trial'.asked, same |-> trial'.same, result |-> trial'.result,
                       current |-> trial'.current]
      BY <3>6
    <3>9. ActiveData(trial)' = ActiveData(t)
      BY <3>8 DEF ActiveData
    <3>10. trial'.source \in Sources /\ (trial'.same => ActiveData(t) # "bad")
      BY <1>3, <3>8
    <3>11. TrialAgrees'
      BY <3>5, <3>6, <3>7, <3>8, <3>9, <3>10 DEF TrialAgrees
    <3> QED
      BY <3>2, <3>4, <3>11
  <2> QED
    BY <2>1, <2>2, <2>3, <2>4, <2>5
<1>5. SubjectsAreLines'
  BY <1>0, <1>1, <1>4, SubjectsRest
<1>6. QuotaKept'
  BY <1>0, <1>1, QuotaRests
<1> QED
  BY <1>4, <1>5, <1>6 DEF TemplatesHold, Becomes

(* The server *)

\* Requests that are answered, and nothing of the browser that changes.
LEMMA Answered ==
  ASSUME TemplatesHold, Left(calls', {}), UNCHANGED <<panel, draft, trial>>
  PROVE  /\ CallForm' /\ WindowsWait' /\ TrialAgrees'
         /\ models' = models => SubjectsAreLines'
         /\ models' \in Seq({"", "line", "gone"}) => SubjectsAreLines'
<1>1. CallForm /\ WindowsWait /\ TrialAgrees /\ SubjectsAreLines
  BY DEF TemplatesHold
<1>2. Becomes({}, NoCall) /\ NoCall.op = "none"
  BY <1>1, LeftIs DEF NoCall
<1>3. CallForm'
  BY <1>2 DEF Becomes
<1>4. WindowsWait'
  BY <1>1, <1>2, WindowsRest DEF Waits
<1>5. TrialAgrees'
  BY <1>1, <1>2, TrialRests
<1>6. DOMAIN calls' = DOMAIN calls
  BY <1>2 DEF Becomes
<1>7. \A n \in DOMAIN calls : calls'[n].op = "save" => calls'[n].of.subject \in {"", "line"}
  BY <1>1, <1>2 DEF Becomes, Same, SubjectsAreLines
<1>8. models' \in Seq({"", "line", "gone"}) => SubjectsAreLines'
  BY <1>1, <1>6, <1>7 DEF SubjectsAreLines
<1> QED
  BY <1>1, <1>3, <1>4, <1>5, <1>8 DEF SubjectsAreLines

LEMMA OneAnswer ==
  ASSUME CallForm, NEW n \in DOMAIN calls, NEW v, Answer(n, v)
  PROVE  Left(calls', {})
<1>1. calls' = [m \in DOMAIN calls |-> IF m = n THEN [calls[n] EXCEPT !.answer = {v}] ELSE calls[m]]
  BY DEF Answer, CallForm
<1>2. PICK c : c = [calls[n] EXCEPT !.answer = {v}]
  OBVIOUS
<1>3. c = [op |-> c.op, of |-> c.of, answer |-> c.answer] /\ Same(c, calls[n])
  <2>1. calls[n] = [op |-> calls[n].op, of |-> calls[n].of, answer |-> calls[n].answer]
    BY DEF CallForm
  <2>2. c = [op |-> calls[n].op, of |-> calls[n].of, answer |-> {v}]
    BY <1>2, <2>1
  <2> QED
    BY <2>2 DEF Same
<1>4. calls' = [m \in DOMAIN calls |-> IF m = n THEN c ELSE calls[m]]
  BY <1>1, <1>2
<1> QED
  BY <1>3, <1>4 DEF Left, CallForm, Same

LEMMA UploadAnswer ==
  ASSUME CallForm, NEW u, NEW v, AnswerUpload(u, v)
  PROVE  Left(calls', {})
<1>1. calls' = [n \in DOMAIN calls |-> IF calls[n].op = "upload" /\ calls[n].of = u THEN [calls[n] EXCEPT !.answer = {v}] ELSE calls[n]]
  BY DEF AnswerUpload
<1>2. ASSUME NEW n \in DOMAIN calls
      PROVE  calls'[n] = [op |-> calls'[n].op, of |-> calls'[n].of, answer |-> calls'[n].answer] /\ Same(calls'[n], calls[n])
  <2>1. PICK c : c = [calls[n] EXCEPT !.answer = {v}]
    OBVIOUS
  <2>2. c = [op |-> c.op, of |-> c.of, answer |-> c.answer] /\ Same(c, calls[n])
    BY <2>1 DEF CallForm, Same
  <2>3. calls'[n] \in {c, calls[n]}
    BY <1>1, <2>1
  <2> QED
    BY <2>2, <2>3 DEF CallForm, Same
<1> QED
  BY <1>1, <1>2 DEF Left

\* A template is written over another, or added.
LEMMA ModelsKinds ==
  ASSUME NEW S, NEW s \in Seq(S), NEW v \in S
  PROVE  /\ Append(s, v) \in Seq(S) /\ \A t : [s EXCEPT ![t] = v] \in Seq(S)
         /\ \A t \in DOMAIN s : s[t] \in S
<1>1. Append(s, v) \in Seq(S)
  OBVIOUS
<1>2. s \in [1..Len(s) -> S] /\ Len(s) \in Nat
  OBVIOUS
<1>3. ASSUME NEW t PROVE [s EXCEPT ![t] = v] \in Seq(S)
  <2>1. [s EXCEPT ![t] = v] \in [1..Len(s) -> S]
    BY <1>2
  <2> QED
    BY <1>2, <2>1
<1> QED
  BY <1>1, <1>3

LEMMA ServerSteps ==
  ASSUME TemplatesHold, NEW n \in DOMAIN calls, ServerReads(n) \/ ServerSaves(n)
  PROVE  TemplatesHold'
<1>1. \E v : Answer(n, v)
  BY DEF ServerReads, ServerSaves
<1>2. UNCHANGED <<panel, draft, trial, attached, uploads, chosenFile>>
  BY DEF ServerReads, ServerSaves, templateServerVars
<1>3. CallForm /\ SubjectsAreLines /\ QuotaKept
  BY DEF TemplatesHold
<1>4. Left(calls', {})
  BY <1>1, <1>3, OneAnswer
<1>5. models' \in Seq({"", "line", "gone"})
  <2>1. models \in Seq({"", "line", "gone"})
    BY <1>3 DEF SubjectsAreLines
  <2>2. CASE ServerReads(n)
    BY <2>1, <2>2 DEF ServerReads, templateServerVars
  <2>3. CASE ServerSaves(n)
    <3>1. PICK d : d = calls[n].of
      OBVIOUS
    <3>2. d.subject \in {"", "line", "gone"}
      BY <1>3, <2>3, <3>1 DEF ServerSaves, SubjectsAreLines
    <3>3. models' = Append(models, d.subject) \/ models' = [models EXCEPT ![d.id] = d.subject] \/ models' = models
      BY <2>3, <3>1 DEF ServerSaves
    <3>4. PICK S : S = {"", "line", "gone"}
      OBVIOUS
    <3>5. models \in Seq(S) /\ d.subject \in S
      BY <2>1, <3>2, <3>4
    <3>6. models' \in Seq(S)
      BY <3>3, <3>5, ModelsKinds
    <3> QED
      BY <3>4, <3>6
  <2> QED
    BY <2>2, <2>3
<1>6. QuotaKept'
  BY <1>2, <1>3, QuotaRests DEF QuotaKept
<1> QED
  BY <1>2, <1>4, <1>5, <1>6, Answered DEF TemplatesHold

(* The room of a template *)

LEMMA TotalIsInt ==
  ASSUME attached \in [Uploads -> Nat]
  PROVE  Total \in Int /\ Total = SumFunctionOnSet(attached, Uploads) /\ Integral(attached, Uploads)
<1>1. Integral(attached, Uploads) /\ DOMAIN attached = Uploads
  BY DEF Integral
<1> QED
  BY <1>1, SumIsInt, SumOfFunction, TemplatesAssumption DEF Total

LEMMA TotalChanged ==
  ASSUME attached \in [Uploads -> Nat], NEW u \in Uploads, NEW v \in Nat, attached' = [attached EXCEPT ![u] = v]
  PROVE  attached' \in [Uploads -> Nat] /\ Total' = Total - attached[u] + v
<1>1. attached' \in [Uploads -> Nat] /\ attached'[u] = v /\ \A x \in Uploads \ {u} : attached'[x] = attached[x]
  OBVIOUS
<1>2. SumFunctionOnSet(attached', Uploads) = SumFunctionOnSet(attached, Uploads) - attached[u] + attached'[u]
  <2>1. PICK h : h = attached'
    OBVIOUS
  <2>2. h[u] \in Int /\ \A x \in Uploads \ {u} : h[x] = attached[x]
    BY <1>1, <2>1
  <2>3. Integral(attached, Uploads) /\ IsFiniteSet(Uploads)
    BY TotalIsInt, TemplatesAssumption
  <2>4. SumFunctionOnSet(h, Uploads) = SumFunctionOnSet(attached, Uploads) - attached[u] + h[u]
    BY <2>2, <2>3, SumChanged
  <2> QED
    BY <2>1, <2>4
<1>3. Total' = SumFunctionOnSet(attached', Uploads)
  BY <1>1, SumOfFunction DEF Total
<1> QED
  BY <1>1, <1>2, <1>3, TotalIsInt

\* Attachments are only taken away.
LEMMA QuotaShrinks ==
  ASSUME QuotaKept, NEW u, attached' = [attached EXCEPT ![u] = 0], uploads' = uploads, chosenFile' = chosenFile
  PROVE  QuotaKept'
<1>1. attached \in [Uploads -> Nat] /\ Limit \in Nat
  BY TemplatesAssumption DEF QuotaKept
<1>2. attached' \in [Uploads -> Nat] /\ Total' <= Total /\ Total' \in Int /\ Total \in Int
  <2>1. CASE u \in Uploads
    <3>1. attached' \in [Uploads -> Nat] /\ Total' = Total - attached[u] + 0
      BY <1>1, <2>1, TotalChanged
    <3>2. Total \in Int /\ attached[u] \in Nat
      BY <1>1, <2>1, TotalIsInt
    <3> QED
      BY <3>1, <3>2
  <2>2. CASE u \notin Uploads
    <3>1. attached' = attached
      BY <1>1, <2>2
    <3>2. Total' = Total
      BY <3>1 DEF Total
    <3>3. Total \in Int
      BY <1>1, TotalIsInt
    <3>4. \A x, y \in Int : x = y => x <= y
      OBVIOUS
    <3>5. Total' \in Int /\ Total' <= Total
      BY <3>2, <3>3, <3>4, Zenon
    <3>6. attached' \in [Uploads -> Nat]
      BY <1>1, <3>1
    <3> QED
      BY <3>3, <3>5, <3>6
  <2> QED
    BY <2>1, <2>2
<1>3. \A v \in Uploads : uploads[v].stage = "measured" => Total' <= uploads[v].total
  BY <1>2 DEF QuotaKept, Additions
<1>4. Total' <= Limit
  BY <1>1, <1>2 DEF QuotaKept
<1>5. \A v \in Uploads : uploads[v].stage # "none" => attached'[v] = 0
  BY <1>1 DEF QuotaKept
<1> QED
  BY <1>2, <1>3, <1>4, <1>5 DEF QuotaKept

LEMMA RemovalSteps ==
  ASSUME TemplatesHold, NEW n \in DOMAIN calls, ServerRemoves(n)
  PROVE  TemplatesHold'
<1>1. \E v : Answer(n, v)
  BY DEF ServerRemoves
<1>2. UNCHANGED <<panel, draft, trial, uploads, chosenFile>>
  BY DEF ServerRemoves
<1>3. CallForm /\ SubjectsAreLines /\ QuotaKept
  BY DEF TemplatesHold
<1>4. Left(calls', {})
  BY <1>1, <1>3, OneAnswer
<1>5. PICK k : k = calls[n].of
  OBVIOUS
<1>6. models' \in Seq({"", "line", "gone"})
  <2>1. models' = models \/ models' = [models EXCEPT ![k] = "gone"]
    BY <1>5 DEF ServerRemoves
  <2>2. models \in Seq({"", "line", "gone"})
    BY <1>3 DEF SubjectsAreLines
  <2>3. PICK S : S = {"", "line", "gone"}
    OBVIOUS
  <2>4. models \in Seq(S) /\ "gone" \in S
    BY <2>2, <2>3
  <2>5. models' \in Seq(S)
    BY <2>1, <2>4, ModelsKinds
  <2> QED
    BY <2>3, <2>5
<1>7. QuotaKept'
  <2>1. attached' = attached \/ attached' = [attached EXCEPT ![k] = 0]
    BY <1>5 DEF ServerRemoves
  <2>2. CASE attached' = attached
    BY <1>2, <1>3, <2>2, QuotaRests DEF QuotaKept
  <2>3. CASE attached' = [attached EXCEPT ![k] = 0]
    BY <1>2, <1>3, <2>3, QuotaShrinks
  <2> QED
    BY <2>1, <2>2, <2>3
<1> QED
  BY <1>2, <1>4, <1>6, <1>7, Answered DEF TemplatesHold

\* What an addition becomes, while the attachments stay.
LEMMA AdditionIs ==
  ASSUME QuotaKept, NEW u \in Uploads, NEW a \in Additions, uploads' = [uploads EXCEPT ![u] = a],
         attached' = attached, chosenFile' = chosenFile,
         a.stage # "none" => attached[u] = 0,
         a.stage \in {"locked", "measured"} =>
           \A v \in Uploads \ {u} : uploads[v].stage \notin {"locked", "measured"},
         a.stage = "measured" => Total <= a.total
  PROVE  QuotaKept'
<1>1. uploads \in [Uploads -> Additions] /\ attached \in [Uploads -> Nat]
  BY DEF QuotaKept
<1>2. uploads' = [v \in Uploads |-> IF v = u THEN a ELSE uploads[v]]
  BY <1>1
<1>3. uploads' \in [Uploads -> Additions]
  BY <1>1
<1>4. Total' = Total
  BY DEF Total
<1>5. \A v \in Uploads : uploads'[v].stage # "none" => attached'[v] = 0
  BY <1>2 DEF QuotaKept
<1>6. \A v, w \in Uploads : uploads'[v].stage \in {"locked", "measured"} /\ uploads'[w].stage \in {"locked", "measured"} => v = w
  BY <1>2 DEF QuotaKept
<1>7. \A v \in Uploads : uploads'[v].stage = "measured" => Total' <= uploads'[v].total
  BY <1>2, <1>4 DEF QuotaKept
<1> QED
  BY <1>1, <1>3, <1>4, <1>5, <1>6, <1>7 DEF QuotaKept

LEMMA AdditionKinds ==
  /\ NoUpload \in Additions /\ NoUpload.stage = "none"
  /\ \A s \in Nat : LET a == [NoUpload EXCEPT !.stage = "waiting", !.size = s] IN a \in Additions /\ a.stage = "waiting"
  /\ \A a \in Additions, n \in Nat : LET b == [a EXCEPT !.stage = "measured", !.total = n] IN
       b \in Additions /\ b.stage = "measured" /\ b.total = n
  /\ \A a \in Additions : LET b == [a EXCEPT !.stage = "locked"] IN b \in Additions /\ b.stage = "locked"
BY DEF NoUpload, Additions

\* An addition begins where there is no attachment.
LEMMA AdditionBegins ==
  ASSUME QuotaKept, NEW u \in DOMAIN uploads, NEW s \in Nat, uploads[u] = NoUpload, attached[u] = 0,
         uploads' = [uploads EXCEPT ![u] = [NoUpload EXCEPT !.stage = "waiting", !.size = s]],
         attached' = attached, chosenFile' = chosenFile
  PROVE  QuotaKept'
<1>1. u \in Uploads
  BY DEF QuotaKept
<1>2. PICK a : a = [NoUpload EXCEPT !.stage = "waiting", !.size = s]
  OBVIOUS
<1>3. a \in Additions /\ a.stage = "waiting"
  BY <1>2, AdditionKinds
<1> QED
  BY <1>1, <1>2, <1>3, AdditionIs

LEMMA SubmitFileStep ==
  ASSUME TemplatesHold, SubmitFile
  PROVE  TemplatesHold'
<1>1. CallForm /\ WindowsWait /\ TrialAgrees /\ SubjectsAreLines /\ QuotaKept /\ Left(calls, {})
  BY LeftAll DEF TemplatesHold
<1>2. PICK u \in DOMAIN uploads :
        /\ uploads[u] = NoUpload /\ attached[u] = 0
        /\ uploads' = [uploads EXCEPT ![u] = [NoUpload EXCEPT !.stage = "waiting", !.size = chosenFile]]
        /\ Send(calls, Call("upload", u))
  BY DEF SubmitFile
<1>3. UNCHANGED <<models, attached, panel, draft, trial, chosenFile>> /\ panel = "file" /\ ~Uploading
  BY DEF SubmitFile
<1>4. QuotaKept'
  BY <1>1, <1>2, <1>3, AdditionBegins DEF QuotaKept
<1>5. PICK c : Becomes({}, c) /\ c.op = "upload"
  BY <1>1, <1>2, CallSent
<1>6. ~Waiting
  BY <1>1, <1>3, IdleWindows
<1>7. WindowsWait'
  BY <1>3, <1>5, <1>6, WindowAsks DEF Waits, WindowOf
<1>8. TrialAgrees' /\ SubjectsAreLines'
  BY <1>1, <1>3, <1>5, TrialRests, SubjectsRest
<1> QED
  BY <1>4, <1>5, <1>7, <1>8 DEF TemplatesHold, Becomes

LEMMA OthersStep ==
  ASSUME TemplatesHold, OtherUploads
  PROVE  TemplatesHold'
<1>1. CallForm /\ QuotaKept
  BY DEF TemplatesHold
<1>2. PICK u \in DOMAIN uploads, s \in Sizes :
        /\ uploads[u] = NoUpload /\ attached[u] = 0
        /\ uploads' = [uploads EXCEPT ![u] = [NoUpload EXCEPT !.stage = "waiting", !.size = s]]
  BY DEF OtherUploads
<1>3. UNCHANGED <<models, attached, calls, panel, draft, trial, chosenFile>>
  BY DEF OtherUploads
<1>4. s \in Nat
  BY TemplatesAssumption
<1>5. QuotaKept'
  BY <1>1, <1>2, <1>3, <1>4, AdditionBegins
<1>6. Left(calls', {})
  BY <1>1, <1>3, LeftAll
<1> QED
  BY <1>3, <1>5, <1>6, Answered DEF TemplatesHold

LEMMA AdditionSteps ==
  ASSUME TemplatesHold, NEW u \in DOMAIN uploads, LockTemplate(u) \/ Measure(u)
  PROVE  TemplatesHold'
<1>1. CallForm /\ QuotaKept
  BY DEF TemplatesHold
<1>2. UNCHANGED <<models, attached, calls, panel, draft, trial, chosenFile>>
  BY DEF LockTemplate, Measure
<1>3. u \in Uploads /\ uploads[u] \in Additions /\ attached \in [Uploads -> Nat] /\ DOMAIN uploads = Uploads
      /\ uploads = [v \in Uploads |-> uploads[v]]
  BY <1>1 DEF QuotaKept
<1>4. QuotaKept'
  <2>1. CASE LockTemplate(u)
    <3>1. PICK a : a = [uploads[u] EXCEPT !.stage = "locked"]
      OBVIOUS
    <3>2. a \in Additions /\ a.stage = "locked"
      BY <1>3, <3>1, AdditionKinds
    <3>3. uploads' = [uploads EXCEPT ![u] = a]
      BY <1>3, <2>1, <3>1 DEF LockTemplate
    <3>4. \A v \in Uploads : uploads[v].stage \notin {"locked", "measured"}
      BY <1>3, <2>1 DEF LockTemplate, RowIsOpen, RowHeld
    <3>5. attached[u] = 0
      BY <1>1, <1>3, <2>1 DEF LockTemplate, QuotaKept
    <3> QED
      BY <1>1, <1>2, <1>3, <3>2, <3>3, <3>4, <3>5, AdditionIs
  <2>2. CASE Measure(u)
    <3>1. Total \in Nat
      <4>1. \A v \in Uploads : attached[v] \in Nat
        BY <1>3
      <4>2. SumFunctionOnSet(attached, Uploads) \in Nat
        BY <4>1, SumNotNegative, TemplatesAssumption
      <4> QED
        BY <1>3, <4>2, TotalIsInt
    <3>2. PICK a : a = [uploads[u] EXCEPT !.stage = "measured", !.total = Total]
      OBVIOUS
    <3>3. a \in Additions /\ a.stage = "measured" /\ a.total = Total
      BY <1>3, <3>1, <3>2, AdditionKinds
    <3>4. uploads' = [uploads EXCEPT ![u] = a]
      <4>1. uploads' = [uploads EXCEPT ![u].stage = "measured", ![u].total = Total]
        BY <2>2 DEF Measure
      <4> QED
        BY <1>3, <3>2, <4>1
    <3>5. \A v \in Uploads \ {u} : uploads[v].stage \notin {"locked", "measured"}
      BY <1>1, <1>3, <2>2 DEF Measure, QuotaKept
    <3>6. attached[u] = 0
      BY <1>1, <1>3, <2>2 DEF Measure, QuotaKept
    <3>7. Total <= a.total
      BY <3>1, <3>3
    <3> QED
      BY <1>1, <1>2, <1>3, <3>3, <3>4, <3>5, <3>6, <3>7, AdditionIs
  <2> QED
    BY <2>1, <2>2
<1>5. Left(calls', {})
  BY <1>1, <1>2, LeftAll
<1> QED
  BY <1>2, <1>4, <1>5, Answered DEF TemplatesHold

\* What was measured leaves room, and nobody else adds.
LEMMA EndStep ==
  ASSUME TemplatesHold, NEW u \in DOMAIN uploads, EndUpload(u)
  PROVE  TemplatesHold'
<1>1. CallForm /\ QuotaKept
  BY DEF TemplatesHold
<1>2. UNCHANGED <<models, panel, draft, trial, chosenFile>> /\ uploads' = [uploads EXCEPT ![u] = NoUpload]
      /\ \E v : AnswerUpload(u, v)
  BY DEF EndUpload
<1>3. u \in Uploads /\ uploads[u] \in Additions /\ attached \in [Uploads -> Nat] /\ uploads \in [Uploads -> Additions]
      /\ Limit \in Nat
  BY <1>1, TemplatesAssumption DEF QuotaKept
<1>4. QuotaKept'
  <2>1. CASE attached' = attached
    BY <1>1, <1>2, <1>3, <2>1, AdditionKinds, AdditionIs
  <2>2. CASE attached' # attached
    <3>1. /\ uploads[u].stage = "measured" /\ uploads[u].size <= Limit - uploads[u].total
          /\ attached' = [attached EXCEPT ![u] = uploads[u].size]
      BY <2>2 DEF EndUpload
    <3>2. uploads[u].size \in Nat /\ uploads[u].total \in Nat
      BY <1>3 DEF Additions
    <3>3. attached' \in [Uploads -> Nat] /\ Total' = Total - attached[u] + uploads[u].size
      BY <1>3, <3>1, <3>2, TotalChanged
    <3>4. attached[u] = 0 /\ Total <= uploads[u].total /\ Total \in Int
      BY <1>1, <1>3, <3>1, TotalIsInt DEF QuotaKept
    <3>5. Total' <= Limit
      BY <1>3, <3>1, <3>2, <3>3, <3>4
    <3>6. uploads' \in [Uploads -> Additions]
      BY <1>2, <1>3, AdditionKinds
    <3>7. \A v \in Uploads : uploads'[v] = IF v = u THEN NoUpload ELSE uploads[v]
      BY <1>2, <1>3
    <3>8. \A v \in Uploads : uploads'[v].stage \notin {"locked", "measured"}
      BY <1>1, <1>3, <3>1, <3>7, AdditionKinds DEF QuotaKept
    <3>9. \A v \in Uploads : uploads'[v].stage # "none" => attached'[v] = 0
      <4> SUFFICES ASSUME NEW v \in Uploads, uploads'[v].stage # "none" PROVE attached'[v] = 0
        OBVIOUS
      <4>1. v # u /\ uploads[v].stage # "none"
        BY <3>7, AdditionKinds
      <4> QED
        BY <1>1, <1>3, <3>1, <4>1 DEF QuotaKept
    <3> QED
      BY <1>1, <1>2, <3>3, <3>5, <3>6, <3>8, <3>9 DEF QuotaKept
  <2> QED
    BY <2>1, <2>2
<1>5. Left(calls', {})
  BY <1>1, <1>2, UploadAnswer
<1> QED
  BY <1>2, <1>4, <1>5, Answered DEF TemplatesHold

LEMMA TemplateSteps ==
  ASSUME TemplatesHold, TemplateNext
  PROVE  TemplatesHold'
<1>1. CASE RefreshList \/ RemoveRow
  BY <1>1, ListSteps
<1>2. CASE OpenTemplate \/ TypeText \/ InsertVariable \/ SubmitTemplate \/ CancelTemplate
  BY <1>2, FormSteps
<1>3. CASE OpenTrial \/ EditTrial \/ SubmitTrial \/ CloseTrial
  BY <1>3, TrialSteps
<1>4. CASE OpenFiles \/ CloseFiles \/ OpenFile \/ ChooseFile \/ CancelFile
  BY <1>4, FileSteps
<1>5. CASE SubmitFile
  BY <1>5, SubmitFileStep
<1>6. CASE OtherUploads
  BY <1>6, OthersStep
<1>7. ASSUME NEW n \in DOMAIN calls,
             \/ HearList(n) \/ ListFails(n) \/ HearSaved(n) \/ SaveFails(n) \/ HearTrial(n) \/ TrialFails(n)
             \/ HearFile(n) \/ FileFails(n) \/ HearRemoved(n) \/ RemovalFails(n)
             \/ ServerReads(n) \/ ServerSaves(n) \/ ServerRemoves(n)
      PROVE  TemplatesHold'
  <2>1. CASE HearList(n) \/ ListFails(n) \/ HearRemoved(n) \/ RemovalFails(n)
    BY <2>1, ListSteps
  <2>2. CASE HearSaved(n) \/ SaveFails(n)
    BY <2>2, FormSteps
  <2>3. CASE HearTrial(n) \/ TrialFails(n)
    BY <2>3, TrialSteps
  <2>4. CASE HearFile(n) \/ FileFails(n)
    BY <2>4, FileSteps
  <2>5. CASE ServerReads(n) \/ ServerSaves(n)
    BY <2>5, ServerSteps
  <2>6. CASE ServerRemoves(n)
    BY <2>6, RemovalSteps
  <2> QED
    BY <1>7, <2>1, <2>2, <2>3, <2>4, <2>5, <2>6
<1>8. CASE \E u \in DOMAIN uploads : LockTemplate(u) \/ Measure(u) \/ EndUpload(u)
  BY <1>8, AdditionSteps, EndStep
<1> QED
  BY <1>1, <1>2, <1>3, <1>4, <1>5, <1>6, <1>7, <1>8 DEF TemplateNext

LEMMA TemplatesBegin ==
  ASSUME TemplateInit
  PROVE  TemplatesHold
<1>1. \A n \in DOMAIN calls : calls[n].op \in {"list", "none"}
      /\ calls[n] = [op |-> calls[n].op, of |-> calls[n].of, answer |-> calls[n].answer]
  <2>1. \A c \in {Call("list", "templates"), NoCall} :
          c.op \in {"list", "none"} /\ c = [op |-> c.op, of |-> c.of, answer |-> c.answer]
    BY DEF Call, NoCall
  <2>2. \A n \in DOMAIN calls : calls[n] \in {Call("list", "templates"), NoCall}
    BY DEF TemplateInit
  <2> QED
    BY <2>1, <2>2
<1>2. CallForm
  <2>1. calls = [n \in 1..MaxCalls |-> calls[n]]
    BY DEF TemplateInit
  <2> QED
    BY <1>1, <2>1 DEF CallForm
<1>3. WindowsWait
  BY <1>1 DEF WindowsWait, Waits
<1>4. TrialAgrees
  BY <1>1 DEF TemplateInit, TrialAgrees, NoTrial, Sources
<1>5. SubjectsAreLines
  <2>1. models \in Seq({"", "line", "gone"})
    <3>1. <<>> \in Seq({"", "line", "gone"}) /\ <<"line">> \in Seq({"", "line", "gone"})
      OBVIOUS
    <3> QED
      BY <3>1 DEF TemplateInit
  <2>2. draft = [id |-> 0, subject |-> "", message |-> "", dirty |-> FALSE, saving |-> FALSE]
    BY DEF TemplateInit, NoDraft
  <2> QED
    BY <1>1, <2>1, <2>2 DEF SubjectsAreLines
<1>6. QuotaKept
  <2>1. attached = [u \in Uploads |-> 0] /\ uploads = [u \in Uploads |-> NoUpload] /\ chosenFile = 0
    BY DEF TemplateInit
  <2>2. attached \in [Uploads -> Nat] /\ uploads \in [Uploads -> Additions] /\ \A u \in Uploads : uploads[u].stage = "none"
    BY <2>1, AdditionKinds
  <2>3. Total = 0
    <3>1. SumFunctionOnSet(attached, Uploads) = 0
      BY <2>1, <2>2, TotalIsInt, SumOfZeros, TemplatesAssumption
    <3> QED
      BY <2>2, <3>1, TotalIsInt
  <2> QED
    BY <2>1, <2>2, <2>3, TemplatesAssumption DEF QuotaKept
<1> QED
  BY <1>2, <1>3, <1>4, <1>5, <1>6 DEF TemplatesHold

LEMMA TemplatesSay ==
  ASSUME TemplatesHold
  PROVE  TemplatesAreSound
<1>1. Total <= Limit
  BY DEF TemplatesHold, QuotaKept
<1>2. trial.current => trial.result = <<trial.source, ActiveData(trial)>> /\ ActiveData(trial) # "bad"
  BY DEF TemplatesHold, TrialAgrees
<1>3. \A t \in DOMAIN models : models[t] # "block"
  <2>1. models \in Seq({"", "line", "gone"})
    BY DEF TemplatesHold, SubjectsAreLines
  <2>2. \A t \in DOMAIN models : models[t] \in {"", "line", "gone"}
    BY <2>1, ModelsKinds
  <2> QED
    BY <2>2
<1> QED
  BY <1>1, <1>2, <1>3 DEF TemplatesAreSound

------------------------------------------------------------------------------
(* The editor of values *)

ValueRows ==
  [name : Names \cup {""}, type : Types, text : Texts, pending : BOOLEAN, asked : BOOLEAN]

\* What the editor holds is the object its rows stand for, unless the rows are refused.
EditorAgrees ==
  /\ raw \subseteq Objects /\ (\A f, g \in raw : f = g)
  /\ rows \in Seq(ValueRows) /\ preserved \in Objects
  /\ suggested \subseteq Names /\ advanced \in BOOLEAN
  /\ ~advanced /\ problem # "wrong" => Says(raw, rows, preserved)
  /\ missingOnly => problem = "missing"
  /\ valid => HasAll(raw, suggested)
  /\ valid /\ ~advanced => problem = ""

\* A finite set put in some order has its elements and no other.
LEMMA InSomeOrder ==
  ASSUME NEW S, IsFiniteSet(S)
  PROVE  /\ SetToSeq(S) \in Seq(S)
         /\ \A x \in S : \E i \in 1 .. Len(SetToSeq(S)) : SetToSeq(S)[i] = x
<1> DEFINE n == Cardinality(S)
<1>1. n \in Nat /\ ExistsBijection(1 .. n, S)
  BY FS_CardinalityType
<1>2. \E f \in [1 .. n -> S] : IsInjective(f)
  BY <1>1 DEF ExistsBijection, Bijection, Injection
<1>3. SetToSeq(S) \in [1 .. n -> S] /\ IsInjective(SetToSeq(S))
  BY <1>2 DEF SetToSeq
<1>4. SetToSeq(S) \in Injection(1 .. n, S)
  BY <1>3 DEF Injection
<1>5. Cardinality(1 .. n) = n
  BY <1>1, FS_Interval
<1>6. SetToSeq(S) \in Surjection(1 .. n, S)
  BY <1>4, <1>5, FS_Injection
<1> HIDE DEF n
<1>7. SetToSeq(S) \in Seq(S) /\ Len(SetToSeq(S)) = n
  BY <1>1, <1>3
<1> QED
  BY <1>6, <1>7 DEF Surjection

LEMMA Joined ==
  ASSUME NEW S, NEW a \in Seq(S), NEW b \in Seq(S)
  PROVE  /\ a \o b \in Seq(S) /\ Len(a \o b) = Len(a) + Len(b)
         /\ \A i \in 1 .. Len(a) : (a \o b)[i] = a[i]
         /\ \A i \in 1 .. Len(a \o b) : i > Len(a) => (a \o b)[i] = b[i - Len(a)]
<1>1. a \o b \in Seq(S)
  OBVIOUS
<1>2. Len(a \o b) = Len(a) + Len(b)
  OBVIOUS
<1>3. \A i \in 1 .. Len(a) : (a \o b)[i] = a[i]
  OBVIOUS
<1>4. \A i \in 1 .. Len(a \o b) : i > Len(a) => (a \o b)[i] = b[i - Len(a)]
  OBVIOUS
<1> QED
  BY <1>1, <1>2, <1>3, <1>4

\* Rows that are added for what a template asks for say nothing, and the others say the same.
LEMMA EnsuredRows ==
  ASSUME NEW rs \in Seq(ValueRows), NEW s, s \subseteq Names
  PROVE  LET E == Ensure(rs, s) IN
           /\ E \in Seq(ValueRows) /\ Len(rs) <= Len(E)
           /\ \A i \in 1 .. Len(rs) : /\ E[i].name = rs[i].name /\ E[i].type = rs[i].type
                                      /\ E[i].text = rs[i].text /\ E[i].pending = rs[i].pending
           /\ \A i \in 1 .. Len(E) : i > Len(rs) => E[i].pending
<1> DEFINE marked == [i \in DOMAIN rs |-> [rs[i] EXCEPT !.asked =
                   rs[i].name \in s /\ \A j \in 1..(i - 1) : rs[j].name # rs[i].name]]
           absent == SetToSeq(s \ {rs[i].name : i \in DOMAIN rs})
           added == [i \in DOMAIN absent |-> [NewRow(absent[i], "text", "") EXCEPT !.pending = TRUE, !.asked = TRUE]]
<1>1. Ensure(rs, s) = marked \o added
  BY DEF Ensure
<1>2. absent \in Seq(Names)
  <2>1. s \ {rs[i].name : i \in DOMAIN rs} \in SUBSET Names
    OBVIOUS
  <2>2. IsFiniteSet(s \ {rs[i].name : i \in DOMAIN rs})
    BY <2>1, FS_Subset, EditorAssumption
  <2> QED
    BY <2>1, <2>2, InSomeOrder
<1>3. marked \in Seq(ValueRows) /\ Len(marked) = Len(rs)
      /\ \A i \in 1 .. Len(rs) : /\ marked[i].name = rs[i].name /\ marked[i].type = rs[i].type
                                 /\ marked[i].text = rs[i].text /\ marked[i].pending = rs[i].pending
  <2>1. \A i \in DOMAIN rs : rs[i] \in ValueRows
    OBVIOUS
  <2>2. \A r \in ValueRows, b \in BOOLEAN :
          LET q == [r EXCEPT !.asked = b] IN
            /\ q \in ValueRows /\ q.name = r.name /\ q.type = r.type /\ q.text = r.text
            /\ q.pending = r.pending
    BY DEF ValueRows
  <2>3. \A i \in DOMAIN rs :
          /\ marked[i] \in ValueRows /\ marked[i].name = rs[i].name /\ marked[i].type = rs[i].type
          /\ marked[i].text = rs[i].text /\ marked[i].pending = rs[i].pending
    <3> TAKE i \in DOMAIN rs
    <3>1. PICK b \in BOOLEAN : b = (rs[i].name \in s /\ \A j \in 1..(i - 1) : rs[j].name # rs[i].name)
      BY Zenon
    <3>2. marked[i] = [rs[i] EXCEPT !.asked = b]
      BY <3>1
    <3> HIDE DEF marked
    <3> QED
      BY <2>1, <2>2, <3>2
  <2>4. DOMAIN marked = 1 .. Len(rs)
    OBVIOUS
  <2>5. marked = [i \in 1 .. Len(rs) |-> marked[i]]
    BY <2>4
  <2> HIDE DEF marked
  <2>6. DOMAIN rs = 1 .. Len(rs) /\ Len(rs) \in Nat
    OBVIOUS
  <2>7. marked \in [1 .. Len(rs) -> ValueRows]
    BY <2>3, <2>5, <2>6, Zenon
  <2> QED
    BY <2>3, <2>6, <2>7
<1> HIDE DEF absent
<1>4. added \in Seq(ValueRows) /\ Len(added) = Len(absent) /\ \A i \in 1 .. Len(added) : added[i].pending
  <2>1. \A n \in Names : LET q == [NewRow(n, "text", "") EXCEPT !.pending = TRUE, !.asked = TRUE] IN
          q \in ValueRows /\ q.pending
    BY DEF ValueRows, NewRow, Types, Texts
  <2>2. \A i \in 1 .. Len(absent) : added[i] \in ValueRows /\ added[i].pending
    <3> TAKE i \in 1 .. Len(absent)
    <3>1. absent[i] \in Names /\ DOMAIN absent = 1 .. Len(absent)
      BY <1>2
    <3>2. added[i] = [NewRow(absent[i], "text", "") EXCEPT !.pending = TRUE, !.asked = TRUE]
      BY <3>1
    <3> HIDE DEF added
    <3> QED
      BY <2>1, <3>1, <3>2
  <2>3. added = [i \in 1 .. Len(absent) |-> added[i]]
    BY <1>2
  <2>4. Len(absent) \in Nat
    BY <1>2
  <2> HIDE DEF added
  <2>5. added \in [1 .. Len(absent) -> ValueRows]
    BY <2>2, <2>3, Zenon
  <2> QED
    BY <2>2, <2>4, <2>5
<1> HIDE DEF marked, added
<1>5. PICK E : E = Ensure(rs, s)
  OBVIOUS
<1>6. E = marked \o added
  BY <1>1, <1>5
<1>7. Len(marked) \in Nat /\ Len(added) \in Nat
  BY <1>3, <1>4
<1>8. /\ marked \o added \in Seq(ValueRows) /\ Len(marked \o added) = Len(marked) + Len(added)
      /\ \A i \in 1 .. Len(marked) : (marked \o added)[i] = marked[i]
      /\ \A i \in 1 .. Len(marked \o added) : i > Len(marked) => (marked \o added)[i] = added[i - Len(marked)]
  <2>1. marked \in Seq(ValueRows) /\ added \in Seq(ValueRows)
    BY <1>3, <1>4
  <2> QED
    BY <2>1, Joined
<1>9. /\ E \in Seq(ValueRows) /\ Len(E) = Len(marked) + Len(added)
      /\ \A i \in 1 .. Len(marked) : E[i] = marked[i]
      /\ \A i \in 1 .. Len(E) : i > Len(marked) => E[i] = added[i - Len(marked)]
  BY <1>6, <1>8, Zenon
<1>10. \A i \in 1 .. Len(E) : i > Len(marked) => E[i].pending
  <2> SUFFICES ASSUME NEW i \in 1 .. Len(E), i > Len(marked) PROVE E[i].pending
    OBVIOUS
  <2>1. i - Len(marked) \in 1 .. Len(added)
    BY <1>7, <1>9
  <2>2. E[i] = added[i - Len(marked)]
    BY <1>9
  <2> QED
    BY <1>4, <2>1, <2>2
<1>11. Len(rs) <= Len(E)
  BY <1>3, <1>7, <1>9
<1>12. \A i \in 1 .. Len(rs) : /\ E[i].name = rs[i].name /\ E[i].type = rs[i].type
                                /\ E[i].text = rs[i].text /\ E[i].pending = rs[i].pending
  BY <1>3, <1>9
<1>13. \A i \in 1 .. Len(E) : i > Len(rs) => E[i].pending
  BY <1>3, <1>10
<1> QED
  BY <1>5, <1>9, <1>11, <1>12, <1>13

LEMMA EnsuredSay ==
  ASSUME NEW rs \in Seq(ValueRows), NEW s, s \subseteq Names, NEW r, NEW kept, Says(r, rs, kept)
  PROVE  Says(r, Ensure(rs, s), kept)
<1> DEFINE E == Ensure(rs, s)
<1>1. /\ E \in Seq(ValueRows) /\ Len(rs) <= Len(E)
      /\ \A i \in 1 .. Len(rs) : /\ E[i].name = rs[i].name /\ E[i].type = rs[i].type
                                 /\ E[i].text = rs[i].text /\ E[i].pending = rs[i].pending
      /\ \A i \in 1 .. Len(E) : i > Len(rs) => E[i].pending
  BY EnsuredRows
<1> HIDE DEF E
<1>2. Filled(E) = Filled(rs)
  <2>1. DOMAIN E = 1 .. Len(E) /\ DOMAIN rs = 1 .. Len(rs)
    BY <1>1
  <2> QED
    BY <1>1, <2>1 DEF Filled
<1>3. Filled(rs) \subseteq 1 .. Len(rs)
  BY DEF Filled
<1>4. \A i \in Filled(rs) : E[i].name = rs[i].name /\ ValueOf(E[i]) = ValueOf(rs[i])
  BY <1>1, <1>3 DEF ValueOf
<1>5. {E[i].name : i \in Filled(E)} = {rs[i].name : i \in Filled(rs)}
  BY <1>2, <1>4
<1>6. Says(r, E, kept)
  <2>1. PICK f \in r :
          /\ DOMAIN f = DOMAIN kept \cup {rs[i].name : i \in Filled(rs)}
          /\ \A n \in DOMAIN kept : f[n] = kept[n]
          /\ \A i \in Filled(rs) : f[rs[i].name] = ValueOf(rs[i])
    BY DEF Says
  <2>2. DOMAIN f = DOMAIN kept \cup {E[i].name : i \in Filled(E)}
    BY <1>5, <2>1
  <2>3. \A i \in Filled(E) : f[E[i].name] = ValueOf(E[i])
    BY <1>2, <1>4, <2>1
  <2> QED
    BY <2>1, <2>2, <2>3 DEF Says
<1> QED
  BY <1>6 DEF E

\* The value of a row.
LEMMA RowValue ==
  ASSUME NEW row \in ValueRows
  PROVE  ValueOf(row) \in ValueKinds
BY DEF ValueRows, ValueOf, ValueKinds, Types, Texts

\* Rows that are not refused stand for one object.
LEMMA ObjectSays ==
  ASSUME NEW rs \in Seq(ValueRows), preserved \in Objects, ~Wrong(rs)
  PROVE  Object(rs) \in Objects /\ Says({Object(rs)}, rs, preserved)
<1> DEFINE named == {rs[i].name : i \in Filled(rs)}
           D == named \cup DOMAIN preserved
           o == Object(rs)
<1>1. Filled(rs) \subseteq 1 .. Len(rs) /\ DOMAIN rs = 1 .. Len(rs)
  BY DEF Filled
<1>2. \A i \in 1 .. Len(rs) : /\ rs[i] \in ValueRows /\ rs[i].name \in Names
                              /\ rs[i].name \notin DOMAIN preserved
  <2> TAKE i \in 1 .. Len(rs)
  <2>1. rs[i] \in ValueRows
    OBVIOUS
  <2>2. rs[i].name \in Names \cup {""}
    BY <2>1 DEF ValueRows
  <2>3. rs[i].name # "" /\ rs[i].name \notin DOMAIN preserved
    BY <1>1 DEF Wrong
  <2> QED
    BY <2>1, <2>2, <2>3
<1>3. \A i, j \in 1 .. Len(rs) : rs[i].name = rs[j].name => i = j
  <2> SUFFICES ASSUME NEW i \in 1 .. Len(rs), NEW j \in 1 .. Len(rs), rs[i].name = rs[j].name, j < i
               PROVE  FALSE
    OBVIOUS
  <2>1. j \in 1 .. (i - 1)
    OBVIOUS
  <2> QED
    BY <1>1, <2>1 DEF Wrong
<1>4. PICK C \in SUBSET Names : preserved \in [C -> ValueKinds]
  BY DEF Objects
<1>5. D \subseteq Names
  BY <1>1, <1>2, <1>4
<1>6. o = [n \in D |-> IF n \in DOMAIN preserved THEN preserved[n]
                       ELSE ValueOf(rs[CHOOSE i \in Filled(rs) : rs[i].name = n])]
  BY DEF Object
<1>7. \A i \in Filled(rs) : o[rs[i].name] = ValueOf(rs[i]) /\ ValueOf(rs[i]) \in ValueKinds
  <2> TAKE i \in Filled(rs)
  <2>1. (CHOOSE k \in Filled(rs) : rs[k].name = rs[i].name) = i
    BY <1>1, <1>3
  <2>2. rs[i].name \in D /\ rs[i].name \notin DOMAIN preserved
    BY <1>1, <1>2
  <2>3. ValueOf(rs[i]) \in ValueKinds
    BY <1>1, <1>2, RowValue
  <2> HIDE DEF o
  <2> QED
    BY <1>6, <2>1, <2>2, <2>3
<1>8. \A n \in DOMAIN preserved : o[n] = preserved[n] /\ o[n] \in ValueKinds
  BY <1>4, <1>6
<1> HIDE DEF o
<1>9. DOMAIN o = D
  BY <1>6
<1>10. \A n \in D : o[n] \in ValueKinds
  BY <1>7, <1>8
<1>11. o = [n \in D |-> o[n]]
  BY <1>6
<1>12. o \in [D -> ValueKinds]
  BY <1>10, <1>11, Zenon
<1>13. o \in Objects
  BY <1>5, <1>12 DEF Objects
<1>14. Says({o}, rs, preserved)
  BY <1>7, <1>8, <1>9 DEF Says
<1> QED
  BY <1>13, <1>14 DEF o

\* loadFields
BaseRows(f) ==
  [i \in 1..Len(SetToSeq(DOMAIN f \ Roots)) |->
     RowOf(SetToSeq(DOMAIN f \ Roots)[i], f[SetToSeq(DOMAIN f \ Roots)[i]])]

LEMMA LoadedRow ==
  ASSUME NEW n \in Names, NEW v \in ValueKinds
  PROVE  /\ RowOf(n, v) \in ValueRows /\ RowOf(n, v).name = n /\ ~RowOf(n, v).pending
         /\ ValueOf(RowOf(n, v)) = v
BY DEF RowOf, NewRow, ValueRows, ValueOf, ValueKinds, Types, Texts

LEMMA BaseSays ==
  ASSUME NEW f \in Objects
  PROVE  /\ BaseRows(f) \in Seq(ValueRows)
         /\ Restrict(f, DOMAIN f \cap Roots) \in Objects
         /\ Says({f}, BaseRows(f), Restrict(f, DOMAIN f \cap Roots))
<1> DEFINE q == SetToSeq(DOMAIN f \ Roots)
           B == BaseRows(f)
           kept == Restrict(f, DOMAIN f \cap Roots)
<1>1. PICK D \in SUBSET Names : f \in [D -> ValueKinds]
  BY DEF Objects
<1>2. IsFiniteSet(D \ Roots)
  BY FS_Subset, EditorAssumption
<1>3. q \in Seq(D \ Roots) /\ \A n \in D \ Roots : \E i \in 1 .. Len(q) : q[i] = n
  BY <1>1, <1>2, InSomeOrder
<1> HIDE DEF q
<1>4. B = [i \in 1 .. Len(q) |-> RowOf(q[i], f[q[i]])]
  BY DEF BaseRows, q
<1> HIDE DEF B
<1>5. \A i \in 1 .. Len(q) : /\ B[i] \in ValueRows /\ B[i].name = q[i] /\ ~B[i].pending
                             /\ ValueOf(B[i]) = f[q[i]] /\ q[i] \in D \ Roots
  <2> TAKE i \in 1 .. Len(q)
  <2>1. q[i] \in D \ Roots /\ q[i] \in Names /\ f[q[i]] \in ValueKinds
    BY <1>1, <1>3
  <2>2. B[i] = RowOf(q[i], f[q[i]])
    BY <1>4
  <2> QED
    BY <2>1, <2>2, LoadedRow
<1>6. Len(q) \in Nat /\ DOMAIN B = 1 .. Len(q) /\ B = [i \in 1 .. Len(q) |-> B[i]]
  BY <1>3, <1>4
<1>7. B \in [1 .. Len(q) -> ValueRows]
  BY <1>5, <1>6, Zenon
<1>8. B \in Seq(ValueRows)
  BY <1>6, <1>7
<1>9. kept = [n \in D \cap Roots |-> f[n]] /\ kept \in [D \cap Roots -> ValueKinds]
  BY <1>1 DEF Restrict
<1>10. kept \in Objects
  BY <1>9 DEF Objects
<1>11. Filled(B) = 1 .. Len(q)
  BY <1>5, <1>6 DEF Filled
<1>12. {B[i].name : i \in Filled(B)} = D \ Roots
  <2>1. \A i \in Filled(B) : B[i].name \in D \ Roots
    BY <1>5, <1>11
  <2>2. \A n \in D \ Roots : \E i \in Filled(B) : B[i].name = n
    BY <1>3, <1>5, <1>11
  <2> QED
    BY <2>1, <2>2
<1>13. DOMAIN f = DOMAIN kept \cup {B[i].name : i \in Filled(B)}
  BY <1>1, <1>9, <1>12
<1>14. (\A n \in DOMAIN kept : f[n] = kept[n]) /\ \A i \in Filled(B) : f[B[i].name] = ValueOf(B[i])
  BY <1>5, <1>9, <1>11
<1> HIDE DEF kept
<1>15. Says({f}, B, kept)
  BY <1>13, <1>14 DEF Says
<1> QED
  BY <1>8, <1>10, <1>15 DEF B, kept

------------------------------------------------------------------------------
LEMMA CheckedMissing ==
  ASSUME NEW rs, NEW e, NEW only, CheckMissing(rs, e, only), only => e = "missing"
  PROVE  /\ problem' \in {"", "missing", e}
         /\ problem' # "wrong" => e # "wrong"
         /\ missingOnly' => problem' = "missing"
<1>1. CASE IsMissing(rs) /\ (e = "" \/ only)
  BY <1>1 DEF CheckMissing
<1>2. CASE ~(IsMissing(rs) /\ (e = "" \/ only)) /\ ~IsMissing(rs) /\ only
  BY <1>2 DEF CheckMissing
<1>3. CASE ~(IsMissing(rs) /\ (e = "" \/ only)) /\ ~(~IsMissing(rs) /\ only)
  BY <1>3 DEF CheckMissing
<1> QED
  BY <1>1, <1>2, <1>3

LEMMA EmittedAgrees ==
  ASSUME EditorAgrees, ~advanced, NEW rs \in Seq(ValueRows), EmitFields(rs)
  PROVE  EditorAgrees'
<1>1. /\ rows' = rs /\ raw' = IF Wrong(rs) THEN raw ELSE {Object(rs)}
      /\ CheckMissing(rs, IF Wrong(rs) THEN "wrong" ELSE "", FALSE)
      /\ valid' = Validate(raw', problem', suggested)
      /\ UNCHANGED <<preserved, advanced, suggested>>
  BY DEF EmitFields
<1>2. PICK e \in {"", "wrong"} : CheckMissing(rs, e, FALSE) /\ (e = "wrong" <=> Wrong(rs))
  <2>1. CASE Wrong(rs)
    BY <1>1, <2>1
  <2>2. CASE ~Wrong(rs)
    BY <1>1, <2>2
  <2> QED
    BY <2>1, <2>2
<1>3. problem' # "wrong" => ~Wrong(rs)
  BY <1>2, CheckedMissing
<1>4. missingOnly' => problem' = "missing"
  BY <1>2, CheckedMissing
<1>5. raw' \subseteq Objects /\ (\A f, g \in raw' : f = g)
      /\ (~Wrong(rs) => Says(raw', rs, preserved))
  BY <1>1, ObjectSays DEF EditorAgrees
<1>6. valid' => problem' = "" /\ HasAll(raw', suggested)
  BY <1>1 DEF Validate
<1> QED
  BY <1>1, <1>3, <1>4, <1>5, <1>6 DEF EditorAgrees, HasAll

LEMMA RowIn ==
  ASSUME NEW S, NEW s \in Seq(S), NEW i \in DOMAIN s
  PROVE  s[i] \in S
OBVIOUS

LEMMA RowsKept ==
  ASSUME NEW S, NEW s \in Seq(S), NEW x \in S
  PROVE  /\ Append(s, x) \in Seq(S)
         /\ \A i \in DOMAIN s : [s EXCEPT ![i] = x] \in Seq(S) /\ RemoveAt(s, i) \in Seq(S)
BY DEF RemoveAt

LEMMA RowStepsAgree ==
  ASSUME EditorAgrees, AddField \/ RemoveField \/ EditField
  PROVE  EditorAgrees'
<1>1. rows \in Seq(ValueRows)
  BY DEF EditorAgrees
<1>2. CASE AddField
  <2>1. NewRow("", "text", "") \in ValueRows
    BY DEF NewRow, ValueRows, Types, Texts
  <2>2. Append(rows, NewRow("", "text", "")) \in Seq(ValueRows)
    BY <1>1, <2>1, RowsKept
  <2> QED
    BY <1>2, <2>2, EmittedAgrees DEF AddField
<1>3. CASE RemoveField
  <2>1. PICK i \in DOMAIN rows : EmitFields(RemoveAt(rows, i))
    BY <1>3 DEF RemoveField
  <2>2. RemoveAt(rows, i) \in Seq(ValueRows)
    BY <1>1 DEF RemoveAt
  <2> QED
    BY <1>3, <2>1, <2>2, EmittedAgrees DEF RemoveField
<1>4. CASE EditField
  <2>1. PICK i \in DOMAIN rows, n \in Names \cup {""}, t \in Types, x \in Texts :
          EmitFields([rows EXCEPT ![i] = [@ EXCEPT !.name = n, !.type = t, !.text = x, !.pending = FALSE]])
    BY <1>4 DEF EditField
  <2>2. rows[i] \in ValueRows
    BY <1>1, RowIn
  <2>3. PICK r : r = [rows[i] EXCEPT !.name = n, !.type = t, !.text = x, !.pending = FALSE]
    OBVIOUS
  <2>4. r \in ValueRows
    BY <2>2, <2>3 DEF ValueRows
  <2>5. EmitFields([rows EXCEPT ![i] = r])
    BY <2>1, <2>3
  <2>6. [rows EXCEPT ![i] = r] \in Seq(ValueRows)
    BY <1>1, <2>4, RowsKept
  <2> QED
    BY <1>4, <2>5, <2>6, EmittedAgrees DEF EditField
<1> QED
  BY <1>2, <1>3, <1>4

\* The way back to the rows shows what the text says.
LEMMA ToFieldsAgrees ==
  ASSUME EditorAgrees, ToFields
  PROVE  EditorAgrees' /\ (advanced' # advanced => Says(raw', rows', preserved'))
<1>1. advanced /\ UNCHANGED <<raw, suggested>>
  BY DEF ToFields
<1>2. PICK f \in raw :
       \/ /\ advanced' = FALSE
          /\ LoadFields(f)
          /\ CheckMissing(Loaded(f), "", FALSE)
          /\ valid' = Validate(raw, problem', suggested)
       \/ /\ problem' = "" /\ missingOnly' = FALSE
          /\ UNCHANGED <<rows, preserved, advanced, valid>>
  BY DEF ToFields
<1>3. raw = {f} /\ f \in Objects
  BY DEF EditorAgrees
<1>4. CASE advanced' = FALSE /\ LoadFields(f) /\ CheckMissing(Loaded(f), "", FALSE)
           /\ valid' = Validate(raw, problem', suggested)
  <2>1. Loaded(f) = Ensure(BaseRows(f), suggested)
    BY DEF Loaded, BaseRows
  <2>2. /\ BaseRows(f) \in Seq(ValueRows) /\ Restrict(f, DOMAIN f \cap Roots) \in Objects
        /\ Says({f}, BaseRows(f), Restrict(f, DOMAIN f \cap Roots))
    BY <1>3, BaseSays
  <2>3. rows' \in Seq(ValueRows) /\ preserved' \in Objects /\ Says(raw', rows', preserved')
    BY <1>1, <1>3, <1>4, <2>1, <2>2, EnsuredRows, EnsuredSay DEF LoadFields, EditorAgrees
  <2>4. missingOnly' => problem' = "missing"
    BY <1>4, CheckedMissing
  <2>5. valid' => problem' = "" /\ HasAll(raw', suggested')
    BY <1>1, <1>4 DEF Validate, HasAll
  <2> QED
    BY <1>1, <1>4, <2>3, <2>4, <2>5 DEF EditorAgrees
<1>5. CASE problem' = "" /\ missingOnly' = FALSE /\ UNCHANGED <<rows, preserved, advanced, valid>>
  BY <1>1, <1>5 DEF EditorAgrees, HasAll
<1> QED
  BY <1>2, <1>4, <1>5

LEMMA TextStepsAgree ==
  ASSUME EditorAgrees, UpdateRaw \/ ToText
  PROVE  EditorAgrees' /\ (advanced' # advanced => Says(raw, rows, preserved) /\ raw' = raw)
<1>1. CASE UpdateRaw
  <2>1. raw' \subseteq Objects /\ (\A f, g \in raw' : f = g)
    BY <1>1 DEF UpdateRaw
  <2>2. valid' => HasAll(raw', suggested')
    BY <1>1 DEF UpdateRaw, Validate, HasAll
  <2> QED
    BY <1>1, <2>1, <2>2 DEF UpdateRaw, EditorAgrees
<1>2. CASE ToText
  <2>1. ~advanced /\ advanced' = TRUE /\ UNCHANGED <<raw, rows, preserved, suggested>>
        /\ problem # "wrong"
    BY <1>2 DEF ToText, MayLeaveFields, EditorAgrees
  <2>2. valid' => HasAll(raw', suggested')
    BY <1>2, <2>1 DEF ToText, Validate, HasAll
  <2>3. missingOnly' => problem' = "missing"
    BY <1>2 DEF ToText
  <2> QED
    BY <2>1, <2>2, <2>3 DEF EditorAgrees
<1> QED
  BY <1>1, <1>2

LEMMA SuggestAgrees ==
  ASSUME EditorAgrees, Suggest
  PROVE  EditorAgrees' /\ advanced' = advanced
<1>1. PICK s \in Suggestions :
    /\ suggested' = s
    /\ \/ /\ advanced
          /\ valid' = (Validate(raw, problem, suggested) /\ HasAll(raw, s))
          /\ UNCHANGED <<rows, problem, missingOnly>>
       \/ /\ ~advanced
          /\ rows' = Ensure(rows, s)
          /\ CheckMissing(rows', problem, missingOnly)
          /\ valid' = Validate(raw, problem', s)
    /\ UNCHANGED <<raw, preserved, advanced>>
  BY DEF Suggest
<1>2. s \subseteq Names
  BY EditorAssumption
<1>3. CASE advanced
  <2>1. valid' => HasAll(raw', suggested')
    BY <1>1, <1>3 DEF HasAll
  <2> QED
    BY <1>1, <1>2, <1>3, <2>1 DEF EditorAgrees
<1>4. CASE ~advanced
  <2>1. rows' = Ensure(rows, s) /\ CheckMissing(rows', problem, missingOnly) /\ valid' = Validate(raw, problem', s)
    BY <1>1, <1>4
  <2>2. missingOnly => problem = "missing"
    BY DEF EditorAgrees
  <2>3. (problem' # "wrong" => problem # "wrong") /\ (missingOnly' => problem' = "missing")
    <3>1. CASE IsMissing(rows') /\ (problem = "" \/ missingOnly)
      BY <2>1, <2>2, <3>1 DEF CheckMissing
    <3>2. CASE ~IsMissing(rows') /\ missingOnly
      BY <2>1, <2>2, <3>2 DEF CheckMissing
    <3>3. CASE ~(IsMissing(rows') /\ (problem = "" \/ missingOnly)) /\ ~(~IsMissing(rows') /\ missingOnly)
      BY <2>1, <2>2, <3>3 DEF CheckMissing
    <3> QED
      BY <3>1, <3>2, <3>3
  <2>4. rows' \in Seq(ValueRows)
    BY <1>2, <2>1, EnsuredRows DEF EditorAgrees
  <2>5. problem' # "wrong" => Says(raw', rows', preserved')
    BY <1>1, <1>2, <1>4, <2>1, <2>3, EnsuredSay DEF EditorAgrees
  <2>6. valid' => problem' = "" /\ HasAll(raw', suggested')
    BY <1>1, <2>1 DEF Validate, HasAll
  <2> QED
    BY <1>1, <1>2, <1>4, <2>3, <2>4, <2>5, <2>6 DEF EditorAgrees
<1> QED
  BY <1>3, <1>4

LEMMA EditorSteps ==
  ASSUME EditorAgrees, EditorNext
  PROVE  EditorAgrees' /\ ModesKeepValues
<1>1. CASE AddField \/ RemoveField \/ EditField
  <2>1. advanced' = advanced
    <3>1. CASE AddField
      BY <3>1 DEF AddField, EmitFields
    <3>2. CASE RemoveField
      BY <3>2 DEF RemoveField, EmitFields
    <3>3. CASE EditField
      BY <3>3 DEF EditField, EmitFields
    <3> QED
      BY <1>1, <3>1, <3>2, <3>3
  <2> QED
    BY <1>1, <2>1, RowStepsAgree DEF ModesKeepValues
<1>2. CASE ToFields
  BY <1>2, ToFieldsAgrees DEF ModesKeepValues, ToFields
<1>3. CASE UpdateRaw \/ ToText
  BY <1>3, TextStepsAgree DEF ModesKeepValues, UpdateRaw, ToText
<1>4. CASE Suggest
  BY <1>4, SuggestAgrees DEF ModesKeepValues
<1> QED
  BY <1>1, <1>2, <1>3, <1>4 DEF EditorNext

LEMMA EditorBegins == EditorInit => EditorAgrees
<1> SUFFICES ASSUME EditorInit PROVE EditorAgrees
  OBVIOUS
<1>1. PICK f \in Written, s \in Suggestions :
    /\ raw = {f} /\ suggested = s
    /\ advanced = (\E n \in DOMAIN f \ Roots : f[n] = "object" /\ n \notin s)
    /\ preserved = Restrict(f, DOMAIN f \cap Roots)
    /\ rows = IF advanced THEN <<>> ELSE Ensure(BaseRows(f), s)
    /\ problem = IF s \subseteq DOMAIN f THEN "" ELSE "missing"
    /\ missingOnly = (~advanced /\ ~(s \subseteq DOMAIN f))
    /\ valid = (s \subseteq DOMAIN f)
  BY DEF EditorInit, BaseRows
<1>2. f \in Objects /\ s \subseteq Names
  BY EditorAssumption
<1>3. /\ BaseRows(f) \in Seq(ValueRows) /\ preserved \in Objects
      /\ Says({f}, BaseRows(f), preserved)
  BY <1>1, <1>2, BaseSays
<1>4. rows \in Seq(ValueRows) /\ (~advanced => Says(raw, rows, preserved))
  <2>1. CASE advanced
    <3>1. rows = <<>>
      BY <1>1, <2>1, Zenon
    <3> QED
      BY <2>1, <3>1
  <2>2. CASE ~advanced
    BY <1>1, <1>2, <1>3, <2>2, EnsuredRows, EnsuredSay
  <2> QED
    BY <2>1, <2>2
<1>5. advanced \in BOOLEAN
  BY <1>1, Zenon
<1>6. (valid => problem = "" /\ HasAll(raw, suggested)) /\ (missingOnly => problem = "missing")
  BY <1>1 DEF HasAll
<1> QED
  BY <1>1, <1>2, <1>3, <1>4, <1>5, <1>6 DEF EditorAgrees

LEMMA EditorSays == EditorAgrees => ValuesAreAsShown
BY DEF EditorAgrees, ValuesAreAsShown

------------------------------------------------------------------------------
(* The dashboard *)

\* Modules that show held and wait for the requests waiting do what the address asks for.
Fits(held, waiting) ==
  /\ held = [m \in Scopes |-> held[m]]
  /\ \A r \in waiting : r = [module |-> r.module, of |-> r.of, read |-> r.read] /\ r.module \in Scopes
  /\ \A r, q \in waiting : r.module = q.module => r = q
  /\ \A r \in waiting : r.of = Now(r.module)
  /\ \A m \in Scopes :
       /\ held[m] = Empty <=> Now(m) = NoKey
       /\ held[m].stage = "success" => held[m].of = Now(m)
       /\ held[m].stage = "loading" <=> \E r \in waiting : r.module = m

Choice(held, c) == held["budgets"].stage = "success" => held["budgets"].value = c

DashboardFits == Fits(modules, loads) /\ Choice(modules, choices)

\* The key of the finances does not depend on what they show.
LEMMA FinanceKey ==
  ASSUME NEW a, NEW c, NEW admin, NEW f, NEW g
  PROVE  Key("finance", a, c, admin, f) = Key("finance", a, c, admin, g)
BY DEF Key

\* The modules that follow show what they showed, or start again with the key they have then.
LEMMA Followed ==
  ASSUME NEW a, NEW c, NEW admin, NEW held, NEW waiting, NEW again,
         held = [m \in Scopes |-> held[m]], Follow(a, c, admin, held, waiting, again)
  PROVE  \E key : \E ended \in SUBSET Scopes :
           /\ \A m \in Scopes : Now(m)' = key[m]
           /\ \A m \in Scopes \ ended : key[m] = Now(m)
           /\ modules' = [m \in Scopes |-> IF m \in ended THEN Blank(m, key[m]) ELSE held[m]]
           /\ loads' = {r \in waiting : r.module \notin ended}
                         \cup {Request(m, key[m]) : m \in {n \in ended : key[n] # NoKey}}
           /\ choices' = c
<1> DEFINE now == [m \in Scopes |-> Now(m)]
           start == Key("finance", a, c, admin, Empty)
           finance == IF "finance" \in again \/ start # now["finance"] THEN Blank("finance", start) ELSE held["finance"]
           key == [m \in Scopes |-> Key(m, a, c, admin, finance)]
           ended == {m \in Scopes : m \in again \/ key[m] # now[m]}
<1>1. /\ modules' = [m \in Scopes |-> IF m \in ended THEN Blank(m, key[m]) ELSE held[m]]
      /\ AskAnew(waiting, ended, {Request(m, key[m]) : m \in {n \in ended : key[n] # NoKey}})
      /\ context' = a /\ choices' = c /\ administrator' = admin
  BY DEF Follow
<1>2. "finance" \in Scopes
  BY DEF Scopes
<1>3. start = key["finance"]
  BY <1>2, FinanceKey
<1>4. modules'["finance"] = finance
  BY <1>1, <1>2, <1>3
<1>5. \A m \in Scopes : Now(m)' = key[m]
  BY <1>1, <1>4 DEF Now
<1>6. \A m \in Scopes \ ended : key[m] = Now(m)
  OBVIOUS
<1> HIDE DEF key, ended
<1>7. ended \in SUBSET Scopes
  BY DEF ended
<1> QED
  BY <1>1, <1>5, <1>6, <1>7 DEF AskAnew

LEMMA FollowFits ==
  ASSUME NEW a, NEW c, NEW admin, NEW held, NEW waiting, NEW again,
         Fits(held, waiting), Choice(held, c), Follow(a, c, admin, held, waiting, again)
  PROVE  DashboardFits'
<1>1. PICK key : \E ended \in SUBSET Scopes :
           /\ \A m \in Scopes : Now(m)' = key[m]
           /\ \A m \in Scopes \ ended : key[m] = Now(m)
           /\ modules' = [m \in Scopes |-> IF m \in ended THEN Blank(m, key[m]) ELSE held[m]]
           /\ loads' = {r \in waiting : r.module \notin ended}
                         \cup {Request(m, key[m]) : m \in {n \in ended : key[n] # NoKey}}
           /\ choices' = c
  BY Followed DEF Fits
<1> PICK ended \in SUBSET Scopes :
           /\ \A m \in Scopes : Now(m)' = key[m]
           /\ \A m \in Scopes \ ended : key[m] = Now(m)
           /\ modules' = [m \in Scopes |-> IF m \in ended THEN Blank(m, key[m]) ELSE held[m]]
           /\ loads' = {r \in waiting : r.module \notin ended}
                         \cup {Request(m, key[m]) : m \in {n \in ended : key[n] # NoKey}}
           /\ choices' = c
  BY <1>1
<1>2. \A k : \A m \in ended : /\ Request(m, k).module = m /\ Request(m, k).of = k
                          /\ Request(m, k) = [module |-> Request(m, k).module, of |-> Request(m, k).of, read |-> Request(m, k).read]
  BY DEF Request
<1>3. \A r \in loads' : \/ r \in waiting /\ r.module \notin ended
                        \/ r.module \in ended /\ r = Request(r.module, key[r.module]) /\ key[r.module] # NoKey
  BY <1>1, <1>2
<1>4. modules' = [m \in Scopes |-> modules'[m]]
  BY <1>1
<1>5. \A r \in loads' : r = [module |-> r.module, of |-> r.of, read |-> r.read] /\ r.module \in Scopes
  BY <1>2, <1>3 DEF Fits
<1>6. \A r, q \in loads' : r.module = q.module => r = q
  BY <1>3 DEF Fits
<1>7. \A r \in loads' : r.of = Now(r.module)'
  <2> TAKE r \in loads'
  <2>1. CASE r \in waiting /\ r.module \notin ended
    <3>1. r.of = Now(r.module) /\ r.module \in Scopes
      BY <2>1 DEF Fits
    <3> QED
      BY <1>1, <2>1, <3>1
  <2>2. CASE r.module \in ended /\ r = Request(r.module, key[r.module])
    BY <1>1, <1>2, <2>2
  <2> QED
    BY <1>3, <2>1, <2>2
<1>8. ASSUME NEW m \in Scopes
      PROVE  /\ modules'[m] = Empty <=> Now(m)' = NoKey
             /\ modules'[m].stage = "success" => modules'[m].of = Now(m)'
             /\ modules'[m].stage = "loading" <=> \E r \in loads' : r.module = m
  <2>1. CASE m \in ended
    <3>1. modules'[m] = Blank(m, key[m]) /\ Now(m)' = key[m]
      BY <1>1, <2>1
    <3>2. Blank(m, key[m]).stage # "success" /\ (Blank(m, key[m]) = Empty <=> key[m] = NoKey)
          /\ (Blank(m, key[m]).stage = "loading" <=> key[m] # NoKey)
      BY DEF Blank, Empty, Loading
    <3>3. (\E r \in loads' : r.module = m) <=> key[m] # NoKey
      <4>1. key[m] # NoKey => Request(m, key[m]) \in loads'
        BY <1>1, <2>1
      <4>2. \A r \in loads' : r.module = m => key[m] # NoKey
        BY <1>3, <2>1
      <4> QED
        BY <1>2, <2>1, <4>1, <4>2
    <3> QED
      BY <3>1, <3>2, <3>3
  <2>2. CASE m \notin ended
    <3>1. modules'[m] = held[m] /\ Now(m)' = Now(m)
      BY <1>1, <2>2
    <3>2. (\E r \in loads' : r.module = m) <=> \E r \in waiting : r.module = m
      <4>1. \A r \in waiting : r.module = m => r \in loads'
        BY <1>1, <2>2
      <4>2. \A r \in loads' : r.module = m => r \in waiting
        BY <1>3, <2>2
      <4> QED
        BY <4>1, <4>2
    <3> QED
      BY <3>1, <3>2 DEF Fits
  <2> QED
    BY <2>1, <2>2
<1>9. Choice(modules', c)
  <2>1. "budgets" \in Scopes
    BY DEF Scopes
  <2>2. CASE "budgets" \in ended
    <3>1. modules'["budgets"] = Blank("budgets", key["budgets"])
      BY <1>1, <2>1, <2>2
    <3> QED
      BY <3>1 DEF Choice, Blank, Empty, Loading
  <2>3. CASE "budgets" \notin ended
    BY <1>1, <2>1, <2>3 DEF Choice
  <2> QED
    BY <2>2, <2>3
<1>10. Fits(modules, loads)'
  BY <1>4, <1>5, <1>6, <1>7, <1>8 DEF Fits
<1> QED
  BY <1>1, <1>9, <1>10 DEF DashboardFits, Choice

LEMMA PageFits ==
  ASSUME NEW a, NEW admin, NEW again, DashboardFits, OnPage(a, admin, again)
  PROVE  DashboardFits'
BY FollowFits DEF DashboardFits, OnPage

LEMMA AnswerFits ==
  ASSUME DashboardFits, ServerAnswers
  PROVE  DashboardFits'
<1>1. PICK r \in loads : loads' = (loads \ {r}) \cup {[r EXCEPT !.read = {Content(r)}]}
  BY DEF ServerAnswers
<1>2. UNCHANGED <<context, choices, administrator, modules>>
  BY DEF ServerAnswers
<1>3. \A m : Now(m)' = Now(m)
  BY <1>2 DEF Now
<1>4. r = [module |-> r.module, of |-> r.of, read |-> r.read] /\ r.module \in Scopes
  BY DEF DashboardFits, Fits
<1>5. PICK q : q = [r EXCEPT !.read = {Content(r)}]
  OBVIOUS
<1>6. q.module = r.module /\ q.of = r.of /\ q = [module |-> q.module, of |-> q.of, read |-> q.read]
  BY <1>4, <1>5
<1>7. loads' = (loads \ {r}) \cup {q}
  BY <1>1, <1>5
<1>8. Fits(modules, loads')
  BY <1>4, <1>6, <1>7 DEF DashboardFits, Fits
<1>9. Fits(modules, loads)'
  BY <1>2, <1>3, <1>8 DEF Fits
<1> QED
  BY <1>2, <1>9 DEF DashboardFits, Choice

\* A module that waits for an answer has a key.
LEMMA WaitingHasKey ==
  ASSUME DashboardFits, NEW r \in loads
  PROVE  /\ r.module \in Scopes /\ r.of = Now(r.module) /\ Now(r.module) # NoKey
         /\ modules[r.module].stage = "loading"
         /\ \A q \in loads \ {r} : q.module # r.module
<1>1. r.module \in Scopes /\ r.of = Now(r.module) /\ modules[r.module].stage = "loading"
  BY DEF DashboardFits, Fits
<1>2. modules[r.module] # Empty
  BY <1>1 DEF Empty
<1>3. \A q \in loads \ {r} : q.module # r.module
  BY DEF DashboardFits, Fits
<1> QED
  BY <1>1, <1>2, <1>3 DEF DashboardFits, Fits

\* What a module comes to show instead of its loading fits, when its key and those of the
\* others stay.
LEMMA OneModuleFits ==
  ASSUME DashboardFits, NEW r \in loads, NEW v, v.stage \notin {"empty", "loading"},
         v.stage = "success" => v.of = Now(r.module)
  PROVE  Fits([modules EXCEPT ![r.module] = v], loads \ {r})
<1> DEFINE held == [modules EXCEPT ![r.module] = v]
<1>1. /\ r.module \in Scopes /\ Now(r.module) # NoKey
      /\ \A q \in loads \ {r} : q.module # r.module
  BY WaitingHasKey
<1>2. /\ modules = [m \in Scopes |-> modules[m]]
      /\ \A q \in loads : q = [module |-> q.module, of |-> q.of, read |-> q.read] /\ q.module \in Scopes
      /\ \A q, s \in loads : q.module = s.module => q = s
      /\ \A q \in loads : q.of = Now(q.module)
      /\ \A m \in Scopes : /\ modules[m] = Empty <=> Now(m) = NoKey
                           /\ modules[m].stage = "success" => modules[m].of = Now(m)
                           /\ modules[m].stage = "loading" <=> \E q \in loads : q.module = m
  BY DEF DashboardFits, Fits
<1>3. held = [m \in Scopes |-> IF m = r.module THEN v ELSE modules[m]]
  BY <1>1, <1>2
<1>4. v # Empty
  BY DEF Empty
<1>5. held = [m \in Scopes |-> held[m]]
  BY <1>3
<1> HIDE DEF held
<1>6. ASSUME NEW m \in Scopes
      PROVE  /\ held[m] = Empty <=> Now(m) = NoKey
             /\ held[m].stage = "success" => held[m].of = Now(m)
             /\ held[m].stage = "loading" <=> \E q \in loads \ {r} : q.module = m
  <2>1. CASE m = r.module
    BY <1>1, <1>3, <1>4, <2>1
  <2>2. CASE m # r.module
    BY <1>2, <1>3, <2>2
  <2> QED
    BY <2>1, <2>2
<1>7. Fits(held, loads \ {r})
  BY <1>2, <1>5, <1>6 DEF Fits
<1> QED
  BY <1>7 DEF held

LEMMA HearFits ==
  ASSUME DashboardFits, HearModule
  PROVE  DashboardFits'
<1>1. PICK r \in loads : \E v \in r.read :
        Follow(context, IF r.module = "budgets" THEN v ELSE choices, administrator,
               [modules EXCEPT ![r.module] = Success(r.of, v)], loads \ {r}, {})
  BY DEF HearModule
<1>2. PICK v \in r.read :
        Follow(context, IF r.module = "budgets" THEN v ELSE choices, administrator,
               [modules EXCEPT ![r.module] = Success(r.of, v)], loads \ {r}, {})
  BY <1>1
<1>3. PICK c : c = IF r.module = "budgets" THEN v ELSE choices
  OBVIOUS
<1>4. PICK s : s = Success(r.of, v)
  OBVIOUS
<1>5. s.stage = "success" /\ s.of = r.of /\ s.value = v
  BY <1>4 DEF Success
<1>6. PICK held : held = [modules EXCEPT ![r.module] = s]
  OBVIOUS
<1>7. Fits(held, loads \ {r})
  BY <1>5, <1>6, OneModuleFits, WaitingHasKey
<1>8. Choice(held, c)
  <2>1. modules = [m \in Scopes |-> modules[m]] /\ "budgets" \in Scopes
    BY DEF DashboardFits, Fits, Scopes
  <2>2. CASE r.module = "budgets"
    BY <1>3, <1>5, <1>6, <2>1, <2>2 DEF Choice
  <2>3. CASE r.module # "budgets"
    BY <1>3, <1>6, <2>1, <2>3 DEF Choice, DashboardFits
  <2> QED
    BY <2>2, <2>3
<1>9. Follow(context, c, administrator, held, loads \ {r}, {})
  BY <1>2, <1>3, <1>4, <1>6
<1> QED
  BY <1>7, <1>8, <1>9, FollowFits

\* Finances that were awaited had no cotisation, and finances that failed have none either.
LEMMA FailureFits ==
  ASSUME DashboardFits, ModuleFails
  PROVE  DashboardFits'
<1>1. PICK r \in loads : loads' = loads \ {r} /\ modules' = [modules EXCEPT ![r.module] = Failure]
  BY DEF ModuleFails
<1>2. UNCHANGED <<context, choices, administrator>>
  BY DEF ModuleFails
<1>3. Failure.stage = "failure"
  BY DEF Failure
<1>4. Fits(modules', loads')
  BY <1>1, <1>3, OneModuleFits
<1>5. modules = [m \in Scopes |-> modules[m]] /\ "finance" \in Scopes /\ "budgets" \in Scopes
  BY DEF DashboardFits, Fits, Scopes
<1>6. \A m : Now(m)' = Now(m)
  <2>1. CASE r.module = "finance"
    <3>1. modules["finance"].stage = "loading" /\ modules'["finance"] = Failure
      BY <1>1, <1>5, <2>1, WaitingHasKey
    <3> QED
      BY <1>2, <1>3, <3>1 DEF Now, Key, Cotisation
  <2>2. CASE r.module # "finance"
    <3>1. modules'["finance"] = modules["finance"]
      BY <1>1, <1>5, <2>2
    <3> QED
      BY <1>2, <3>1 DEF Now
  <2> QED
    BY <2>1, <2>2
<1>7. Fits(modules, loads)'
  BY <1>4, <1>6 DEF Fits
<1>8. Choice(modules', choices)
  <2>1. modules'["budgets"] \in {modules["budgets"], Failure}
    BY <1>1, <1>5
  <2> QED
    BY <1>3, <2>1 DEF Choice, DashboardFits
<1> QED
  BY <1>2, <1>7, <1>8 DEF DashboardFits, Choice

LEMMA OthersFit ==
  ASSUME DashboardFits, UNCHANGED <<context, choices, administrator, modules, loads>>
  PROVE  DashboardFits'
<1>1. \A m : Now(m)' = Now(m)
  BY DEF Now
<1>2. Fits(modules, loads)'
  BY <1>1 DEF DashboardFits, Fits
<1> QED
  BY <1>2 DEF DashboardFits, Choice

LEMMA DashboardSteps ==
  ASSUME DashboardFits, DashboardNext
  PROVE  DashboardFits'
<1>1. CASE GoTo
  BY <1>1, PageFits DEF GoTo
<1>2. CASE RefreshAll
  BY <1>2, PageFits DEF RefreshAll
<1>3. CASE RetryModule
  BY <1>3, PageFits DEF RetryModule
<1>4. CASE ChangeAdministrator
  BY <1>4, PageFits DEF ChangeAdministrator
<1>5. CASE ServerAnswers
  BY <1>5, AnswerFits
<1>6. CASE HearModule
  BY <1>6, HearFits
<1>7. CASE ModuleFails
  BY <1>7, FailureFits
<1>8. CASE CreateBudget
  BY <1>8, OthersFit DEF CreateBudget
<1>9. CASE PublishBudget
  BY <1>9, OthersFit DEF PublishBudget
<1> QED
  BY <1>1, <1>2, <1>3, <1>4, <1>5, <1>6, <1>7, <1>8, <1>9 DEF DashboardNext

LEMMA DashboardBegins ==
  ASSUME DashboardInit
  PROVE  DashboardFits
<1> DEFINE key == [m \in Scopes |-> Key(m, context, 0, administrator, Empty)]
<1>1. /\ modules = [m \in Scopes |-> IF key[m] = NoKey THEN Empty ELSE Loading]
      /\ loads = {Request(m, key[m]) : m \in {n \in Scopes : key[n] # NoKey}} /\ choices = 0
  <2>1. /\ modules = [m \in Scopes |-> IF Key(m, context, 0, administrator, Empty) = NoKey THEN Empty ELSE Loading]
        /\ loads = {Request(m, Key(m, context, 0, administrator, Empty)) : m \in
                     {n \in Scopes : Key(n, context, 0, administrator, Empty) # NoKey}} /\ choices = 0
    BY DEF DashboardInit
  <2>2. \A m \in Scopes : key[m] = Key(m, context, 0, administrator, Empty)
    OBVIOUS
  <2> HIDE DEF key
  <2> QED
    BY <2>1, <2>2
<1>2. "finance" \in Scopes /\ "budgets" \in Scopes
  BY DEF Scopes
<1>3. \A m \in Scopes : Now(m) = key[m]
  <2>1. modules["finance"] \in {Empty, Loading}
    BY <1>1, <1>2
  <2>2. \A m \in Scopes : Key(m, context, 0, administrator, modules["finance"]) = Key(m, context, 0, administrator, Empty)
    BY <2>1 DEF Key, Cotisation, Empty, Loading
  <2> QED
    BY <1>1, <2>2 DEF Now
<1> HIDE DEF key
<1>4. \A m \in Scopes : LET q == Request(m, key[m]) IN
        q.module = m /\ q.of = key[m] /\ q = [module |-> q.module, of |-> q.of, read |-> q.read]
  BY DEF Request
<1>5. \A r \in loads : r.module \in Scopes /\ key[r.module] # NoKey /\ r = Request(r.module, key[r.module])
  BY <1>1, <1>4
<1>6. \A m \in Scopes : key[m] # NoKey => Request(m, key[m]) \in loads
  BY <1>1
<1>7. modules = [m \in Scopes |-> modules[m]]
  BY <1>1
<1>8. ASSUME NEW m \in Scopes
      PROVE  /\ modules[m] = Empty <=> Now(m) = NoKey
             /\ modules[m].stage = "success" => modules[m].of = Now(m)
             /\ modules[m].stage = "loading" <=> \E r \in loads : r.module = m
  <2>1. CASE key[m] = NoKey
    <3>1. modules[m] = Empty /\ Now(m) = NoKey /\ ~\E r \in loads : r.module = m
      BY <1>1, <1>3, <1>5, <2>1
    <3> QED
      BY <3>1 DEF Empty
  <2>2. CASE key[m] # NoKey
    <3>1. modules[m] = Loading /\ Now(m) # NoKey /\ \E r \in loads : r.module = m
      BY <1>1, <1>3, <1>4, <1>6, <2>2
    <3> QED
      BY <3>1 DEF Empty, Loading
  <2> QED
    BY <2>1, <2>2
<1>9. Choice(modules, choices)
  <2>1. modules["budgets"] \in {Empty, Loading}
    BY <1>1, <1>2
  <2> QED
    BY <2>1 DEF Choice, Empty, Loading
<1>10. \A r, q \in loads : r.module = q.module => r = q
  BY <1>5
<1>11. \A r \in loads : r.of = Now(r.module) /\ r = [module |-> r.module, of |-> r.of, read |-> r.read]
  <2> TAKE r \in loads
  <2>1. r.module \in Scopes /\ r = Request(r.module, key[r.module])
    BY <1>5
  <2>2. LET q == Request(r.module, key[r.module]) IN
          q.of = key[r.module] /\ q = [module |-> q.module, of |-> q.of, read |-> q.read]
    BY <1>4, <2>1
  <2> QED
    BY <1>3, <2>1, <2>2
<1> QED
  BY <1>5, <1>7, <1>8, <1>9, <1>10, <1>11 DEF DashboardFits, Fits

LEMMA DashboardSays ==
  ASSUME DashboardFits
  PROVE  DashboardIsCoherent
<1>1. /\ "finance" \in Scopes /\ "payments" \in Scopes /\ "access" \in Scopes /\ "budgets" \in Scopes
  BY DEF Scopes
<1>2. \A r \in loads : r.of = Now(r.module) /\ r.module \in Scopes
  BY DEF DashboardFits, Fits
<1>3. \A m \in Scopes : /\ modules[m] = Empty <=> Now(m) = NoKey
                        /\ modules[m].stage = "success" => modules[m].of = Now(m)
                        /\ modules[m].stage = "loading" <=> \E r \in loads : r.module = m
  BY DEF DashboardFits, Fits
<1>4. modules["finance"].stage = "success" => modules["finance"].of = <<Budget(context, choices)>>
  <2>1. Now("finance") = IF Budget(context, choices) = 0 THEN NoKey ELSE <<Budget(context, choices)>>
    BY DEF Now, Key
  <2>2. modules["finance"].stage = "success" => modules["finance"] # Empty
    BY DEF Empty
  <2> QED
    BY <1>1, <1>3, <2>1, <2>2
<1>5. Now("payments") # NoKey => /\ modules["finance"].stage = "success"
                                 /\ Now("payments") = <<Budget(context, choices), modules["finance"].of[1], context.lot>>
  <2>1. Now("payments") = Cotisation(context, Budget(context, choices), modules["finance"])
    BY DEF Now, Key
  <2> QED
    BY <2>1 DEF Cotisation
<1>6. \A r \in loads : r.module = "payments" => r.of[1] = r.of[2]
  <2> SUFFICES ASSUME NEW r \in loads, r.module = "payments"
               PROVE  r.of[1] = r.of[2]
    OBVIOUS
  <2>1. Now("payments") # NoKey /\ r.of = Now("payments")
    <3>1. modules["payments"].stage = "loading"
      BY <1>1, <1>3
    <3>2. modules["payments"] # Empty
      BY <3>1 DEF Empty
    <3> QED
      BY <1>1, <1>2, <1>3, <3>2
  <2>2. modules["finance"].of[1] = Budget(context, choices)
    BY <1>4, <1>5, <2>1
  <2> QED
    BY <1>5, <2>1, <2>2
<1>7. ~administrator => modules["access"] = Empty
  BY <1>1, <1>3 DEF Now, Key
<1>8. context.budget = Unset /\ modules["budgets"].stage = "success" => Budget(context, choices) = modules["budgets"].value
  BY DEF Budget, DashboardFits, Choice
<1> QED
  BY <1>1, <1>2, <1>3, <1>4, <1>5, <1>6, <1>7, <1>8 DEF DashboardIsCoherent

------------------------------------------------------------------------------
(* The pages together *)

LEMMA ListsRest ==
  ASSUME ListFollows, FormMakesOne, UNCHANGED tableVars
  PROVE  ListFollows' /\ FormMakesOne'
<1>1. FormMakesOne'
  BY DEF FormMakesOne, tableVars, rowVars
<1>2. ListFollows'
  <2>1. UNCHANGED <<tableSourceVars, announced, stored, writesMade>>
    BY DEF tableVars, tableServerVars
  <2>2. stored' \in [TableRows -> RowStates] /\ writesMade' \in {writesMade, writesMade + 1}
    BY <2>1 DEF ListFollows
  <2> QED
    BY <2>1, <2>2, ListIdle
<1> QED
  BY <1>1, <1>2

LEMMA TemplatesRest ==
  ASSUME TemplatesHold, UNCHANGED templateVars
  PROVE  TemplatesHold'
<1>1. UNCHANGED <<trial, draft, models, attached, uploads, panel, chosenFile, calls>>
  BY DEF templateVars
<1>2. CallForm /\ chosenFile \in Nat
  BY DEF TemplatesHold, QuotaKept
<1>3. PICK c : Becomes({}, c) /\ c.op = "none"
  BY <1>1, <1>2, Rested
<1> QED
  BY <1>1, <1>2, <1>3, AllRest DEF Waits

LEMMA EditorRests ==
  ASSUME EditorAgrees, UNCHANGED editorVars
  PROVE  EditorAgrees' /\ ModesKeepValues
<1>1. ModesKeepValues
  BY DEF ModesKeepValues, editorVars
<1>2. UNCHANGED <<raw, rows, preserved, advanced, problem, missingOnly, suggested, valid>>
  BY DEF editorVars
<1>3. Says(raw, rows, preserved)' = Says(raw, rows, preserved) /\ HasAll(raw, suggested)' = HasAll(raw, suggested)
  BY <1>2 DEF Says, HasAll, Filled
<1>4. EditorAgrees'
  BY <1>2, <1>3 DEF EditorAgrees
<1> QED
  BY <1>1, <1>4

\* Each page is as it should be, the one that is open and those that rest.
PagesHold == IInv /\ ListFollows /\ FormMakesOne /\ TemplatesHold /\ EditorAgrees /\ DashboardFits

LEMMA PagesBegin == Init => PagesHold
<1> SUFFICES ASSUME Init PROVE PagesHold
  OBVIOUS
<1>1. TemplateInit /\ EditorInit /\ DashboardInit /\ TableInit
  BY DEF Init
<1> QED
  BY <1>1, InitInvariant, TablesBegin, TemplatesBegin, EditorBegins, DashboardBegins DEF PagesHold

\* Every page takes a step of its own or rests.
LEMMA EachPage ==
  ASSUME [Next]_vars
  PROVE  /\ TableNext \/ UNCHANGED tableVars
         /\ TemplateNext \/ UNCHANGED templateVars
         /\ EditorNext \/ UNCHANGED editorVars
         /\ DashboardNext \/ UNCHANGED dashboardVars
BY DEF Next, OnBudget, OnTemplates, OnValues, OnDashboard, OnLists, vars

LEMMA PagesStep ==
  ASSUME PagesHold, [Next]_vars
  PROVE  PagesHold' /\ ModesKeepValues
<1>1. IInv' /\ ListFollows /\ FormMakesOne /\ TemplatesHold /\ EditorAgrees /\ DashboardFits
  BY StepInvariant DEF PagesHold
<1>2. /\ TableNext \/ UNCHANGED tableVars
      /\ TemplateNext \/ UNCHANGED templateVars
      /\ EditorNext \/ UNCHANGED editorVars
      /\ DashboardNext \/ UNCHANGED dashboardVars
  BY EachPage
<1>3. ListFollows' /\ FormMakesOne'
  BY <1>1, <1>2, TableStepsKeepList, TableStepsKeepForm, ListsRest
<1>4. TemplatesHold'
  BY <1>1, <1>2, TemplateSteps, TemplatesRest
<1>5. EditorAgrees' /\ ModesKeepValues
  BY <1>1, <1>2, EditorSteps, EditorRests
<1>6. DashboardFits'
  <2>1. CASE UNCHANGED dashboardVars
    BY <1>1, <2>1, OthersFit DEF dashboardVars
  <2>2. CASE DashboardNext
    BY <1>1, <2>2, DashboardSteps
  <2> QED
    BY <1>2, <2>1, <2>2
<1> QED
  BY <1>1, <1>3, <1>4, <1>5, <1>6 DEF PagesHold

THEOREM PagesInvariant == Spec => []PagesHold
BY PagesBegin, PagesStep, PTL DEF Spec

\* Each page agrees with what it knows: the page of a budget, the lists, the templates within
\* the limit of their attachments, the values, and the dashboard with its address.
THEOREM BudgetPagesStayCoherent == Spec => []PagesAreCoherent
<1>1. PagesHold => PagesAreCoherent
  <2> SUFFICES ASSUME PagesHold PROVE PagesAreCoherent
    OBVIOUS
  <2>1. PageIsCoherent
    BY DEF PagesHold, IInv, HistoryFollows, PageIsCoherent, HistoryIsFresh
  <2>2. TemplatesAreSound /\ ValuesAreAsShown /\ DashboardIsCoherent /\ TablesAreCurrent
    BY TemplatesSay, EditorSays, DashboardSays, TablesSay DEF PagesHold
  <2> QED
    BY <2>1, <2>2 DEF PagesAreCoherent
<1> QED
  BY <1>1, PagesInvariant, PTL

\* Nothing is confirmed that was not previewed as the form says, no expense is deleted that is
\* not the one on display, though each takes two steps, and another way to edit values keeps
\* them.
THEOREM StepsActAsShown == Spec => StepsActOnWhatIsShown
<1>1. ASSUME PagesHold, [Next]_vars PROVE ActsOnWhatIsShown /\ ModesKeepValues
  BY <1>1, StepConfirms, StepDeletes, PagesStep DEF PagesHold, ActsOnWhatIsShown
<1> HIDE DEF ActsOnWhatIsShown, ModesKeepValues
<1>2. ASSUME PagesHold, [Next]_vars PROVE [ActsOnWhatIsShown /\ ModesKeepValues]_vars
  BY <1>1, <1>2
<1> QED
  BY <1>2, PagesInvariant, PTL DEF Spec, StepsActOnWhatIsShown
==============================================================================
