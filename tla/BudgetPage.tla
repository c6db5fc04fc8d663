------------------------------ MODULE BudgetPage ------------------------------
(***************************************************************************)
(* The page of a budget (budget-details.component.ts): the budget that the *)
(* route asks for, its expenses with their form (expense-form.component.ts)*)
(* and their deletion, the filter of its cotisations                       *)
(* (cotisation.datasource.ts) and the window of one of them.               *)
(*                                                                         *)
(* A load is numbered modulo 2, which tells the latest from the one before;*)
(* the program has no such number.                                         *)
(***************************************************************************)
EXTENDS CotisationDialog

CONSTANTS
  Budgets,
  Called,       \* the budget of the cotisation whose window opens
  Coverages,    \* filters on the cotisations, "" for all
  Nothing

ASSUME BudgetPageAssumption == Called \in Budgets /\ "" \in Coverages

VARIABLES
  drafts,        \* server: the budgets that are not published
  route,         \* paramMap
  coverage,      \* queryParamMap
  round,         \* history variable: the number of the latest load, modulo 2
  flights,       \* getBudget in flight
  budgetLoading, budgetError,
  budget,        \* _budget$: Nothing, or the budget on display
  scope,         \* the filter of the source of cotisations, Nothing without a source
  expense,       \* the dialog over the page: the form or the deletion of an expense
  expenseDeletions  \* deletions of expenses in flight

budgetVars == <<round, flights, budgetLoading, budgetError, budget, scope>>
expenseVars == <<expense, expenseDeletions>>
routeVars == <<route, coverage>>
budgetPageVars == <<cotisationVars, drafts, routeVars, budgetVars, expenseVars>>

Asked == [budget |-> route, round |-> round]

NoExpense == [stage |-> "none"]

PageFree == window = "closed" /\ expense.stage \in {"none", "closing"}

BudgetPageInit ==
  /\ CotisationInit
  /\ drafts \in SUBSET Budgets
  /\ route \in Budgets
  /\ coverage = ""
  /\ round = 0
  /\ flights = {[asks |-> Asked, draft |-> Nothing]}
  /\ budgetLoading = TRUE
  /\ budgetError = FALSE
  /\ budget = Nothing
  /\ scope = Nothing
  /\ expense = NoExpense
  /\ expenseDeletions = {}

(***************************************************************************)
(* Loading                                                                 *)
(***************************************************************************)
\* Mutant: mergeMap in the place of switchMap.
LoadBudgetMerged(b) ==
  /\ round' = (round + 1) % 2
  /\ flights' = flights \cup {[asks |-> [budget |-> b, round |-> round'], draft |-> Nothing]}
  /\ budgetLoading' = TRUE
  /\ budgetError' = FALSE
  /\ budget' = Nothing
  /\ scope' = Nothing

\* Nothing of the earlier budget stays on the page, nor its answer in flight.
LoadBudget(b) ==
  /\ round' = (round + 1) % 2
  /\ flights' = {[asks |-> [budget |-> b, round |-> round'], draft |-> Nothing]}
  /\ budgetLoading' = TRUE
  /\ budgetError' = FALSE
  /\ budget' = Nothing
  /\ scope' = Nothing

RefreshBudget == LoadBudget(route) /\ UNCHANGED routeVars

\* The window of the browser comes back, whatever is open on the page; below the window
\* of a cotisation, which is loaded again when that closes, it changes nothing to see.
WindowFocus ==
  /\ window = "closed"
  /\ RefreshBudget
  /\ UNCHANGED <<cotisationVars, drafts, expenseVars>>

\* A link to another budget, or the history of the browser, which closes what is open.
Navigate ==
  \E b \in Budgets \ {route} :
    /\ route' = b
    /\ coverage' \in Coverages
    /\ LoadBudget(b)
    /\ expense' = NoExpense
    /\ IF window = "open" THEN CloseWindow ELSE UNCHANGED cotisationVars
    /\ UNCHANGED <<drafts, expenseDeletions>>

ServerReadsBudget ==
  \E f \in flights :
    /\ f.draft = Nothing
    /\ flights' = (flights \ {f}) \cup {[f EXCEPT !.draft = {f.asks.budget} \cap drafts]}
    /\ UNCHANGED <<cotisationVars, drafts, routeVars, round, budgetLoading, budgetError, budget, scope, expenseVars>>

\* Mutant: only the source that is there when the page opens is filtered.
HearBudgetUnfiltered ==
  \E f \in flights :
    /\ f.draft # Nothing
    /\ flights' = flights \ {f}
    /\ budgetLoading' = FALSE
    /\ budget' = [asks |-> f.asks, draft |-> f.draft # {}]
    /\ scope' = IF f.draft = {} THEN "" ELSE Nothing
    /\ UNCHANGED <<cotisationVars, drafts, routeVars, round, budgetError, expenseVars>>

\* A published budget has a source of cotisations, with the filter of the route.
HearBudget ==
  \E f \in flights :
    /\ f.draft # Nothing
    /\ flights' = flights \ {f}
    /\ budgetLoading' = FALSE
    /\ budget' = [asks |-> f.asks, draft |-> f.draft # {}]
    /\ scope' = IF f.draft = {} THEN coverage ELSE Nothing
    /\ UNCHANGED <<cotisationVars, drafts, routeVars, round, budgetError, expenseVars>>

BudgetUnavailable ==
  \E f \in flights :
    /\ flights' = flights \ {f}
    /\ budgetLoading' = FALSE
    /\ budgetError' = TRUE
    /\ UNCHANGED <<cotisationVars, drafts, routeVars, round, budget, scope, expenseVars>>

\* filterCoverage, and queryParamMap.
FilterCoverage ==
  /\ PageFree /\ scope # Nothing
  /\ coverage' \in Coverages \ {coverage}
  /\ scope' = coverage'
  /\ UNCHANGED <<cotisationVars, drafts, route, round, flights, budgetLoading, budgetError, budget, expenseVars>>

(***************************************************************************)
(* Expenses of a draft                                                     *)
(***************************************************************************)
DraftShown == budget # Nothing /\ budget.draft

ExpenseStep(next) ==
  /\ expense' = next
  /\ UNCHANGED <<cotisationVars, drafts, routeVars, budgetVars, expenseDeletions>>

EditExpense == PageFree /\ expense = NoExpense /\ DraftShown /\ ExpenseStep([stage |-> "form", of |-> route])

SubmitExpense == expense.stage = "form" /\ ExpenseStep([expense EXCEPT !.stage = "saving"])

CancelExpense == expense.stage = "form" /\ ExpenseStep(NoExpense)

\* The server takes the expense only for a draft.
HearExpense ==
  /\ expense.stage = "saving"
  /\ \/ expense.of \in drafts /\ ExpenseStep([expense EXCEPT !.stage = "saved"])
     \/ ExpenseStep([expense EXCEPT !.stage = "form"])

ExpenseClosed ==
  /\ expense.stage = "saved"
  /\ expense' = NoExpense
  /\ RefreshBudget
  /\ UNCHANGED <<cotisationVars, drafts, expenseDeletions>>

AskToDeleteExpense ==
  /\ PageFree /\ expense = NoExpense /\ DraftShown /\ expenseDeletions = {}
  /\ ExpenseStep([stage |-> "confirm", of |-> route])

AcceptDeletion == expense.stage = "confirm" /\ ExpenseStep([expense EXCEPT !.stage = "closing"])

DeclineDeletion == expense.stage = "confirm" /\ ExpenseStep(NoExpense)

\* Mutant: the page is not looked at again.
StillDraftUnchecked == TRUE

StillDraft == budget # Nothing /\ budget.asks.budget = expense.of /\ budget.draft

\* afterClosed: the page may have been loaded again under the dialog.
DeletionClosed ==
  /\ expense.stage = "closing"
  /\ expense' = NoExpense
  /\ expenseDeletions' = IF StillDraft THEN expenseDeletions \cup {expense.of} ELSE expenseDeletions
  /\ UNCHANGED <<cotisationVars, drafts, routeVars, budgetVars>>

HearExpenseDeletion ==
  \E b \in expenseDeletions :
    /\ expenseDeletions' = expenseDeletions \ {b}
    /\ \/ b \in drafts /\ RefreshBudget
       \/ UNCHANGED <<routeVars, budgetVars>>
    /\ UNCHANGED <<cotisationVars, drafts, expense>>

\* Another administrator publishes the budget.
OthersPublish ==
  \E b \in drafts :
    /\ drafts' = drafts \ {b}
    /\ UNCHANGED <<cotisationVars, routeVars, budgetVars, expenseVars>>

(***************************************************************************)
(* The window of a cotisation                                              *)
(***************************************************************************)
OpenCotisation ==
  /\ PageFree /\ expense = NoExpense
  /\ scope # Nothing /\ budget.asks.budget = Called
  /\ expenseDeletions = {}
  /\ OpenWindow
  /\ UNCHANGED <<drafts, routeVars, budgetVars, expenseVars>>

\* The page is loaded again, also when the history of the browser closes the window.
CloseCotisation ==
  /\ Close
  /\ RefreshBudget
  /\ UNCHANGED <<drafts, expenseVars>>

BackFromCotisation ==
  /\ CloseWindow
  /\ RefreshBudget
  /\ UNCHANGED <<drafts, expenseVars>>

InWindow == WindowStep /\ UNCHANGED <<drafts, routeVars, budgetVars, expenseVars>>

BudgetPageNext ==
  \/ WindowFocus \/ Navigate \/ ServerReadsBudget \/ HearBudget \/ BudgetUnavailable \/ FilterCoverage
  \/ EditExpense \/ SubmitExpense \/ CancelExpense \/ HearExpense \/ ExpenseClosed
  \/ AskToDeleteExpense \/ AcceptDeletion \/ DeclineDeletion \/ DeletionClosed \/ HearExpenseDeletion
  \/ OthersPublish \/ OpenCotisation \/ CloseCotisation \/ BackFromCotisation \/ InWindow

(***************************************************************************)
(* Properties                                                              *)
(***************************************************************************)
\* What the user begins is recorded once at the most, whatever is lost, sent again or received
\* late on the way: the history names an operation when it starts, not when it sends it
\* (operationId of financial-history.component.ts), and the server refuses a name it knows.
OneEntryPerOperation == \A d, e \in entries : d.start = e.start => d = e

\* A history on display is not older than a write the window was told of.
HistoryIsFresh == window = "open" /\ ~historyLoading /\ ~historyError => historyShown >= heard

\* A source of cotisations is filtered as the address says, however the loads of the budget
\* and the moves of the route follow each other.
ScopeFollowsRoute == scope # Nothing => scope = coverage

\* What the page displays agrees with what it knows: with the writes it was told of and with
\* its own address (load of the history, ngOnInit of the page).
PageIsCoherent == HistoryIsFresh /\ ScopeFollowsRoute

\* Only what was previewed is confirmed, as it was previewed and as the form still says.
ConfirmedAsPreviewed ==
  \A r \in busy' : busy = {} /\ r.what = "confirm" =>
    /\ form = {r.values} /\ r.operation = operation
    /\ [operation |-> r.operation, start |-> r.start, values |-> r.values, on |-> r.on] \in preview

\* An expense is deleted of the draft on display, which is the one it was chosen in.
DeletedAsDisplayed ==
  \A b \in expenseDeletions' \ expenseDeletions : DraftShown /\ budget.asks.budget = b /\ expense.of = b

\* No request leaves for something else than what the user has before their eyes: confirm() of
\* the history and deleteExpense() of the page, which both act after a pause.
ActsOnWhatIsShown == ConfirmedAsPreviewed /\ DeletedAsDisplayed

\* "Aucune donnée de l'ancien contexte ne remplace la nouvelle" (docs/fiche-validation.md:416):
\* the page waits, fails or shows the answer to its latest load, and never an earlier one.
Reader == INSTANCE LatestAnswer WITH
  Questions <- [budget : Budgets, round : 0 .. 1],
  Grants <- LAMBDA q : {q},
  Waiting <- [reader |-> "waits"], Failed <- [reader |-> "is told"],
  asked <- Asked,
  shown <- IF budgetLoading THEN [reader |-> "waits"]
           ELSE IF budgetError THEN [reader |-> "is told"] ELSE budget.asks

ImplementsLatestAnswer == Reader!Spec
==============================================================================
