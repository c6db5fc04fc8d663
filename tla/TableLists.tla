------------------------------ MODULE TableLists ------------------------------
(***************************************************************************)
(* The lists of budgets and of units on a plain source of rows             *)
(* (budget-list, unit-list.component.ts on shared/datasources/index.ts),   *)
(* of which one is open, with their forms (budget-form,                    *)
(* unit-form.component.ts) and the server.                                 *)
(*                                                                         *)
(* A plain source ends no load: its loads go on side by side and each      *)
(* answer replaces the rows.  A row is "draft" or "published" for a        *)
(* budget, "draft" for a unit that is there.  A request that *)
(* writes and its answer are one step.  The same request is not made twice *)
(* at once: the server refuses the second.                                 *)
(***************************************************************************)
EXTENDS Integers, SequencesExt

CONSTANTS
  TableRows,       \* rows there may be
  AbsentRow,       \* the row a form is to create
  MaxTableWrites,  \* bound: writes of the rows
  MaxTableLoads    \* bound: loads in flight at once

VARIABLES
  listOpen,     \* "budgets" or "units"
  stored,       \* server: state of each row, "none" for one that is not there
  writesMade,   \* server: number of writes
  tableLoads,   \* loads in flight, in the order they were asked: {} or what was read
  tableLoading, tableError,
  tableShown,   \* {} or the rows on display
  rowForm,      \* {} or the form: its row, and its requests in flight
  rowAsked,     \* {} or the question of a confirmation
  rowCalls,     \* deletions and publications in flight
  announced,    \* history variable: the writes the page was told of
  overlapped,   \* history variable: the latest load began beside another
  createdRows,  \* history variable: rows the open form has created
  unheardRow    \* history variable: an answer to the open form was lost

tableServerVars == <<listOpen, stored, writesMade>>
tableSourceVars == <<tableLoads, tableLoading, tableError, tableShown, overlapped>>
rowVars == <<rowForm, rowAsked, rowCalls, createdRows, unheardRow>>
tableVars == <<tableServerVars, tableSourceVars, rowVars, announced>>

Modal == rowForm # {} \/ rowAsked # {}

InTable(r) == IF \E s \in tableShown : s.rows[r] # "none" THEN {r} ELSE {}

(***************************************************************************)
(* The source                                                              *)
(***************************************************************************)
\* Mutant: a load under way drops the one that is asked for.
LoadTableOnce ==
  /\ Len(tableLoads) < MaxTableLoads
  /\ tableLoads' = IF tableLoading THEN tableLoads ELSE Append(tableLoads, {})
  /\ tableLoading' = TRUE
  /\ overlapped' = FALSE
  /\ UNCHANGED <<tableError, tableShown>>

LoadTable ==
  /\ Len(tableLoads) < MaxTableLoads
  /\ tableLoads' = Append(tableLoads, {})
  /\ tableLoading' = TRUE
  /\ overlapped' = (tableLoads # <<>>)
  /\ UNCHANGED <<tableError, tableShown>>

\* The button of the table waits for the source.
RefreshTable == ~Modal /\ ~tableLoading /\ LoadTable /\ UNCHANGED <<tableServerVars, rowVars, announced>>

ServerListsRows ==
  \E i \in DOMAIN tableLoads :
    /\ tableLoads[i] = {}
    /\ tableLoads' = [tableLoads EXCEPT ![i] = {[rows |-> stored, stamp |-> writesMade]}]
    /\ UNCHANGED <<tableServerVars, tableLoading, tableError, tableShown, overlapped, rowVars, announced>>

\* An answer, or an error, which empties the table; the loads end in any order.
TableLoadEnds ==
  \E i \in DOMAIN tableLoads :
    /\ tableLoads' = RemoveAt(tableLoads, i)
    /\ tableLoading' = FALSE
    /\ \/ tableLoads[i] # {} /\ tableShown' = tableLoads[i] /\ tableError' = FALSE
       \/ tableShown' = {} /\ tableError' = TRUE
    /\ UNCHANGED <<tableServerVars, overlapped, rowVars, announced>>

(***************************************************************************)
(* The server                                                              *)
(***************************************************************************)
WriteRow(r, state) ==
  /\ writesMade < MaxTableWrites
  /\ writesMade' = writesMade + 1
  /\ stored' = [stored EXCEPT ![r] = state]
  /\ UNCHANGED listOpen

\* A published budget is neither published again nor deleted; only its label changes.
Carries(call) == stored[call.row] = "draft"

After(call) == IF call.what = "delete" THEN "none" ELSE "published"

OthersWriteRow ==
  /\ \E r \in TableRows, state \in {"none", "draft", "published"} :
       /\ state # stored[r]
       /\ state = "published" => listOpen = "budgets" /\ stored[r] = "draft"
       /\ stored[r] # "published"
       /\ WriteRow(r, state)
  /\ UNCHANGED <<tableSourceVars, rowVars, announced>>

(***************************************************************************)
(* Forms                                                                   *)
(***************************************************************************)
\* Mutant: the form is sent again while it is saved.
MaySubmitAlways(f) == f.sending < 2

MaySubmit(f) == f.sending = 0

OpenRowForm ==
  /\ ~Modal
  /\ \E r \in {AbsentRow} \cup UNION {InTable(q) : q \in TableRows} :
       rowForm' = {[row |-> r, sending |-> 0, closing |-> FALSE]}
  /\ createdRows' = 0 /\ unheardRow' = FALSE
  /\ UNCHANGED <<tableServerVars, tableSourceVars, rowAsked, rowCalls, announced>>

CancelRow ==
  /\ \E f \in rowForm : f.sending = 0 /\ ~f.closing
  /\ rowForm' = {}
  /\ UNCHANGED <<tableServerVars, tableSourceVars, rowAsked, rowCalls, announced, createdRows, unheardRow>>

SubmitRow ==
  /\ \E f \in rowForm : MaySubmit(f) /\ ~f.closing /\ rowForm' = {[f EXCEPT !.sending = @ + 1]}
  /\ UNCHANGED <<tableServerVars, tableSourceVars, rowAsked, rowCalls, announced, createdRows, unheardRow>>

\* The server creates a row, or changes the one there is.
Saves(f) ==
  \/ f.row = AbsentRow /\ createdRows' = createdRows + 1 /\ \E r \in TableRows : stored[r] = "none" /\ WriteRow(r, "draft")
  \/ f.row # AbsentRow /\ stored[f.row] # "none" /\ WriteRow(f.row, stored[f.row]) /\ UNCHANGED createdRows

\* An answer closes the form; an error, or a lost answer, leaves it as it is.
HearRowSaved ==
  \E f \in rowForm :
    /\ f.sending > 0
    /\ \/ /\ Saves(f)
          /\ \/ rowForm' = {[f EXCEPT !.sending = @ - 1, !.closing = TRUE]} /\ UNCHANGED unheardRow
             \/ rowForm' = {[f EXCEPT !.sending = @ - 1]} /\ unheardRow' = TRUE
       \/ /\ rowForm' = {[f EXCEPT !.sending = @ - 1]}
          /\ UNCHANGED <<tableServerVars, createdRows, unheardRow>>
    /\ UNCHANGED <<tableSourceVars, rowAsked, rowCalls, announced>>

\* afterClosed
RowFormClosed ==
  /\ \E f \in rowForm : f.closing
  /\ rowForm' = {}
  /\ announced' = writesMade
  /\ LoadTable
  /\ UNCHANGED <<tableServerVars, rowAsked, rowCalls, createdRows, unheardRow>>

(***************************************************************************)
(* Confirmed actions                                                       *)
(***************************************************************************)
AskRow(what, states) ==
  /\ ~Modal
  /\ \E r \in TableRows, s \in tableShown : s.rows[r] \in states /\ rowAsked' = {[what |-> what, row |-> r]}
  /\ UNCHANGED <<tableServerVars, tableSourceVars, rowForm, rowCalls, createdRows, unheardRow, announced>>

AnswerRow ==
  /\ rowAsked # {}
  /\ rowAsked' = {}
  /\ rowCalls' \in {rowCalls, rowCalls \cup rowAsked}
  /\ UNCHANGED <<tableServerVars, tableSourceVars, rowForm, createdRows, unheardRow, announced>>

HearRowCall ==
  \E call \in rowCalls :
    /\ rowCalls' = rowCalls \ {call}
    /\ \/ /\ Carries(call) /\ WriteRow(call.row, After(call))
          /\ \/ announced' = writesMade' /\ LoadTable
             \/ UNCHANGED <<tableSourceVars, announced>>
       \/ UNCHANGED <<tableServerVars, tableSourceVars, announced>>
    /\ UNCHANGED <<rowForm, rowAsked, createdRows, unheardRow>>

(***************************************************************************)
(* The pages                                                               *)
(***************************************************************************)
FormStep == CancelRow \/ SubmitRow \/ HearRowSaved

BudgetFormStep == listOpen = "budgets" /\ FormStep

UnitFormStep == listOpen = "units" /\ FormStep

\* rowActions$
PublishBudgetRow == listOpen = "budgets" /\ AskRow("publish", {"draft"})

ListStep == OpenRowForm \/ RowFormClosed \/ AskRow("delete", {"draft"}) \/ AnswerRow \/ HearRowCall

BudgetListStep == listOpen = "budgets" /\ ListStep

UnitListStep == listOpen = "units" /\ ListStep

TableInit ==
  /\ listOpen \in {"budgets", "units"}
  /\ stored \in [TableRows -> {"none", "draft"}] /\ writesMade = 0
  /\ tableLoads = <<{}>> /\ tableLoading = TRUE /\ tableError = FALSE /\ tableShown = {}
  /\ rowForm = {} /\ rowAsked = {} /\ rowCalls = {}
  /\ announced = 0 /\ overlapped = FALSE /\ createdRows = 0 /\ unheardRow = FALSE

TableNext ==
  \/ RefreshTable \/ ServerListsRows \/ TableLoadEnds \/ OthersWriteRow
  \/ BudgetFormStep \/ UnitFormStep
  \/ PublishBudgetRow \/ BudgetListStep \/ UnitListStep

(***************************************************************************)
(* Properties                                                              *)
(***************************************************************************)
\* "Aucune donnée de l'ancien contexte ne remplace la nouvelle" (docs/fiche-validation.md:416):
\* once nothing is under way, a list shows every write its page was told of, unless the
\* latest load began beside another, whose answer may then come last.
TableFollowsWrites ==
  tableLoads = <<>> /\ ~overlapped /\ ~tableError => \A s \in tableShown : s.stamp >= announced

\* One form makes one budget or one unit, however often it is sent again, except after an
\* answer that was lost.
OneRowPerForm == createdRows > 1 => unheardRow

TablesAreCurrent == TableFollowsWrites /\ OneRowPerForm
==============================================================================
