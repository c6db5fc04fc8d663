------------------------------ MODULE BudgetPages ------------------------------
(***************************************************************************)
(* Pages about budgets, of which one is open: a budget, the templates of   *)
(* its e-mails, the editor of their values, the dashboard and the lists of *)
(* budgets and units.  As in OfficePages a behaviour stays on the page it  *)
(* begins with, and the others rest.                                       *)
(***************************************************************************)
EXTENDS BudgetPage, EmailTemplates, ValuesEditor, Dashboard, TableLists

VARIABLE page

Pages == {"budget", "templates", "values", "dashboard", "lists"}

vars == <<page, budgetPageVars, templateVars, editorVars, dashboardVars, tableVars>>

\* A page that is not open rests in one of its initial states.
Init ==
  /\ page \in Pages
  /\ BudgetPageInit /\ (page # "budget" => drafts = {} /\ route = Called)
  /\ TemplateInit /\ (page # "templates" => models = <<>>)
  /\ EditorInit /\ (page # "values" => raw = {<<>>} /\ suggested = {})
  /\ DashboardInit /\ (page # "dashboard" => /\ budgetsMade = 0 /\ ~administrator
                                            /\ context = [budget |-> Unset, reference |-> 0, lot |-> 0])
  /\ TableInit /\ (page # "lists" => listOpen = "budgets" /\ stored = [r \in TableRows |-> "none"])

OnBudget ==
  /\ page = "budget" /\ BudgetPageNext
  /\ UNCHANGED <<page, templateVars, editorVars, dashboardVars, tableVars>>

OnTemplates ==
  /\ page = "templates" /\ TemplateNext
  /\ UNCHANGED <<page, budgetPageVars, editorVars, dashboardVars, tableVars>>

OnValues ==
  /\ page = "values" /\ EditorNext
  /\ UNCHANGED <<page, budgetPageVars, templateVars, dashboardVars, tableVars>>

OnDashboard ==
  /\ page = "dashboard" /\ DashboardNext
  /\ UNCHANGED <<page, budgetPageVars, templateVars, editorVars, tableVars>>

OnLists ==
  /\ page = "lists" /\ TableNext
  /\ UNCHANGED <<page, budgetPageVars, templateVars, editorVars, dashboardVars>>

Next == OnBudget \/ OnTemplates \/ OnValues \/ OnDashboard \/ OnLists

Spec == Init /\ [][Next]_vars

(***************************************************************************)
(* Properties                                                              *)
(***************************************************************************)
\* Each page agrees with what it knows: the page of a budget with the writes it was told of
\* and with its address, a template with its limits and its preview, values with the rows
\* that show them, the dashboard with its address, a list with the writes it was told of.
PagesAreCoherent ==
  PageIsCoherent /\ TemplatesAreSound /\ ValuesAreAsShown /\ DashboardIsCoherent /\ TablesAreCurrent

\* No step acts on something else than what is shown: the two-step actions of the page of a
\* budget, and the editor of values, where another way to edit leaves them as they were.
StepsActOnWhatIsShown == [][ActsOnWhatIsShown /\ ModesKeepValues]_vars
==============================================================================
