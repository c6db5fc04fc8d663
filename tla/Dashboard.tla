------------------------------- MODULE Dashboard -------------------------------
(***************************************************************************)
(* The dashboard (dashboard.component.ts): the address chooses a budget, a *)
(* reference and a lot, and each module loads for itself.  A module is     *)
(* loaded for a key, which follows from the address, from the budgets that *)
(* were listed and from the finances that were heard; it is loads again    *)
(* when its key changes, which ends its earlier request.  A budget is its  *)
(* rank of creation, 0 is none.  Left out: the year, which the page no     *)
(* longer offers; the search, which loads nothing; and the units, the      *)
(* directory and the e-mails, loaded as the budgets are, for nothing else. *)
(***************************************************************************)
EXTENDS Integers, FiniteSets

CONSTANTS
  MaxBudgets,  \* bound: budgets created
  References,  \* budgets that are compared with, 0 among them
  Lots         \* numbers of lots

VARIABLES
  budgetsMade, \* server: budgets 1..budgetsMade exist
  published,   \* server: those that are published, with a cotisation for each lot
  administrator,
  context,     \* the address: [budget, reference, lot]
  choices,     \* budgetChoices$: the last rank of the budgets that were listed
  loads,       \* requests in flight
  modules      \* what each module shows

dashboardVars == <<budgetsMade, published, administrator, context, choices, loads, modules>>

Scopes == {"budgets", "finance", "reference", "access", "payments"}

Unset == -1  \* no budget in the address
Contexts == [budget : Unset..MaxBudgets, reference : References, lot : {0} \cup Lots]

NoKey == <<>>
AllRows == <<0>>
Empty == [stage |-> "empty"]
Loading == [stage |-> "loading"]
Failure == [stage |-> "failure"]
Success(key, v) == [stage |-> "success", of |-> key, value |-> v]

(***************************************************************************)
(* Keys                                                                    *)
(***************************************************************************)
\* selection$: without a choice in the address, the last budget of those listed.
Budget(a, c) == IF a.budget = Unset THEN c ELSE a.budget

\* The cotisation of the lot in the finances on display, asked for in the budget chosen.
Cotisation(a, b, f) == IF f.stage = "success" /\ f.value /\ a.lot # 0 THEN <<b, f.of[1], a.lot>> ELSE NoKey

Key(m, a, c, admin, f) ==
  CASE m = "finance" -> IF Budget(a, c) = 0 THEN NoKey ELSE <<Budget(a, c)>>
    [] m = "reference" -> IF a.reference \in {0, Budget(a, c)} THEN NoKey ELSE <<Budget(a, c), a.reference>>
    [] m = "payments" -> Cotisation(a, Budget(a, c), f)
    [] m = "access" -> IF admin THEN AllRows ELSE NoKey
    [] OTHER -> AllRows

Now(m) == Key(m, context, choices, administrator, modules["finance"])

(***************************************************************************)
(* Loading                                                                 *)
(***************************************************************************)
Request(m, key) == [module |-> m, of |-> key, read |-> {}]

\* Mutant: mergeMap, which lets the earlier requests go on.
AskMerging(waiting, ended, starting) == loads' = waiting \cup starting

\* switchMap: a module that starts again, or has no key any more, ends its request.
AskAnew(waiting, ended, starting) == loads' = {r \in waiting : r.module \notin ended} \cup starting

\* Mutant: a module shows what it has until the next answer.
BlankKeeping(m, key) == IF key = NoKey THEN Empty ELSE modules[m]

Blank(m, key) == IF key = NoKey THEN Empty ELSE Loading

\* The modules follow the address a, the choices c and the rights; those of again reload,
\* and the others show held.  Finances that start again have no cotisation, so the payments
\* follow them.
Follow(a, c, admin, held, waiting, again) ==
  LET now == [m \in Scopes |-> Now(m)]
      start == Key("finance", a, c, admin, Empty)
      finance == IF "finance" \in again \/ start # now["finance"] THEN Blank("finance", start) ELSE held["finance"]
      key == [m \in Scopes |-> Key(m, a, c, admin, finance)]
      ended == {m \in Scopes : m \in again \/ key[m] # now[m]}
  IN  /\ modules' = [m \in Scopes |-> IF m \in ended THEN Blank(m, key[m]) ELSE held[m]]
      /\ AskAnew(waiting, ended, {Request(m, key[m]) : m \in {n \in ended : key[n] # NoKey}})
      /\ context' = a /\ choices' = c /\ administrator' = admin

OnPage(a, admin, again) == Follow(a, choices, admin, modules, loads, again) /\ UNCHANGED <<budgetsMade, published>>

\* selectBudget, selectReference and selectLot navigate, and so does the history: the page
\* may be given any address.
GoTo == \E a \in Contexts \ {context} : OnPage(a, administrator, {})

\* refresh() reloads everything but the payments, which the finances bring along.
RefreshAll == OnPage(context, administrator, Scopes \ {"payments"})

\* The page offers it to a module that failed.
RetryModule == \E m \in Scopes : modules[m] = Failure /\ OnPage(context, administrator, {m})

ChangeAdministrator == OnPage(context, ~administrator, {})

(***************************************************************************)
(* Answers                                                                 *)
(***************************************************************************)
\* What the server answers: the budgets there are, whether a budget has cotisations, or the
\* rows of the module, told by their key.
Content(r) == CASE r.module = "budgets" -> budgetsMade
                [] r.module = "finance" -> r.of[1] \in published
                [] OTHER -> TRUE

ServerAnswers == \E r \in loads :
  /\ r.read = {}
  /\ loads' = (loads \ {r}) \cup {[r EXCEPT !.read = {Content(r)}]}
  /\ UNCHANGED <<budgetsMade, published, administrator, context, choices, modules>>

\* Budgets that were listed change the choices, finances the cotisation of the lot.
HearModule == \E r \in loads : \E v \in r.read :
  /\ Follow(context, IF r.module = "budgets" THEN v ELSE choices, administrator,
            [modules EXCEPT ![r.module] = Success(r.of, v)], loads \ {r}, {})
  /\ UNCHANGED <<budgetsMade, published>>

ModuleFails == \E r \in loads :
  /\ loads' = loads \ {r}
  /\ modules' = [modules EXCEPT ![r.module] = Failure]
  /\ UNCHANGED <<budgetsMade, published, administrator, context, choices>>

\* Other users.
CreateBudget ==
  budgetsMade < MaxBudgets /\ budgetsMade' = budgetsMade + 1 /\ UNCHANGED <<published, administrator, context, choices, loads, modules>>

PublishBudget == \E b \in (1..budgetsMade) \ published :
  published' = published \cup {b} /\ UNCHANGED <<budgetsMade, administrator, context, choices, loads, modules>>

DashboardInit ==
  /\ budgetsMade \in 0..MaxBudgets /\ published \in SUBSET (1..budgetsMade)
  /\ administrator \in BOOLEAN /\ context \in Contexts /\ choices = 0
  /\ modules = [m \in Scopes |-> IF Key(m, context, 0, administrator, Empty) = NoKey THEN Empty ELSE Loading]
  /\ loads = {Request(m, Key(m, context, 0, administrator, Empty)) : m \in
                {n \in Scopes : Key(n, context, 0, administrator, Empty) # NoKey}}

DashboardNext ==
  \/ GoTo \/ RefreshAll \/ RetryModule \/ ChangeAdministrator
  \/ ServerAnswers \/ HearModule \/ ModuleFails \/ CreateBudget \/ PublishBudget

(***************************************************************************)
(* Property                                                                *)
(***************************************************************************)
\* "Changer de contexte annule les lectures précédentes" (docs/tableau-de-bord.md:3): every
\* module shows, or waits for, what the address asks for now and nothing else; payments are
\* those of the lot in the budget on display; nothing of the administration is shown to an
\* account that lost it; and an address without a budget shows the last one listed.
DashboardIsCoherent ==
  /\ \A m \in Scopes :
       /\ modules[m] = Empty <=> Now(m) = NoKey
       /\ modules[m].stage = "success" => modules[m].of = Now(m)
       /\ modules[m].stage = "loading" <=> \E r \in loads : r.module = m
  /\ \A r \in loads : r.of = Now(r.module)
  /\ modules["payments"] # Empty => modules["finance"].stage = "success" /\ modules["finance"].of = <<Budget(context, choices)>>
  /\ \A r \in loads : r.module = "payments" => r.of[1] = r.of[2]
  /\ ~administrator => modules["access"] = Empty
  /\ context.budget = Unset /\ modules["budgets"].stage = "success" => Budget(context, choices) = modules["budgets"].value
==============================================================================
