--------------------------- MODULE AccountDecisions ---------------------------
(***************************************************************************)
(* The page of accounts (user-list.component.ts, user.datasource.ts): the  *)
(* list with its filter on the state of the access, the decisions on an    *)
(* account, and the form of its rights (user-form.component.ts).  The page *)
(* is shown with one account; its version is updated_at.                   *)
(***************************************************************************)
EXTENDS Integers

CONSTANTS
  MaxVersions  \* bound: writes of the account

VARIABLES
  account,     \* server: state of the access, and version
  filter,      \* status of the route
  usersAsked,  \* listUsers in flight: what each was asked with, and what it read
  usersLoading, usersError,
  usersShown,  \* what the rows answer: {} or one record
  decision,    \* the decision under way
  rightsForm   \* the form of the rights: {} or one record

accountVars == <<account, filter, usersAsked, usersLoading, usersError, usersShown, decision, rightsForm>>

AccessStates == {"pending", "active", "rejected", "disabled"}
Filters == {""} \cup AccessStates

NoDecision == [stage |-> "none"]
NotBusy == decision = NoDecision

(***************************************************************************)
(* The list                                                                *)
(***************************************************************************)
NewUsersLoad(f) == [filter |-> f, rows |-> "unread"]

\* Mutant: the loads of a plain source, which go on side by side.
LoadUsersPlain(f) == usersAsked' = usersAsked \cup {NewUsersLoad(f)} /\ usersLoading' = TRUE

\* load() of the source of accounts ends the earlier load.
LoadUsers(f) == usersAsked' = {NewUsersLoad(f)} /\ usersLoading' = TRUE

\* A filter is not chosen during a decision, but the browser may travel, which closes a
\* dialog: a decision that was being asked about ends, and so does the form.
FilterUsers ==
  \E f \in Filters \ {filter} :
    /\ filter' = f
    /\ LoadUsers(f)
    /\ decision' = IF decision.stage = "asking" THEN NoDecision ELSE decision
    /\ rightsForm' = {}
    /\ UNCHANGED <<account, usersError, usersShown>>

Visible(f) == IF f = "" \/ f = account.state THEN {account} ELSE {}

ServerListsUsers ==
  \E r \in usersAsked :
    /\ r.rows = "unread"
    /\ usersAsked' = (usersAsked \ {r}) \cup {[filter |-> r.filter, rows |-> "read", found |-> Visible(r.filter)]}
    /\ UNCHANGED <<account, filter, usersLoading, usersError, usersShown, decision, rightsForm>>

HearUsers ==
  \E r \in usersAsked :
    /\ r.rows = "read"
    /\ usersAsked' = usersAsked \ {r}
    /\ usersShown' = {[filter |-> r.filter, found |-> r.found]}
    /\ usersLoading' = FALSE /\ usersError' = FALSE
    /\ UNCHANGED <<account, filter, decision, rightsForm>>

\* An error empties the list.
UsersFail ==
  \E r \in usersAsked :
    /\ usersAsked' = usersAsked \ {r}
    /\ usersShown' = {}
    /\ usersLoading' = FALSE /\ usersError' = TRUE
    /\ UNCHANGED <<account, filter, decision, rightsForm>>

(***************************************************************************)
(* Decisions: decide()                                                     *)
(***************************************************************************)
Decides(d, state) ==
  \/ d \in {"approve", "reject"} /\ state = "pending"
  \/ d = "disable" /\ state = "active"
  \/ d = "reactivate" /\ state \in {"disabled", "rejected"}

Outcome(d) == CASE d \in {"approve", "reactivate"} -> "active" [] d = "reject" -> "rejected" [] d = "disable" -> "disabled"

DecisionStep(next) == decision' = next /\ UNCHANGED <<account, filter, usersAsked, usersLoading, usersError, usersShown, rightsForm>>

\* The rows stay in reach while the list loads: what is laid over them keeps off the mouse only.
Decide ==
  \E d \in {"approve", "reject", "disable", "reactivate"}, s \in usersShown :
    /\ NotBusy /\ rightsForm = {}
    /\ \E row \in s.found : Decides(d, row.state)
    /\ DecisionStep([stage |-> "reading", decision |-> d])

\* getUser: the account may have changed since it was listed; then the list is loaded.
HearAccount ==
  /\ decision.stage = "reading"
  /\ IF Decides(decision.decision, account.state)
       THEN DecisionStep([stage |-> "asking", decision |-> decision.decision, account |-> account])
       ELSE /\ decision' = NoDecision /\ LoadUsers(filter)
            /\ UNCHANGED <<account, filter, usersError, usersShown, rightsForm>>

AccountFails == decision.stage = "reading" /\ DecisionStep(NoDecision)

Confirm == decision.stage = "asking" /\ DecisionStep([decision EXCEPT !.stage = "updating"])
Renounce == decision.stage = "asking" /\ DecisionStep(NoDecision)

\* Mutant: the version is not sent along.
SameVersionAlways(a) == TRUE

SameVersion(a) == account.version = a.version

\* updateUser, and its answer: an answer may be lost; the list is loaded either way.
Update ==
  /\ decision.stage = "updating" /\ account.version < MaxVersions
  /\ SameVersion(decision.account)
  /\ account' = [state |-> Outcome(decision.decision), version |-> account.version + 1]
  /\ decision' = NoDecision
  /\ LoadUsers(filter)
  /\ UNCHANGED <<filter, usersError, usersShown, rightsForm>>

UpdateRefused ==
  /\ decision.stage = "updating"
  /\ decision' = NoDecision
  /\ LoadUsers(filter)
  /\ UNCHANGED <<account, filter, usersError, usersShown, rightsForm>>

(***************************************************************************)
(* The form of the rights                                                  *)
(***************************************************************************)
RightsStep(next) == rightsForm' = next /\ UNCHANGED <<account, filter, usersAsked, usersLoading, usersError, usersShown, decision>>

EditRights ==
  \E s \in usersShown : \E row \in s.found :
    /\ NotBusy /\ rightsForm = {}
    /\ rightsForm' = {[account |-> row, saving |-> FALSE]}
    /\ UNCHANGED <<account, filter, usersAsked, usersLoading, usersError, usersShown, decision>>

SubmitRights == \E r \in rightsForm : ~r.saving /\ RightsStep({[r EXCEPT !.saving = TRUE]})

\* The rights change, the state of the access does not.
SaveRights ==
  \E r \in rightsForm :
    /\ r.saving /\ account.version < MaxVersions
    /\ SameVersion(r.account)
    /\ account' = [account EXCEPT !.version = @ + 1]
    /\ \/ rightsForm' = {} /\ LoadUsers(filter)
       \/ rightsForm' = {[r EXCEPT !.saving = FALSE]} /\ UNCHANGED <<usersAsked, usersLoading>>
    /\ UNCHANGED <<filter, usersError, usersShown, decision>>

RightsRefused == \E r \in rightsForm : r.saving /\ RightsStep({[r EXCEPT !.saving = FALSE]})

CancelRights ==
  \E r \in rightsForm :
    /\ ~r.saving
    /\ rightsForm' = {} /\ LoadUsers(filter)
    /\ UNCHANGED <<account, filter, usersError, usersShown, decision>>

\* Another administrator.
OthersDecide ==
  \E s \in AccessStates :
    /\ account.version < MaxVersions
    /\ account' = [state |-> s, version |-> account.version + 1]
    /\ UNCHANGED <<filter, usersAsked, usersLoading, usersError, usersShown, decision, rightsForm>>

AccountInit ==
  /\ account \in [state : AccessStates, version : {0}]
  /\ filter \in Filters
  /\ usersAsked = {NewUsersLoad(filter)} /\ usersLoading = TRUE /\ usersError = FALSE /\ usersShown = {}
  /\ decision = NoDecision /\ rightsForm = {}

AccountNext ==
  \/ FilterUsers \/ ServerListsUsers \/ HearUsers \/ UsersFail
  \/ Decide \/ HearAccount \/ AccountFails \/ Confirm \/ Renounce \/ Update \/ UpdateRefused
  \/ EditRights \/ SubmitRights \/ SaveRights \/ RightsRefused \/ CancelRights \/ OthersDecide

(***************************************************************************)
(* Properties                                                              *)
(***************************************************************************)
\* A list that is not loading shows the accounts of the filter on the page, or the error,
\* however fast the filters followed each other (docs/fiche-validation.md:415).
UsersMatchFilter == ~usersLoading => usersError \/ \A s \in usersShown : s.filter = filter

\* "Une décision sur une version obsolète d’un compte est refusée" (docs/fiche-validation.md:416):
\* what this page changes of an account, it changes as it was shown when it was decided.
DecidedAsShown ==
  /\ decision.stage = "updating" /\ account' # account /\ decision' = NoDecision => account = decision.account
  /\ \A r \in rightsForm : r.saving /\ account' # account /\ rightsForm' # rightsForm => account = r.account
==============================================================================
