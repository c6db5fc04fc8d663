---------------------------- MODULE MemberDirectory ----------------------------
(***************************************************************************)
(* The directory of members (member-list.component.ts): its address, its   *)
(* selection and the window that shows it, its source                      *)
(* (member.datasource.ts) with two requests in parallel, the deletion of a *)
(* member, and the form of a member (member-form.component.ts), which      *)
(* writes the member, then its units.                                      *)
(***************************************************************************)
EXTENDS Integers

CONSTANTS
  Targets,    \* what may be selected: members and units
  NoTarget,
  Units,
  MaxSaves,   \* bound: attempts to save one form
  MaxRetries  \* bound: retries of the units in flight at once

VARIABLES
  shown,      \* view and selection of the component
  shownRoute, \* what the address says of them
  navigation, \* {} or the address the router is going to
  details,    \* selectionDialog
  membersLeg, \* listMembers of the load: "none", "asked", "overtaken" by a write, or its answer
  unitsLeg,   \* listUnits of the load: "none", "asked" or "answered"
  retries,    \* listUnits asked for by retries
  membersError, unitsError, unitsLoading,
  membersHeld,  \* "nothing", or an answer: "current", or "outdated" by a write
  unitsHeld,  \* "nothing", or "answer": the units come from an answer
  deletion,   \* "none", or the stage of the deletion of a member
  unshown,    \* history variable: a write of this page that it did not hear of, or after which
              \* it could not ask for the list
  form,       \* stage of the form of a member
  saved,      \* savedId is known
  persisted,
  chosen,     \* selectedUnits
  pending,    \* additions and removals of units in flight
  saves,      \* number of attempts
  created,    \* server: members created by this form
  links,      \* server: units of the member
  lateLinks,  \* additions and removals the form no longer hears that the server may still carry out
  unheard     \* history variable: a write of this form whose answer was not heard

selectionVars == <<shown, shownRoute, navigation, details>>
directorySourceVars ==
  <<membersLeg, unitsLeg, retries, membersError, unitsError, unitsLoading, membersHeld, unitsHeld>>
deletionVars == <<deletion, unshown>>
memberFormVars == <<form, saved, persisted, chosen, pending, saves, created, links, lateLinks, unheard>>
memberVars == <<selectionVars, directorySourceVars, deletionVars, memberFormVars>>

Views == {"list", "map"}
Places == [view : Views, target : Targets \cup {NoTarget}]

(***************************************************************************)
(* Selection                                                               *)
(***************************************************************************)
WantsDetails(p) == p.view = "map" /\ p.target # NoTarget

\* Every change of the component opens or closes the window and sends the router on its way;
\* a later navigation replaces an earlier one.
Show(p) ==
  /\ shown' = p
  /\ details' = WantsDetails(p)
  /\ navigation' = IF p = shownRoute THEN {} ELSE {p}
  /\ UNCHANGED <<shownRoute, directorySourceVars, deletionVars, memberFormVars>>

Free == form = "closed" /\ deletion # "confirm"

SetDirectoryView == Free /\ ~details /\ \E v \in Views : Show([shown EXCEPT !.view = v])
SelectTarget == Free /\ \E t \in Targets : Show([view |-> "map", target |-> t])
Search == Free /\ ~details /\ Show([shown EXCEPT !.target = NoTarget])

\* beforeClosed, unless the component has closed the window itself.
CloseDetails == details /\ Show([shown EXCEPT !.target = NoTarget])

\* Mutant: the window is left as it is when the address changes.
ArriveAtLeaving(p) == shown' = p /\ UNCHANGED details

\* queryParamMap
ArriveAt(p) == shown' = p /\ details' = WantsDetails(p)

NavigationEnds ==
  \E p \in navigation :
    /\ navigation' = {}
    /\ shownRoute' = p
    /\ ArriveAt(p)
    /\ UNCHANGED <<directorySourceVars, deletionVars, memberFormVars>>

\* A link or the history of the browser, also on top of a navigation.
Travel ==
  \E p \in Places :
    /\ Free /\ p # shownRoute
    /\ navigation' = {p}
    /\ UNCHANGED <<shown, shownRoute, details, directorySourceVars, deletionVars, memberFormVars>>

(***************************************************************************)
(* The source: forkJoin of the members and the units                       *)
(***************************************************************************)
\* load() runs until both requests have ended; the page starts no other one meanwhile.
DirectoryLoading == membersLeg # "none" \/ unitsLeg # "none"

SourceStep == UNCHANGED <<selectionVars, deletionVars, memberFormVars>>

LoadDirectory ==
  /\ membersLeg' = "asked" /\ unitsLeg' = "asked" /\ unitsLoading' = TRUE
  /\ UNCHANGED <<retries, membersError, unitsError, membersHeld, unitsHeld>>

\* refresh() of the page asks for nothing while the members or the units are on their way.
MayRefresh == ~DirectoryLoading /\ ~unitsLoading

RefreshDirectory == IF MayRefresh THEN LoadDirectory ELSE UNCHANGED directorySourceVars

\* The button of the table looks at the members only, the one under an error at both.
UserRefreshes ==
  /\ Free /\ ~DirectoryLoading
  /\ \/ shown.view = "list" /\ ~details
     \/ membersError /\ ~unitsLoading
  /\ LoadDirectory
  /\ SourceStep

RetryUnits ==
  /\ Free /\ shown.view = "map" /\ unitsError /\ ~membersError /\ ~unitsLoading /\ retries < MaxRetries
  /\ retries' = retries + 1 /\ unitsLoading' = TRUE
  /\ UNCHANGED <<membersLeg, unitsLeg, membersError, unitsError, membersHeld, unitsHeld>>
  /\ SourceStep

\* An answer, or an error that leaves the units as they are; finalize does not look at the
\* other requests.
HearUnits ==
  /\ unitsLoading' = FALSE
  /\ \/ unitsHeld' = "answer" /\ unitsError' = FALSE
     \/ unitsError' = TRUE /\ UNCHANGED unitsHeld

RetryEnds ==
  /\ retries > 0 /\ retries' = retries - 1
  /\ HearUnits
  /\ UNCHANGED <<membersLeg, unitsLeg, membersError, membersHeld>>
  /\ SourceStep

\* forkJoin shows the members when both have answered.
Complete(answer) ==
  /\ membersHeld' = answer /\ membersError' = FALSE
  /\ membersLeg' = "none" /\ unitsLeg' = "none"

UnitsEnd ==
  /\ unitsLeg = "asked"
  /\ HearUnits
  /\ IF membersLeg \in {"current", "outdated"}
       THEN Complete(membersLeg)
       ELSE unitsLeg' = "answered" /\ UNCHANGED <<membersLeg, membersError, membersHeld>>
  /\ UNCHANGED retries
  /\ SourceStep

\* A list that a write has overtaken was read before or after it.
MembersArrive ==
  \E answer \in {"current", "outdated"} :
    /\ membersLeg = "overtaken" \/ (membersLeg = "asked" /\ answer = "current")
    /\ IF unitsLeg = "answered"
         THEN Complete(answer)
         ELSE membersLeg' = answer /\ UNCHANGED <<unitsLeg, membersError, membersHeld>>
    /\ UNCHANGED <<retries, unitsError, unitsLoading, unitsHeld>>
    /\ SourceStep

\* The error of the members ends the request of the units, and drops those on display.
MembersFail ==
  /\ membersLeg \in {"asked", "overtaken"}
  /\ membersLeg' = "none" /\ unitsLeg' = "none"
  /\ membersError' = TRUE /\ membersHeld' = "nothing"
  /\ unitsHeld' = "nothing"
  /\ unitsLoading' = (unitsLoading /\ unitsLeg # "asked")
  /\ UNCHANGED <<retries, unitsError>>
  /\ SourceStep

\* A write of the server: lists that were read before it no longer tell the directory.
Outdates ==
  /\ membersHeld' = IF membersHeld = "current" THEN "outdated" ELSE membersHeld
  /\ membersLeg' = CASE membersLeg = "asked" -> "overtaken"
                      [] membersLeg = "current" -> "outdated"
                      [] OTHER -> membersLeg
  /\ UNCHANGED <<unitsLeg, retries, membersError, unitsError, unitsLoading, unitsHeld>>

(***************************************************************************)
(* The deletion of a member; the model has one write under way at a time   *)
(***************************************************************************)
AskToDeleteMember ==
  /\ Free /\ deletion = "none" /\ shown.view = "list" /\ ~details /\ navigation = {} /\ membersHeld # "nothing"
  /\ deletion' = "confirm"
  /\ UNCHANGED <<unshown, selectionVars, directorySourceVars, memberFormVars>>

AnswerDeletion ==
  /\ deletion = "confirm"
  /\ deletion' \in {"none", "sent"}
  /\ UNCHANGED <<unshown, selectionVars, directorySourceVars, memberFormVars>>

ServerDeletesMember ==
  /\ deletion = "sent"
  /\ deletion' = "deleted"
  /\ Outdates
  /\ UNCHANGED <<unshown, selectionVars, memberFormVars>>

HearMemberDeleted ==
  /\ deletion = "deleted"
  /\ deletion' = "none"
  /\ RefreshDirectory
  /\ unshown' = (unshown \/ ~MayRefresh)
  /\ UNCHANGED <<selectionVars, memberFormVars>>

MemberDeletionFails ==
  /\ deletion \in {"sent", "deleted"}
  /\ deletion' = "none"
  /\ unshown' = (unshown \/ deletion = "deleted")
  /\ UNCHANGED <<selectionVars, directorySourceVars, memberFormVars>>

(***************************************************************************)
(* The form of a member                                                    *)
(***************************************************************************)
FormStep == UNCHANGED <<selectionVars, deletionVars>> /\ UNCHANGED directorySourceVars
WriteStep == UNCHANGED <<selectionVars, deletionVars>> /\ Outdates

\* A new member, or one of the list with its units; the list may be on its way again.
OpenMember ==
  /\ Free /\ deletion = "none" /\ shown.view = "list" /\ ~details /\ navigation = {}
  /\ form' = "edited" /\ persisted' = FALSE /\ pending' = {} /\ saves' = 0 /\ lateLinks' = {} /\ unheard' = FALSE
  /\ \/ saved' = FALSE /\ links' = {} /\ created' = 0
     \/ membersHeld # "nothing" /\ saved' = TRUE /\ links' \in SUBSET Units /\ created' = 1
  /\ chosen' = links'
  /\ FormStep

ChooseUnits ==
  /\ form = "edited"
  /\ chosen' \in SUBSET Units
  /\ FormStep /\ UNCHANGED <<form, saved, persisted, pending, saves, created, links, lateLinks, unheard>>

SubmitMember ==
  /\ form = "edited" /\ saves < MaxSaves
  /\ form' = "writing" /\ saves' = saves + 1
  /\ FormStep /\ UNCHANGED <<saved, persisted, chosen, pending, created, links, lateLinks, unheard>>

\* Mutant: the form does not remember the member it has created.
RememberNothing == UNCHANGED saved /\ persisted' = TRUE

Remember == saved' = TRUE /\ persisted' = TRUE

\* createMember without a known member, updateMember with one.
ServerWrites == IF saved THEN UNCHANGED <<created, links>> ELSE created' = created + 1 /\ links' = {}

HearWritten ==
  /\ form = "writing"
  /\ ServerWrites
  /\ Remember
  /\ form' = "reading"
  /\ WriteStep /\ UNCHANGED <<chosen, pending, saves, lateLinks, unheard>>

WriteFails ==
  /\ form = "writing"
  /\ \/ FormStep /\ UNCHANGED <<created, links, unheard>>
     \/ WriteStep /\ ServerWrites /\ unheard' = TRUE
  /\ form' = "edited"
  /\ UNCHANGED <<saved, persisted, chosen, pending, saves, lateLinks>>

\* getMember: what differs from the choice is added or removed, all at once.
HearMember ==
  /\ form = "reading"
  /\ pending' = {[unit |-> u, linked |-> u \in chosen] : u \in (chosen \ links) \cup (links \ chosen)}
  /\ form' = IF pending' = {} THEN "done" ELSE "linking"
  /\ FormStep /\ UNCHANGED <<saved, persisted, chosen, saves, created, links, lateLinks, unheard>>

\* addMemberUnit, removeMemberUnit
ServerLinks(r) == links' = IF r.linked THEN links \cup {r.unit} ELSE links \ {r.unit}

HearLinked ==
  \E r \in pending :
    /\ form = "linking"
    /\ ServerLinks(r)
    /\ pending' = pending \ {r}
    /\ form' = IF pending' = {} THEN "checking" ELSE "linking"
    /\ WriteStep /\ UNCHANGED <<saved, persisted, chosen, saves, created, lateLinks, unheard>>

\* The first error ends the others, which the server may carry out all the same.
LinkFails ==
  \E r \in pending :
    /\ form = "linking"
    /\ lateLinks' \in {lateLinks \cup dropped : dropped \in SUBSET pending}
    /\ unheard' = (unheard \/ pending # {r} \/ lateLinks' # {})
    /\ pending' = {}
    /\ form' = "edited"
    /\ FormStep /\ UNCHANGED <<saved, persisted, chosen, saves, created, links>>

ServeLate ==
  \E r \in lateLinks :
    /\ lateLinks' = lateLinks \ {r}
    /\ ServerLinks(r)
    /\ WriteStep /\ UNCHANGED <<form, saved, persisted, chosen, pending, saves, created, unheard>>

HearChecked ==
  /\ form = "checking"
  /\ form' = "done"
  /\ FormStep /\ UNCHANGED <<saved, persisted, chosen, pending, saves, created, links, lateLinks, unheard>>

ReadFails ==
  /\ form \in {"reading", "checking"}
  /\ form' = "edited"
  /\ FormStep /\ UNCHANGED <<saved, persisted, chosen, pending, saves, created, links, lateLinks, unheard>>

\* Mutant: what a form has written is forgotten when it is given up.
HasWrittenDone == form = "done"

HasWritten == form = "done" \/ persisted

\* afterClosed: the list is loaded again when something was written, unless it is on its way.
CloseMember ==
  /\ form = "done" \/ form = "edited"
  /\ IF HasWritten THEN RefreshDirectory ELSE UNCHANGED directorySourceVars
  /\ form' = "closed" /\ saved' = FALSE /\ persisted' = FALSE /\ chosen' = {} /\ pending' = {}
  /\ saves' = 0 /\ created' = 0 /\ links' = {} /\ lateLinks' = {} /\ unheard' = FALSE
  /\ unshown' = (unshown \/ unheard \/ (HasWritten /\ ~MayRefresh))
  /\ UNCHANGED <<deletion, selectionVars>>

MemberInit ==
  /\ shown \in Places /\ shownRoute = shown /\ navigation = {} /\ details = WantsDetails(shown)
  /\ membersLeg = "asked" /\ unitsLeg = "asked" /\ retries = 0 /\ unitsLoading = TRUE
  /\ membersError = FALSE /\ unitsError = FALSE /\ membersHeld = "nothing" /\ unitsHeld = "nothing"
  /\ deletion = "none" /\ unshown = FALSE
  /\ form = "closed" /\ saved = FALSE /\ persisted = FALSE /\ chosen = {} /\ pending = {}
  /\ saves = 0 /\ created = 0 /\ links = {} /\ lateLinks = {} /\ unheard = FALSE

MemberNext ==
  \/ SetDirectoryView \/ SelectTarget \/ Search \/ CloseDetails \/ NavigationEnds \/ Travel
  \/ UserRefreshes \/ RetryUnits \/ RetryEnds \/ UnitsEnd \/ MembersArrive \/ MembersFail
  \/ AskToDeleteMember \/ AnswerDeletion \/ ServerDeletesMember \/ HearMemberDeleted \/ MemberDeletionFails
  \/ OpenMember \/ ChooseUnits \/ SubmitMember \/ HearWritten \/ WriteFails \/ HearMember \/ HearLinked
  \/ LinkFails \/ ServeLate \/ HearChecked \/ ReadFails \/ CloseMember

(***************************************************************************)
(* Properties                                                              *)
(***************************************************************************)
\* The window of the selection is open exactly while the map shows one, and, once the router
\* has arrived, the address says so too: whatever was clicked, closed or travelled on the way.
SelectionFollowsAddress ==
  /\ details = WantsDetails(shown)
  /\ navigation = {} => shown = shownRoute

\* Units that are displayed as complete come from an answer, whichever of the two requests
\* of a load or of a retry ended first, or failed.
UnitsAreAnswered == ~DirectoryLoading /\ ~membersError /\ ~unitsError => unitsHeld = "answer"

\* "la reprise réutilise la fiche déjà créée et ne produit pas de doublon"
\* (docs/fiche-validation.md:412): one form makes one member, except for an answer that was lost.
OneMemberPerForm == created > 1 => unheard

\* A form that announces its success has left the member with the units that were chosen,
\* after however many attempts that stopped half way; requests that were dropped in flight
\* are the exception.
SavedAsEntered == form = "done" /\ ~unheard => links = chosen

\* A list at rest shows every write of this page that it has heard of, also of a form that was
\* given up half way, whatever loads, retries and failures the write met; a write whose
\* refresh() was dropped is the exception, as the load on its way may bring what was read before.
ListFollowsWrites ==
  ~DirectoryLoading /\ ~membersError /\ form = "closed" /\ deletion # "deleted" /\ ~unshown
  => membersHeld = "current"

DirectoryIsCoherent ==
  SelectionFollowsAddress /\ UnitsAreAnswered /\ OneMemberPerForm /\ SavedAsEntered /\ ListFollowsWrites
==============================================================================
