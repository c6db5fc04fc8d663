------------------------------ MODULE EmailPage ------------------------------
(***************************************************************************)
(* The page of a campaign's messages (email-list.component.ts and          *)
(* email-sending-popup.component.ts) on its paged source, with the server  *)
(* and the other administrators behind it.                                 *)
(*                                                                         *)
(* An operation is confirmed in a dialog.  It captures the rows and the    *)
(* page's revision when it opens and compares them when it has closed: the *)
(* page can be used again, and moves through the browser's history, while  *)
(* it fades away.  The revision is only compared with the value one dialog *)
(* captured, so a flag on the dialog that a new revision sets stands for   *)
(* the counter.                                                            *)
(*                                                                         *)
(* The server is what EmailDelivery promises: WAITING here also stands for *)
(* ERROR, both may be sent, and SENT for READ and UNKNOWN, both may be     *)
(* reset.  A request whose answer the page no longer hears, cancelled or   *)
(* lost, may be carried out later or never: that is a step some other      *)
(* administrator might have taken.                                         *)
(***************************************************************************)
EXTENDS PagedSource  \* Lists: the campaigns

CONSTANTS
  Emails,        \* the messages, numbered from the oldest
  NoCampaign,
  CampaignOf(_), \* the campaign of a message
  Matches(_, _)  \* a search finds the recipient of a message

ASSUME EmailPageAssumption ==
  /\ IsFiniteSet(Emails) /\ Emails \subseteq Nat
  /\ NoCampaign \notin Lists
  /\ PageSizes \subseteq Nat \ {0} /\ \E s \in PageSizes : \A t \in PageSizes : s <= t
  /\ "" \in Queries
  /\ "" \in States

VARIABLES
  emails,        \* table email: the state of each message, DELETED when there is none
  campaign,      \* route: the campaign the page is at
  connected,     \* the campaign of the source the table is connected to, or NoCampaign
  opening,       \* getEmailCampaign is in flight
  unopened,      \* campaignError
  routeState,    \* the state filter of the route
  busy,          \* busyAction
  confirm,       \* the dialog that asks for a confirmation
  batch,         \* deletions and resets whose answer the page waits for
  popup          \* EmailSendingPopupComponent

pageVars == <<campaign, connected, opening, unopened, routeState>>
workVars == <<busy, confirm, batch, popup>>
vars == <<controls, flights, loading, failed, rows, answered, selected,
          emails, campaign, connected, opening, unopened, routeState, busy, confirm, batch, popup>>

EmailStates == {"WAITING", "SENDING", "SENT", "DELETED"}

NoDialog == [stage |-> "none"]
NoPopup == [stage |-> "none"]

(***************************************************************************)
(* What the page shows and permits                                         *)
(***************************************************************************)
Rows == [id : Emails, state : EmailStates]

CanSend(row) == row.state = "WAITING"
CanReset(row) == row.state = "SENT"

Permitted(op, row) ==
  \/ op = "send" /\ CanSend(row)
  \/ op = "reset" /\ CanReset(row)
  \/ op = "delete" /\ row.state # "SENDING"

CanAct == ~loading /\ ~opening /\ ~unopened /\ ~busy
Usable(row) == CanAct /\ row \in rows

\* A dialog that is not closing covers the page.
Covered == confirm.stage = "open" \/ popup.stage \in {"open", "asking"}

Usual == ~Covered /\ ~busy /\ ~opening /\ ~unopened

(***************************************************************************)
(* The list: ListEmailPage                                                 *)
(***************************************************************************)
Found(q) == {e \in Emails : /\ CampaignOf(e) = q.list
                            /\ emails[e] # "DELETED"
                            /\ Matches(q.query, e)
                            /\ q.state = "" \/ emails[e] = q.state}

Rank(e, q) == Cardinality({f \in Found(q) : IF q.order = "asc" THEN f < e ELSE f > e})

LastPage(q) == IF Found(q) = {} THEN 0 ELSE (Cardinality(Found(q)) - 1) \div q.size

PageFound(q) == IF q.page <= LastPage(q) THEN q.page ELSE LastPage(q)

ItemsFound(q) == {[id |-> e, state |-> emails[e]] : e \in {e \in Found(q) : Rank(e, q) \div q.size = PageFound(q)}}

(***************************************************************************)
(* Loading                                                                 *)
(***************************************************************************)
Init ==
  /\ emails = [e \in Emails |-> "WAITING"]
  /\ campaign \in Lists
  /\ connected = NoCampaign
  /\ opening = TRUE
  /\ unopened = FALSE
  /\ routeState = ""
  /\ busy = FALSE
  /\ confirm = NoDialog
  /\ batch = {}
  /\ popup = NoPopup
  /\ controls = NewControls(campaign, "")
  /\ flights = {}
  /\ loading = FALSE
  /\ failed = FALSE
  /\ rows = {}
  /\ answered = NoAnswer
  /\ selected = {}

\* revision++: what the dialog has captured is no longer current.
Outdated == IF confirm = NoDialog THEN NoDialog ELSE [confirm EXCEPT !.current = FALSE]

\* refresh(): an empty source answers at once with nothing.
Refresh ==
  IF connected = NoCampaign
    THEN UNCHANGED sourceVars /\ UNCHANGED confirm
    ELSE Load(controls, "asked") /\ confirm' = Outdated

Reload(load) ==
  /\ load
  /\ confirm' = Outdated
  /\ UNCHANGED <<emails, pageVars, busy, batch, popup>>

UserReloads ==
  /\ Usual
  /\ connected # NoCampaign
  /\ \/ \E q \in Queries : Reload(SetFilter(q))
     \/ \E o \in Orders : Reload(SetSort(o))
     \/ \E s \in PageSizes : \E p \in 0 .. LastPage([controls EXCEPT !.size = s]) : Reload(SetPage(p, s))
     \/ ~loading /\ Reload(Load(controls, "asked"))

\* setState() of the filter, and the query parameters the router hands back when the user
\* moves through the history, dialogs open or not; the source compares with its own filter.
ShowState(s) ==
  /\ routeState' = s
  /\ IF connected # NoCampaign /\ s # controls.state
       THEN Load([controls EXCEPT !.state = s, !.page = 0], "asked") /\ confirm' = Outdated
       ELSE UNCHANGED sourceVars /\ UNCHANGED confirm
  /\ UNCHANGED <<emails, campaign, connected, opening, unopened, busy, batch, popup>>

SetState ==
  \E s \in States :
    /\ s # routeState /\ Settings([controls EXCEPT !.state = s]) <= MaxSettings
    /\ ~Covered /\ ShowState(s)

\* campaign$: another campaign, or the same one again after an error.
OpenCampaign(c) ==
  /\ campaign' = c
  /\ opening' = TRUE
  /\ unopened' = FALSE
  /\ confirm' = Outdated
  /\ selected' = {}
  /\ UNCHANGED <<controls, flights, loading, failed, rows, answered>>
  /\ UNCHANGED <<emails, connected, routeState, busy, batch, popup>>

Navigate == \E c \in Lists \ {campaign} : ~Covered /\ OpenCampaign(c)
ReloadCampaign == unopened /\ ~Covered /\ OpenCampaign(campaign)

\* The campaign arrives: a new source, which the table loads when it connects.
CampaignArrives ==
  /\ opening
  /\ opening' = FALSE
  /\ connected' = campaign
  /\ Connect(NewControls(campaign, routeState))
  /\ confirm' = Outdated
  /\ UNCHANGED <<emails, campaign, unopened, routeState, busy, batch, popup>>

CampaignFails ==
  /\ opening
  /\ opening' = FALSE
  /\ unopened' = TRUE
  /\ connected' = NoCampaign
  /\ Disconnect
  /\ UNCHANGED <<emails, campaign, routeState, workVars>>

SourceStep ==
  /\ \/ TimerFires \/ ServerReads(PageFound, ItemsFound) \/ Deliver \/ LoadFails
  /\ UNCHANGED <<emails, pageVars, workVars>>

Select ==
  /\ Usual
  /\ ToggleAll \/ \E row \in rows : Toggle(row)
  /\ UNCHANGED <<emails, pageVars, workVars>>

(***************************************************************************)
(* Operations                                                              *)
(***************************************************************************)
\* confirmRows: the rows are frozen as they are displayed.
Ask(op, chosen) ==
  /\ Usual
  /\ confirm = NoDialog
  /\ chosen # {}
  /\ \A row \in chosen : Usable(row) /\ Permitted(op, row)
  /\ confirm' = [stage |-> "open", op |-> op, frozen |-> chosen, current |-> TRUE,
                 question |-> [controls EXCEPT !.list = campaign]]
  /\ UNCHANGED <<sourceVars, emails, pageVars, busy, batch, popup>>

AskForRow == \E row \in rows, op \in {"delete", "send", "reset"} : Ask(op, {row})
BulkDelete == Ask("delete", {row \in selected : row.state # "SENDING"})
BulkSend == Ask("send", {row \in selected : CanSend(row)})

Accept ==
  /\ confirm.stage = "open"
  /\ confirm' = [confirm EXCEPT !.stage = "closing"]
  /\ UNCHANGED <<sourceVars, emails, pageVars, busy, batch, popup>>

\* Refused, or closed by a move through the history.
Decline ==
  /\ confirm.stage = "open"
  /\ confirm' = NoDialog
  /\ UNCHANGED <<sourceVars, emails, pageVars, busy, batch, popup>>

\* Mutant: the page is not asked whether it has been reloaded.
StillUsable == \A row \in confirm.frozen : Usable(row)

StillValid == confirm.current /\ \A row \in confirm.frozen : Usable(row)

\* afterClosed: the list has changed, and the rows have to be chosen again.
Outrun ==
  /\ confirm.stage = "closing"
  /\ ~StillValid
  /\ confirm' = NoDialog
  /\ UNCHANGED <<sourceVars, emails, pageVars, busy, batch, popup>>

\* deleteRows, and the reset of one row: every request leaves at once.
StartBatch ==
  /\ confirm.stage = "closing"
  /\ confirm.op \in {"delete", "reset"}
  /\ StillValid
  /\ confirm' = NoDialog
  /\ busy' = TRUE
  /\ batch' = {[op |-> confirm.op, id |-> row.id] : row \in confirm.frozen}
  /\ UNCHANGED <<sourceVars, emails, pageVars, popup>>

\* sendRows: the popup sends one message after the other.
StartSending ==
  /\ confirm.stage = "closing"
  /\ confirm.op = "send"
  /\ StillValid
  /\ confirm' = NoDialog
  /\ busy' = TRUE
  /\ popup' = [stage |-> "open", todo |-> {row.id : row \in confirm.frozen}, sending |-> {}, claimed |-> FALSE]
  /\ UNCHANGED <<sourceVars, emails, pageVars, batch>>

SendNext ==
  /\ popup.stage \in {"open", "asking"}
  /\ popup.sending = {}
  /\ \E e \in popup.todo : popup' = [popup EXCEPT !.sending = {e}, !.todo = @ \ {e}]
  /\ UNCHANGED <<sourceVars, emails, pageVars, busy, confirm, batch>>

Unanswered == IF popup = NoPopup THEN {} ELSE popup.todo \cup popup.sending

AskToAbort ==
  /\ popup.stage = "open"
  /\ Unanswered # {}
  /\ popup' = [popup EXCEPT !.stage = "asking"]
  /\ UNCHANGED <<sourceVars, emails, pageVars, busy, confirm, batch>>

KeepSending ==
  /\ popup.stage = "asking"
  /\ popup' = [popup EXCEPT !.stage = "open"]
  /\ UNCHANGED <<sourceVars, emails, pageVars, busy, confirm, batch>>

\* The user stops the sending, or leaves the popup through the history.
Abort ==
  /\ popup.stage \in {"open", "asking"}
  /\ popup' = [popup EXCEPT !.stage = "closing", !.todo = {}, !.sending = {}, !.claimed = FALSE]
  /\ UNCHANGED <<sourceVars, emails, pageVars, busy, confirm, batch>>

Close ==
  /\ popup.stage = "open"
  /\ Unanswered = {}
  /\ popup' = [popup EXCEPT !.stage = "closing"]
  /\ UNCHANGED <<sourceVars, emails, pageVars, busy, confirm, batch>>

Closed ==
  /\ popup.stage = "closing"
  /\ popup' = NoPopup
  /\ busy' = FALSE
  /\ Refresh
  /\ UNCHANGED <<emails, pageVars, batch>>

(***************************************************************************)
(* The server, and what the page hears of it                               *)
(***************************************************************************)
\* forkJoin completes with its last answer; its first error cancels the others.
HearBatch(r, ok) ==
  /\ batch' = IF ok THEN batch \ {r} ELSE {}
  /\ IF batch' = {}
       THEN busy' = FALSE /\ Refresh
       ELSE UNCHANGED <<sourceVars, busy, confirm>>
  /\ UNCHANGED <<pageVars, popup>>

\* A deletion or a reset, refused when the message is in another state by now.
ServeBatch ==
  \E r \in batch :
    LET fits == IF r.op = "delete" THEN emails[r.id] \notin {"SENDING", "DELETED"} ELSE emails[r.id] = "SENT"
    IN  /\ emails' = IF fits THEN [emails EXCEPT ![r.id] = IF r.op = "delete" THEN "DELETED" ELSE "WAITING"]
                             ELSE emails
        /\ HearBatch(r, fits)

\* The popup counts the message as sent or as an error and goes on to the next.
HearSending ==
  /\ popup' = [popup EXCEPT !.sending = {}, !.claimed = FALSE]
  /\ UNCHANGED <<sourceVars, pageVars, busy, confirm, batch>>

Sending == IF popup = NoPopup THEN {} ELSE popup.sending

Claim ==
  \E e \in Sending :
    /\ ~popup.claimed
    /\ emails[e] = "WAITING"
    /\ emails' = [emails EXCEPT ![e] = "SENDING"]
    /\ popup' = [popup EXCEPT !.claimed = TRUE]
    /\ UNCHANGED <<sourceVars, pageVars, busy, confirm, batch>>

RefuseSending ==
  \E e \in Sending :
    /\ ~popup.claimed
    /\ emails[e] # "WAITING"
    /\ HearSending
    /\ UNCHANGED emails

\* Mutant: a failed message is tried again instead of being counted as an error.
EndSendingRetried ==
  \E e \in Sending, outcome \in {"SENT", "WAITING"} :
    /\ popup.claimed
    /\ emails' = [emails EXCEPT ![e] = outcome]
    /\ popup' = IF outcome = "SENT" THEN [popup EXCEPT !.sending = {}, !.claimed = FALSE]
                                    ELSE [popup EXCEPT !.claimed = FALSE]
    /\ UNCHANGED <<sourceVars, pageVars, busy, confirm, batch>>

EndSending ==
  \E e \in Sending, outcome \in {"SENT", "WAITING"} :
    /\ popup.claimed
    /\ emails' = [emails EXCEPT ![e] = outcome]
    /\ HearSending

\* The connection breaks: the page hears an error, whatever becomes of the request.
Lose ==
  /\ \/ \E r \in batch : HearBatch(r, FALSE)
     \/ Sending # {} /\ HearSending
  /\ UNCHANGED emails

\* Another administrator, or a request nobody waits for, sends, resets or deletes.
Others ==
  \E e \in Emails :
    /\ ~(e \in Sending /\ popup.claimed)
    /\ \E next \in CASE emails[e] = "WAITING" -> {"SENDING", "DELETED"}
                     [] emails[e] = "SENDING" -> {"SENT", "WAITING"}
                     [] emails[e] = "SENT" -> {"WAITING", "DELETED"}
                     [] emails[e] = "DELETED" -> {} :
         emails' = [emails EXCEPT ![e] = next]
    /\ UNCHANGED <<sourceVars, pageVars, workVars>>

(***************************************************************************)
(* Specification                                                           *)
(***************************************************************************)
Serve == ServeBatch \/ Claim \/ RefuseSending \/ EndSending \/ Lose

Next ==
  \/ UserReloads \/ SetState \/ Navigate \/ ReloadCampaign \/ CampaignArrives \/ CampaignFails
  \/ SourceStep \/ Select
  \/ AskForRow \/ BulkDelete \/ BulkSend \/ Accept \/ Decline \/ Outrun
  \/ StartBatch \/ StartSending \/ SendNext \/ AskToAbort \/ KeepSending \/ Abort \/ Close \/ Closed
  \/ Serve \/ Others

Spec == Init /\ [][Next]_vars

\* A request ends with an answer or an error, and concatMap goes on by itself.
FairSpec == Spec /\ WF_vars(Serve) /\ WF_vars(SendNext)

(***************************************************************************)
(* Properties                                                              *)
(***************************************************************************)
Question == [controls EXCEPT !.list = campaign]

\* "La sélection porte uniquement sur la page affichée" (email-list.component.html:84): whatever is
\* ticked is a row of the answer to what the page asks for now.
SelectionIsOnPage ==
  selected # {} =>
    /\ ~loading /\ ~opening
    /\ answered = Question
    /\ selected \subseteq rows

\* An operation begins on the rows that were confirmed, displayed as they were then, on
\* the page they were chosen on.
ConfirmedAsShown ==
  [][~busy /\ busy' =>
       /\ ~loading
       /\ confirm.frozen \subseteq rows
       /\ confirm.question = Question]_vars

\* What the reader sees answers the latest question: which campaign, search, filter, order
\* and page, whichever loads and campaigns were under way.
Grants(q) == {[q EXCEPT !.page = p] : p \in 0 .. q.page}

Reader == INSTANCE LatestAnswer WITH
  Questions <- Controls,
  Waiting <- [reader |-> "waits"], Failed <- [reader |-> "is told"],
  asked <- Question,
  shown <- IF opening \/ loading THEN [reader |-> "waits"]
           ELSE IF unopened \/ failed THEN [reader |-> "is told"] ELSE answered

ImplementsLatestAnswer == Reader!Spec

\* Every operation that has begun is answered for each of its messages, or stopped.
OperationsEnd == (batch # {} \/ Unanswered # {}) ~> (batch = {} /\ Unanswered = {})
==============================================================================
