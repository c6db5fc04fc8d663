---------------------------- MODULE EmailPage_proofs ----------------------------
(***************************************************************************)
(* For any messages, campaigns, searches and sizes of pages: what is       *)
(* ticked is on the page, an operation begins on what was confirmed, and   *)
(* the reader never sees the answer to an earlier question.  One flight at *)
(* the most carries what the page asks for, and rows that do not move are  *)
(* its answer; a dialog that is still current was opened on them.          *)
(***************************************************************************)
EXTENDS EmailPage, FiniteSetTheorems, TLAPS

DialogRow(d) ==
  d = [stage |-> d.stage, op |-> d.op, frozen |-> d.frozen, current |-> d.current, question |-> d.question]

PageTyped ==
  /\ controls \in Controls /\ campaign \in Lists /\ routeState \in States
  /\ confirm = NoDialog \/ (DialogRow(confirm) /\ confirm.stage # "none")

\* Of what the page asks for, or, once it was read, of an earlier page of it.
FlightIsCurrent(f) ==
  /\ f = [stage |-> f.stage, asks |-> f.asks, items |-> f.items]
  /\ \/ f.stage \in {"timer", "asked"} /\ f.asks = controls
     \/ f.stage = "read" /\ \E p \in 0 .. controls.page : f.asks = [controls EXCEPT !.page = p]

FlightsAreCurrent ==
  /\ \A f, g \in flights : f = g
  /\ loading <=> flights # {}
  /\ loading => ~failed
  /\ \A f \in flights : FlightIsCurrent(f)

\* Rows that do not move answer the source, and the source is that of the page.
RowsAreAnswered ==
  /\ ~loading => rows = {} \/ answered = controls
  /\ ~opening /\ ~unopened => connected = campaign
  /\ connected # NoCampaign => controls.list = connected
  /\ unopened => ~opening /\ ~loading /\ rows = {} /\ connected = NoCampaign

\* Nothing is ticked while something is on its way.
SelectionIsOfRows ==
  /\ loading \/ opening => selected = {}
  /\ selected \subseteq rows

\* A dialog that is current was opened on the page as it is.
DialogIsCurrent == confirm # NoDialog /\ confirm.current => ~loading /\ confirm.question = Question

EmailIInv == PageTyped /\ FlightsAreCurrent /\ RowsAreAnswered /\ SelectionIsOfRows /\ DialogIsCurrent

LEMMA EmailHolds == EmailIInv => SelectionIsOnPage
<1> SUFFICES ASSUME EmailIInv, selected # {}
             PROVE  ~loading /\ ~opening /\ answered = Question /\ selected \subseteq rows
  BY DEF SelectionIsOnPage
<1>1. ~loading /\ ~opening /\ selected \subseteq rows
  BY DEF EmailIInv, SelectionIsOfRows
<1>2. answered = controls /\ controls.list = campaign
  BY <1>1, EmailPageAssumption DEF EmailIInv, RowsAreAnswered, PageTyped
<1>3. controls = [controls EXCEPT !.list = campaign]
  BY <1>2 DEF EmailIInv, PageTyped, Controls
<1> QED
  BY <1>1, <1>2, <1>3 DEF Question

\* What a new source asks for.
LEMMA NewControlsTyped ==
  ASSUME NEW c \in Lists, NEW s \in States
  PROVE  NewControls(c, s) \in Controls /\ NewControls(c, s).list = c
  BY EmailPageAssumption DEF NewControls, Controls, Orders

LEMMA EmailStarts == Init => EmailIInv
<1> SUFFICES ASSUME Init PROVE EmailIInv
  OBVIOUS
<1>1. controls \in Controls
  BY NewControlsTyped, EmailPageAssumption DEF Init
<1> QED
  BY <1>1, EmailPageAssumption
     DEF Init, EmailIInv, PageTyped, FlightsAreCurrent, RowsAreAnswered, SelectionIsOfRows, DialogIsCurrent

\* A dialog that was outdated says so, and is otherwise as it was.
LEMMA OutdatedDialog ==
  ASSUME PageTyped
  PROVE  /\ Outdated = NoDialog \/ (DialogRow(Outdated) /\ Outdated.stage # "none" /\ ~Outdated.current)
         /\ Outdated = NoDialog <=> confirm = NoDialog
<1>1. CASE confirm = NoDialog
  BY <1>1 DEF Outdated
<1>2. CASE confirm # NoDialog
  <2>1. PICK s, o, f, c, q : confirm = [stage |-> s, op |-> o, frozen |-> f, current |-> c, question |-> q] /\ s # "none"
    BY <1>2 DEF PageTyped, DialogRow
  <2>2. Outdated = [stage |-> s, op |-> o, frozen |-> f, current |-> FALSE, question |-> q]
    BY <1>2, <2>1 DEF Outdated
  <2>3. Outdated.stage # "none"
    BY <2>1, <2>2
  <2>4. DialogRow(Outdated) /\ ~Outdated.current
    BY <2>2 DEF DialogRow
  <2>5. Outdated # NoDialog
    BY <2>3 DEF NoDialog
  <2> QED
    BY <1>2, <2>3, <2>4, <2>5
<1> QED
  BY <1>1, <1>2

\* load() of the source that is connected.
LEMMA Loading ==
  ASSUME EmailIInv, NEW c \in Controls, c.list = controls.list, NEW stage \in {"timer", "asked"}, Load(c, stage),
         confirm' = Outdated, UNCHANGED <<campaign, connected, opening, unopened>>, routeState' \in States,
         connected # NoCampaign
  PROVE  EmailIInv'
<1>1. PageTyped'
  BY OutdatedDialog DEF EmailIInv, PageTyped, Load
<1>2. PICK f : f = NewFlight(c, stage)
  OBVIOUS
<1>3. flights' = {f} /\ loading' = TRUE /\ failed' = FALSE /\ controls' = c /\ selected' = {} /\ rows' = rows
  BY <1>2 DEF Load
<1>4. f = [stage |-> f.stage, asks |-> f.asks, items |-> f.items] /\ f.stage = stage /\ f.asks = c
  BY <1>2 DEF NewFlight
<1>5. FlightsAreCurrent'
  BY <1>3, <1>4 DEF FlightsAreCurrent, FlightIsCurrent
<1>6. RowsAreAnswered' /\ SelectionIsOfRows'
  BY <1>3 DEF EmailIInv, RowsAreAnswered, SelectionIsOfRows
<1>7. DialogIsCurrent'
  BY OutdatedDialog DEF EmailIInv, DialogIsCurrent
<1> QED
  BY <1>1, <1>5, <1>6, <1>7 DEF EmailIInv

\* A step of the dialogs, the requests or the server, with nothing loaded.
LEMMA PageRests ==
  ASSUME EmailIInv, UNCHANGED <<sourceVars, pageVars>>,
         \/ UNCHANGED confirm
         \/ confirm' = NoDialog
         \/ DialogRow(confirm') /\ confirm'.stage # "none" /\ confirm' # NoDialog
            /\ (confirm'.current => ~loading /\ confirm'.question = Question)
  PROVE  EmailIInv'
<1> USE DEF sourceVars, pageVars
<1>1. PageTyped'
  BY DEF EmailIInv, PageTyped, DialogRow
<1>2. FlightsAreCurrent' /\ RowsAreAnswered' /\ SelectionIsOfRows'
  BY DEF EmailIInv, FlightsAreCurrent, FlightIsCurrent, RowsAreAnswered, SelectionIsOfRows
<1>3. DialogIsCurrent'
  BY DEF EmailIInv, DialogIsCurrent, Question
<1> QED
  BY <1>1, <1>2, <1>3 DEF EmailIInv

\* The steps that load: what they ask for, and how.
LEMMA ReloadSteps ==
  ASSUME EmailIInv, UserReloads \/ SetState \/ Closed \/ ServeBatch \/ Lose
  PROVE  \/ UNCHANGED <<sourceVars, pageVars, confirm>>
         \/ /\ UNCHANGED <<sourceVars, campaign, connected, opening, unopened, confirm>>
            /\ routeState' \in States
         \/ /\ connected # NoCampaign /\ UNCHANGED <<campaign, connected, opening, unopened>>
            /\ routeState' \in States /\ confirm' = Outdated
            /\ \E c \in Controls : \E stage \in {"timer", "asked"} : c.list = controls.list /\ Load(c, stage)
<1> DEFINE Loads == \E c \in Controls : \E stage \in {"timer", "asked"} : c.list = controls.list /\ Load(c, stage)
<1>1. controls \in Controls /\ routeState \in States
  BY DEF EmailIInv, PageTyped
<1>2. ASSUME Load(controls, "asked") PROVE Loads
  BY <1>1, <1>2
<1>3. CASE UserReloads
  <2>1. connected # NoCampaign /\ UNCHANGED pageVars /\ confirm' = Outdated
    BY <1>3 DEF UserReloads, Reload
  <2>2. ASSUME NEW q \in Queries, SetFilter(q) PROVE Loads
    <3>1. Load([controls EXCEPT !.query = q, !.page = 0], "timer")
      BY <2>2 DEF SetFilter
    <3>2. /\ [controls EXCEPT !.query = q, !.page = 0] \in Controls
          /\ [controls EXCEPT !.query = q, !.page = 0].list = controls.list
      BY <1>1 DEF Controls
    <3> QED
      BY <3>1, <3>2
  <2>3. ASSUME NEW o \in Orders, SetSort(o) PROVE Loads
    <3>1. Load([controls EXCEPT !.order = o, !.page = 0], "asked")
      BY <2>3 DEF SetSort
    <3>2. /\ [controls EXCEPT !.order = o, !.page = 0] \in Controls
          /\ [controls EXCEPT !.order = o, !.page = 0].list = controls.list
      BY <1>1 DEF Controls
    <3> QED
      BY <3>1, <3>2
  <2>4. ASSUME NEW s \in PageSizes, NEW p \in 0 .. LastPage([controls EXCEPT !.size = s]), SetPage(p, s) PROVE Loads
    <3>1. p \in Nat
      BY <2>4
    <3>2. (IF s = controls.size THEN p ELSE 0) \in Nat
      BY <3>1
    <3>3. PICK n \in Nat : Load([controls EXCEPT !.page = n, !.size = s], "asked")
      BY <2>4, <3>2 DEF SetPage
    <3>4. /\ [controls EXCEPT !.page = n, !.size = s] \in Controls
          /\ [controls EXCEPT !.page = n, !.size = s].list = controls.list
      BY <1>1 DEF Controls
    <3> QED
      BY <3>3, <3>4
  <2>6. Loads
    BY <1>2, <1>3, <2>2, <2>3, <2>4 DEF UserReloads, Reload
  <2> QED
    BY <1>1, <2>1, <2>6 DEF pageVars
<1>4. CASE SetState
  <2>1. PICK s \in States : ShowState(s)
    BY <1>4 DEF SetState
  <2>2. CASE connected # NoCampaign /\ s # controls.state
    <3>1. Load([controls EXCEPT !.state = s, !.page = 0], "asked") /\ confirm' = Outdated
      BY <2>1, <2>2 DEF ShowState
    <3>2. [controls EXCEPT !.state = s, !.page = 0] \in Controls /\ [controls EXCEPT !.state = s, !.page = 0].list = controls.list
      BY <1>1, EmailPageAssumption DEF Controls
    <3> QED
      BY <2>1, <2>2, <3>1, <3>2 DEF ShowState
  <2>3. CASE ~(connected # NoCampaign /\ s # controls.state)
    BY <2>1, <2>3 DEF ShowState
  <2> QED
    BY <2>2, <2>3
<1>5. ASSUME Refresh, UNCHANGED pageVars
      PROVE  \/ UNCHANGED <<sourceVars, pageVars, confirm>>
             \/ connected # NoCampaign /\ confirm' = Outdated /\ Loads
  BY <1>2, <1>5 DEF Refresh
<1>6. CASE Closed
  BY <1>1, <1>5, <1>6 DEF Closed, pageVars
<1>7. CASE ServeBatch \/ Lose
  <2>1. UNCHANGED pageVars /\ (Refresh \/ UNCHANGED <<sourceVars, confirm>>)
    BY <1>7 DEF ServeBatch, Lose, HearBatch, HearSending
  <2> QED
    BY <1>1, <1>5, <2>1 DEF pageVars
<1> QED
  BY <1>3, <1>4, <1>6, <1>7

LEMMA Quotients == \A n \in Nat, d \in Nat \ {0} : n \div d \in Nat
  OBVIOUS

\* A server that finds the page empty answers with an earlier one, never with a later one.
LEMMA PageFoundIsEarlier ==
  ASSUME NEW q \in Controls
  PROVE  PageFound(q) \in 0 .. q.page
<1>1. q.page \in Nat /\ q.size \in Nat \ {0}
  BY EmailPageAssumption DEF Controls
<1>2. LastPage(q) \in Nat
  <2>1. IsFiniteSet(Found(q))
    BY FS_Subset, EmailPageAssumption DEF Found
  <2>2. Cardinality(Found(q)) \in Nat /\ (Cardinality(Found(q)) = 0 <=> Found(q) = {})
    BY <2>1, FS_CardinalityType, FS_EmptySet
  <2>3. Found(q) # {} => Cardinality(Found(q)) - 1 \in Nat
    BY <2>2
  <2> QED
    BY <1>1, <2>3, Quotients DEF LastPage
<1> QED
  BY <1>1, <1>2 DEF PageFound

LEMMA SourceMoves ==
  ASSUME EmailIInv, SourceStep
  PROVE  EmailIInv'
<1>1. /\ UNCHANGED <<campaign, connected, opening, unopened, routeState, confirm>>
      /\ PageTyped /\ FlightsAreCurrent /\ RowsAreAnswered /\ SelectionIsOfRows /\ DialogIsCurrent
      /\ controls \in Controls
  BY DEF SourceStep, pageVars, workVars, EmailIInv, PageTyped
<1>2. CASE TimerFires \/ ServerReads(PageFound, ItemsFound)
  <2>1. PICK f \in flights :
          /\ flights' = (flights \ {f}) \cup {NewFlight(controls, "asked")}
             \/ flights' = (flights \ {f})
                  \cup {[stage |-> "read", asks |-> [f.asks EXCEPT !.page = PageFound(f.asks)], items |-> ItemsFound(f.asks)]}
          /\ f.stage = "asked" \/ flights' = (flights \ {f}) \cup {NewFlight(controls, "asked")}
          /\ UNCHANGED <<controls, loading, failed, rows, answered, selected>>
    BY <1>2 DEF TimerFires, ServerReads
  <2>2. flights \ {f} = {} /\ loading /\ ~failed
    BY <1>1 DEF FlightsAreCurrent
  <2>3. PICK g : flights' = {g} /\ FlightIsCurrent(g)
    <3>1. CASE flights' = (flights \ {f}) \cup {NewFlight(controls, "asked")}
      <4>1. FlightIsCurrent(NewFlight(controls, "asked"))
        BY DEF FlightIsCurrent, NewFlight
      <4> QED
        BY <2>2, <3>1, <4>1
    <3>2. CASE f.stage = "asked" /\ flights' = (flights \ {f})
                 \cup {[stage |-> "read", asks |-> [f.asks EXCEPT !.page = PageFound(f.asks)], items |-> ItemsFound(f.asks)]}
      <4>1. f.asks = controls
        BY <1>1, <3>2 DEF FlightsAreCurrent, FlightIsCurrent
      <4>2. PICK p \in 0 .. controls.page : p = PageFound(f.asks)
        BY <1>1, <4>1, PageFoundIsEarlier
      <4>3. PICK g : g = [stage |-> "read", asks |-> [controls EXCEPT !.page = p], items |-> ItemsFound(f.asks)]
        OBVIOUS
      <4>4. FlightIsCurrent(g)
        BY <4>3 DEF FlightIsCurrent
      <4> QED
        BY <2>2, <3>2, <4>1, <4>2, <4>3, <4>4
    <3> QED
      BY <2>1, <3>1, <3>2
  <2>4. FlightIsCurrent(g)'
    BY <2>1, <2>3 DEF FlightIsCurrent
  <2>5. FlightsAreCurrent'
    BY <2>1, <2>2, <2>3, <2>4 DEF FlightsAreCurrent
  <2> QED
    BY <1>1, <2>1, <2>5 DEF EmailIInv, PageTyped, RowsAreAnswered, SelectionIsOfRows, DialogIsCurrent, Question
<1>3. CASE Deliver
  <2>1. PICK f \in flights :
          /\ f.stage = "read" /\ rows' = f.items
          /\ controls' = [controls EXCEPT !.page = f.asks.page, !.size = f.asks.size]
          /\ answered' = f.asks /\ loading' = FALSE /\ flights' = flights \ {f} /\ selected' = selected \cap f.items
    BY <1>3 DEF Deliver
  <2>2. PICK p \in 0 .. controls.page : f.asks = [controls EXCEPT !.page = p]
    BY <1>1, <2>1 DEF FlightsAreCurrent, FlightIsCurrent
  <2>3. controls' = f.asks /\ controls' \in Controls /\ controls'.list = controls.list
    <3>1. PICK l \in Lists, q \in Queries, s \in States, o \in Orders, n \in Nat, z \in PageSizes :
            controls = [list |-> l, query |-> q, state |-> s, order |-> o, page |-> n, size |-> z]
      BY <1>1 DEF Controls
    <3>2. f.asks = [list |-> l, query |-> q, state |-> s, order |-> o, page |-> p, size |-> z] /\ p \in Nat
      BY <2>2, <3>1
    <3>3. f.asks.page = p /\ f.asks.size = z
      BY <3>2
    <3>4. controls' = [controls EXCEPT !.page = p, !.size = z]
      BY <2>1, <3>3
    <3>5. controls' = [list |-> l, query |-> q, state |-> s, order |-> o, page |-> p, size |-> z]
      BY <3>1, <3>4
    <3> QED
      BY <3>1, <3>2, <3>5 DEF Controls
  <2>4. loading /\ flights' = {}
    BY <1>1, <2>1 DEF FlightsAreCurrent
  <2>5. selected' = {}
    BY <1>1, <2>1, <2>4 DEF SelectionIsOfRows
  <2>6. ~unopened
    BY <1>1, <2>4 DEF RowsAreAnswered
  <2>7. confirm = NoDialog \/ ~confirm.current
    BY <1>1, <2>4 DEF DialogIsCurrent
  <2>8. PageTyped' /\ FlightsAreCurrent' /\ RowsAreAnswered' /\ SelectionIsOfRows'
    BY <1>1, <2>1, <2>3, <2>4, <2>5, <2>6 DEF PageTyped, FlightsAreCurrent, RowsAreAnswered, SelectionIsOfRows
  <2> QED
    BY <1>1, <2>7, <2>8 DEF EmailIInv, DialogIsCurrent
<1>4. CASE LoadFails
  <2>1. PICK f \in flights :
          /\ rows' = {} /\ loading' = FALSE /\ flights' = flights \ {f} /\ selected' = {} /\ UNCHANGED controls
    BY <1>4 DEF LoadFails
  <2>2. loading /\ flights' = {}
    BY <1>1, <2>1 DEF FlightsAreCurrent
  <2> QED
    BY <1>1, <2>1, <2>2
       DEF EmailIInv, PageTyped, FlightsAreCurrent, RowsAreAnswered, SelectionIsOfRows, DialogIsCurrent, Question
<1> QED
  BY <1>2, <1>3, <1>4 DEF SourceStep

LEMMA CampaignMoves ==
  ASSUME EmailIInv, Navigate \/ ReloadCampaign \/ CampaignArrives \/ CampaignFails
  PROVE  EmailIInv'
<1>1. /\ PageTyped /\ FlightsAreCurrent /\ RowsAreAnswered /\ SelectionIsOfRows /\ DialogIsCurrent
      /\ controls \in Controls /\ campaign \in Lists /\ routeState \in States
  BY DEF EmailIInv, PageTyped
<1>2. CASE Navigate \/ ReloadCampaign
  <2>1. PICK c \in Lists : OpenCampaign(c)
    BY <1>1, <1>2 DEF Navigate, ReloadCampaign
  <2>2. PageTyped' /\ DialogIsCurrent'
    BY <1>1, <2>1, OutdatedDialog DEF OpenCampaign, PageTyped, DialogIsCurrent
  <2>3. FlightsAreCurrent' /\ RowsAreAnswered' /\ SelectionIsOfRows'
    BY <1>1, <2>1 DEF OpenCampaign, FlightsAreCurrent, FlightIsCurrent, RowsAreAnswered, SelectionIsOfRows
  <2> QED
    BY <2>2, <2>3 DEF EmailIInv
<1>3. CASE CampaignArrives
  <2>1. PICK c \in Controls : c = NewControls(campaign, routeState) /\ c.list = campaign
    BY <1>1, NewControlsTyped
  <2>2. PICK f : f = NewFlight(c, "asked")
    OBVIOUS
  <2>3. /\ controls' = c /\ flights' = {f} /\ loading' = TRUE /\ failed' = FALSE /\ rows' = {} /\ selected' = {}
        /\ opening' = FALSE /\ connected' = campaign /\ confirm' = Outdated /\ UNCHANGED <<campaign, unopened, routeState>>
    BY <1>3, <2>1, <2>2 DEF CampaignArrives, Connect
  <2>4. FlightIsCurrent(f)'
    BY <2>2, <2>3 DEF FlightIsCurrent, NewFlight
  <2>5. PageTyped' /\ DialogIsCurrent'
    BY <1>1, <2>3, OutdatedDialog DEF PageTyped, DialogIsCurrent
  <2>6. ~unopened
    BY <1>1, <1>3 DEF CampaignArrives, RowsAreAnswered
  <2>7. FlightsAreCurrent' /\ RowsAreAnswered' /\ SelectionIsOfRows'
    BY <2>1, <2>3, <2>4, <2>6 DEF FlightsAreCurrent, RowsAreAnswered, SelectionIsOfRows
  <2> QED
    BY <2>5, <2>7 DEF EmailIInv
<1>4. CASE CampaignFails
  BY <1>1, <1>4 DEF CampaignFails, Disconnect, workVars, EmailIInv, PageTyped, FlightsAreCurrent, RowsAreAnswered,
                    SelectionIsOfRows, DialogIsCurrent, Question
<1> QED
  BY <1>2, <1>3, <1>4

LEMMA SelectionMoves ==
  ASSUME EmailIInv, Select
  PROVE  EmailIInv'
<1>1. /\ UNCHANGED <<controls, flights, loading, rows, answered, pageVars, confirm>>
      /\ ~loading /\ ~opening /\ selected' \subseteq rows
  <2>1. selected \subseteq rows
    BY DEF EmailIInv, SelectionIsOfRows
  <2> QED
    BY <2>1 DEF Select, ToggleAll, Toggle, Usual, workVars
<1> QED
  BY <1>1 DEF EmailIInv, PageTyped, FlightsAreCurrent, FlightIsCurrent, RowsAreAnswered, SelectionIsOfRows,
              DialogIsCurrent, Question, pageVars

\* A dialog is opened on the page as it is, and answered or closed on it.
LEMMA DialogMoves ==
  ASSUME EmailIInv,
         \/ AskForRow \/ BulkDelete \/ BulkSend \/ Accept \/ Decline \/ Outrun
         \/ StartBatch \/ StartSending
  PROVE  EmailIInv'
<1>1. CASE AskForRow \/ BulkDelete \/ BulkSend
  <2>1. PICK op, chosen : Ask(op, chosen)
    BY <1>1 DEF AskForRow, BulkDelete, BulkSend
  <2>2. ~loading
    BY <2>1 DEF Ask, Usable, CanAct
  <2>3. /\ UNCHANGED <<sourceVars, pageVars>>
        /\ confirm' = [stage |-> "open", op |-> op, frozen |-> chosen, current |-> TRUE, question |-> Question]
    BY <2>1 DEF Ask, Question
  <2>4. DialogRow(confirm') /\ confirm'.stage = "open" /\ confirm'.question = Question
    BY <2>3 DEF DialogRow
  <2>5. confirm' # NoDialog
    BY <2>4 DEF NoDialog
  <2> QED
    BY <2>2, <2>3, <2>4, <2>5, PageRests
<1>2. CASE Accept
  <2>1. confirm # NoDialog
    BY <1>2 DEF Accept, NoDialog
  <2>2. PICK s, o, f, c, q : confirm = [stage |-> s, op |-> o, frozen |-> f, current |-> c, question |-> q]
    BY <2>1 DEF EmailIInv, PageTyped, DialogRow
  <2>3. confirm' = [stage |-> "closing", op |-> o, frozen |-> f, current |-> c, question |-> q]
    BY <1>2, <2>2 DEF Accept
  <2>4. DialogRow(confirm') /\ confirm'.stage = "closing" /\ confirm'.current = confirm.current
        /\ confirm'.question = confirm.question
    BY <2>2, <2>3 DEF DialogRow
  <2>5. confirm' # NoDialog
    BY <2>4 DEF NoDialog
  <2>6. confirm'.current => ~loading /\ confirm'.question = Question
    BY <2>1, <2>4 DEF EmailIInv, DialogIsCurrent
  <2>7. UNCHANGED <<sourceVars, pageVars>>
    BY <1>2 DEF Accept
  <2> QED
    BY <2>4, <2>5, <2>6, <2>7, PageRests
<1>3. CASE Decline \/ Outrun \/ StartBatch \/ StartSending
  BY <1>3, PageRests DEF Decline, Outrun, StartBatch, StartSending
<1> QED
  BY <1>1, <1>2, <1>3

\* The popup, the requests and the other administrators leave the page alone.
Elsewhere ==
  \/ SendNext \/ AskToAbort \/ KeepSending \/ Abort \/ Close
  \/ Claim \/ RefuseSending \/ EndSending \/ Others

LEMMA ElsewhereRests ==
  ASSUME Elsewhere
  PROVE  UNCHANGED <<sourceVars, pageVars, busy, confirm>>
BY DEF Elsewhere, SendNext, AskToAbort, KeepSending, Abort, Close, Claim, RefuseSending, EndSending, HearSending,
       Others, workVars

LEMMA EmailStep ==
  ASSUME EmailIInv, [Next]_vars
  PROVE  EmailIInv'
<1>1. CASE UserReloads \/ SetState \/ Closed \/ ServeBatch \/ Lose
  <2>1. CASE UNCHANGED <<sourceVars, pageVars, confirm>>
    BY <2>1, PageRests
  <2>2. CASE UNCHANGED <<sourceVars, campaign, connected, opening, unopened, confirm>> /\ routeState' \in States
    BY <2>2 DEF EmailIInv, PageTyped, FlightsAreCurrent, FlightIsCurrent, RowsAreAnswered, SelectionIsOfRows,
                DialogIsCurrent, Question, sourceVars
  <2>3. CASE /\ connected # NoCampaign /\ UNCHANGED <<campaign, connected, opening, unopened>>
             /\ routeState' \in States /\ confirm' = Outdated
             /\ \E c \in Controls : \E stage \in {"timer", "asked"} : c.list = controls.list /\ Load(c, stage)
    BY <2>3, Loading
  <2> QED
    BY <1>1, <2>1, <2>2, <2>3, ReloadSteps
<1>2. CASE UNCHANGED vars
  BY <1>2, PageRests DEF vars, sourceVars, pageVars
<1>3. CASE Elsewhere
  BY <1>3, ElsewhereRests, PageRests
<1> QED
  BY <1>1, <1>2, <1>3, CampaignMoves, SourceMoves, SelectionMoves, DialogMoves DEF Next, Serve, Elsewhere

LEMMA EmailInvariant == Spec => []EmailIInv
<1>1. EmailIInv /\ [Next]_vars => EmailIInv'
  BY EmailStep
<1> QED
  BY EmailStarts, <1>1, PTL DEF Spec

\* What is ticked is a row of the answer to what the page asks for now, whatever loads, moves
\* through the history and other administrators come in between.
THEOREM SelectionStaysOnPage == Spec => []SelectionIsOnPage
<1>1. EmailIInv => SelectionIsOnPage
  BY EmailHolds
<1> QED
  BY EmailInvariant, <1>1, PTL

\* An operation begins on the rows that were confirmed, displayed as they were, on the page they
\* were chosen on: a page that is loaded again outdates the dialog.
THEOREM OperationsAreAsConfirmed == Spec => ConfirmedAsShown
<1> DEFINE AsShown == ~busy /\ busy' => /\ ~loading /\ confirm.frozen \subseteq rows /\ confirm.question = Question
<1>1. EmailIInv /\ [Next]_vars => [AsShown]_vars
  <2> SUFFICES ASSUME EmailIInv, Next, ~busy, busy'
               PROVE  ~loading /\ confirm.frozen \subseteq rows /\ confirm.question = Question
    OBVIOUS
  <2>1. StartBatch \/ StartSending
    <3>1. ~(UserReloads \/ SetState \/ Navigate \/ ReloadCampaign)
      BY DEF UserReloads, Reload, SetState, ShowState, Navigate, ReloadCampaign, OpenCampaign
    <3>2. ~(CampaignArrives \/ CampaignFails \/ SourceStep \/ Select)
      BY DEF CampaignArrives, CampaignFails, SourceStep, Select, workVars
    <3>3. ~(AskForRow \/ BulkDelete \/ BulkSend \/ Accept \/ Decline \/ Outrun)
      BY DEF AskForRow, BulkDelete, BulkSend, Ask, Accept, Decline, Outrun
    <3>4. ~(Closed \/ ServeBatch \/ Lose)
      BY DEF Closed, ServeBatch, Lose, HearBatch, HearSending
    <3>5. ~Elsewhere
      BY ElsewhereRests
    <3> QED
      BY <3>1, <3>2, <3>3, <3>4, <3>5 DEF Next, Serve, Elsewhere
  <2>2. confirm.stage = "closing" /\ confirm.current /\ \A row \in confirm.frozen : Usable(row)
    BY <2>1 DEF StartBatch, StartSending, StillValid
  <2>3. confirm # NoDialog
    BY <2>2 DEF NoDialog
  <2> QED
    BY <2>2, <2>3 DEF EmailIInv, DialogIsCurrent, Usable
<1> QED
  BY EmailInvariant, <1>1, PTL DEF Spec, ConfirmedAsShown

\* What the page shows its reader.
Shows == IF opening \/ loading THEN [reader |-> "waits"]
         ELSE IF unopened \/ failed THEN [reader |-> "is told"] ELSE answered

ReaderStep ==
  \/ Question' \in Controls /\ Shows' = [reader |-> "waits"]
  \/ Shows = [reader |-> "waits"] /\ Question' \in Grants(Question) /\ Shows' = Question'
  \/ Question' = Question /\ Shows = [reader |-> "waits"] /\ Shows' = [reader |-> "is told"]
  \/ Question' = Question /\ Shows' = Shows

\* A question is asked whatever the page was at.
LEMMA QuestionIsAsked ==
  ASSUME PageTyped
  PROVE  Question \in Controls
BY DEF PageTyped, Question, Controls

\* An answer that arrives is that of the page as it is, or of an earlier page of it.
LEMMA AnswerArrives ==
  ASSUME EmailIInv, Deliver, UNCHANGED <<pageVars>>, EmailIInv'
  PROVE  ReaderStep
<1>1. PICK f \in flights :
        /\ f.stage = "read" /\ answered' = f.asks /\ loading' = FALSE /\ failed' = failed
        /\ controls' = [controls EXCEPT !.page = f.asks.page, !.size = f.asks.size]
  BY DEF Deliver
<1>2. loading /\ ~failed
  BY <1>1 DEF EmailIInv, FlightsAreCurrent
<1>3. CASE opening
  BY <1>3, QuestionIsAsked DEF EmailIInv, ReaderStep, Shows, pageVars, Question, PageTyped, Controls
<1>4. CASE ~opening
  <2>1. ~unopened /\ connected = campaign /\ campaign \in Lists /\ controls.list = campaign
    BY <1>2, <1>4, EmailPageAssumption DEF EmailIInv, RowsAreAnswered, PageTyped
  <2>2. PICK p \in 0 .. controls.page : f.asks = [controls EXCEPT !.page = p]
    BY <1>1 DEF EmailIInv, FlightsAreCurrent, FlightIsCurrent
  <2>3. PICK l \in Lists, q \in Queries, s \in States, o \in Orders, n \in Nat, z \in PageSizes :
          controls = [list |-> l, query |-> q, state |-> s, order |-> o, page |-> n, size |-> z]
    BY DEF EmailIInv, PageTyped, Controls
  <2>4. f.asks = [list |-> l, query |-> q, state |-> s, order |-> o, page |-> p, size |-> z]
    BY <2>2, <2>3
  <2>5. f.asks.page = p /\ f.asks.size = z
    BY <2>4
  <2>6. controls' = [controls EXCEPT !.page = p, !.size = z]
    BY <1>1, <2>5
  <2>7. controls' = [list |-> l, query |-> q, state |-> s, order |-> o, page |-> p, size |-> z]
    BY <2>3, <2>6
  <2>8. l = campaign /\ campaign' = campaign
    BY <2>1, <2>3 DEF pageVars
  <2>9. Question' = controls' /\ Question = controls
    BY <2>3, <2>7, <2>8 DEF Question
  <2>10. Question' = [Question EXCEPT !.page = p]
    BY <2>3, <2>7, <2>9
  <2>11. p \in 0 .. Question.page
    BY <2>9
  <2>12. Question' \in Grants(Question)
    BY <2>10, <2>11 DEF Grants
  <2>13. Shows = [reader |-> "waits"] /\ Shows' = Question'
    <3>1. ~opening' /\ ~loading' /\ ~unopened' /\ ~failed'
      BY <1>1, <1>2, <1>4, <2>1 DEF pageVars
    <3>2. answered' = Question'
      BY <1>1, <2>4, <2>7, <2>9
    <3> QED
      BY <1>2, <3>1, <3>2 DEF Shows
  <2> QED
    BY <2>12, <2>13 DEF ReaderStep
<1> QED
  BY <1>3, <1>4

LEMMA ReaderSteps ==
  ASSUME EmailIInv, [Next]_vars, EmailIInv'
  PROVE  ReaderStep
<1>1. Question \in Controls /\ Question' \in Controls
  <2>1. PageTyped /\ PageTyped'
    BY DEF EmailIInv
  <2> QED
    BY <2>1, QuestionIsAsked DEF PageTyped, Question, Controls
<1>2. ASSUME loading' \/ opening' PROVE ReaderStep
  BY <1>1, <1>2 DEF ReaderStep, Shows
<1>3. ASSUME UNCHANGED <<controls, campaign, opening, loading, unopened, failed, answered>> PROVE ReaderStep
  BY <1>3 DEF ReaderStep, Shows, Question
<1>4. CASE UserReloads \/ SetState \/ Closed \/ ServeBatch \/ Lose
  BY <1>2, <1>3, <1>4, ReloadSteps DEF Load, sourceVars, pageVars
<1>5. CASE Navigate \/ ReloadCampaign \/ CampaignArrives
  BY <1>2, <1>5 DEF Navigate, ReloadCampaign, OpenCampaign, CampaignArrives, Connect
<1>6. CASE CampaignFails
  BY <1>6 DEF CampaignFails, Disconnect, ReaderStep, Shows, Question
<1>7. CASE SourceStep
  <2>1. UNCHANGED pageVars
    BY <1>7 DEF SourceStep
  <2>2. CASE TimerFires \/ ServerReads(PageFound, ItemsFound)
    BY <1>3, <2>1, <2>2 DEF TimerFires, ServerReads, pageVars
  <2>3. CASE Deliver
    BY <2>1, <2>3, AnswerArrives
  <2>4. CASE LoadFails
    <3>1. loading /\ ~loading' /\ failed' /\ UNCHANGED controls
      BY <2>4 DEF LoadFails, EmailIInv, FlightsAreCurrent
    <3> QED
      BY <2>1, <3>1 DEF pageVars, ReaderStep, Shows, Question
  <2> QED
    BY <1>7, <2>2, <2>3, <2>4 DEF SourceStep
<1>8. CASE Select
  BY <1>3, <1>8 DEF Select, ToggleAll, Toggle, pageVars
<1>9. CASE AskForRow \/ BulkDelete \/ BulkSend \/ Accept \/ Decline \/ Outrun \/ StartBatch \/ StartSending
  BY <1>3, <1>9 DEF AskForRow, BulkDelete, BulkSend, Ask, Accept, Decline, Outrun, StartBatch, StartSending,
                    sourceVars, pageVars
<1>10. CASE Elsewhere
  BY <1>3, <1>10, ElsewhereRests DEF sourceVars, pageVars
<1>11. CASE UNCHANGED vars
  BY <1>3, <1>11 DEF vars
<1> QED
  BY <1>4, <1>5, <1>6, <1>7, <1>8, <1>9, <1>10, <1>11 DEF Next, Serve, Elsewhere

\* The page implements what a view of server data promises: the reader waits, is told, or is shown
\* the answer to the latest question, and never that to an earlier one.
THEOREM PageAnswersTheLatest == Spec => ImplementsLatestAnswer
<1>1. Init => Reader!Init
  <2>1. Init => Question \in Controls /\ opening
    BY EmailStarts, QuestionIsAsked DEF EmailIInv, Init
  <2> QED
    BY <2>1 DEF Reader!Init, Question
<1>2. EmailIInv /\ EmailIInv' /\ [Next]_vars => [Reader!Next]_<<Question, Shows>>
  <2> SUFFICES ASSUME ReaderStep
               PROVE  [Reader!Next]_<<Question, Shows>>
    BY ReaderSteps
  <2> QED
    BY DEF ReaderStep, Shows, Reader!Next, Reader!Ask, Reader!Answer, Reader!Fail, Question
<1> QED
  BY EmailInvariant, <1>1, <1>2, PTL DEF Spec, ImplementsLatestAnswer, Reader!Spec, Shows
====
