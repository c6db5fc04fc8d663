----------------------------- MODULE PagedSource -----------------------------
(***************************************************************************)
(* shared/datasources/paged.datasource.ts with the crud table on top of it *)
(* (crud-table.component.ts, crud-table.datasource.ts, search-input): one  *)
(* page of a list that the server filters, sorts and cuts.                 *)
(*                                                                         *)
(* A flight is one subscription made by load(): it waits for its debounce  *)
(* timer, asks the server, and carries the page the server has read back.  *)
(* switchMap drops the flight of an earlier load with everything it would  *)
(* have delivered.  A page is a set of rows: the order on the page shows   *)
(* nothing here, the order that cuts the list into pages does.             *)
(***************************************************************************)
EXTENDS Integers, FiniteSets

CONSTANTS
  Lists,       \* the lists a source may be made for
  Queries,     \* searches, "" included
  States,      \* states to filter on, "" for all
  PageSizes,
  NoAnswer,    \* nothing has been answered yet
  MaxSettings  \* bound: controls that the user has moved from where they start

VARIABLES
  controls,   \* what the next request asks for
  flights,    \* subscriptions of load() that are alive
  loading, failed,
  rows,       \* the displayed rows
  answered,   \* the controls that the displayed rows answer
  selected    \* SelectionModel: rows as they were when they were ticked

sourceVars == <<controls, flights, loading, failed, rows, answered, selected>>

Orders == {"asc", "desc"}

Controls == [list : Lists, query : Queries, state : States, order : Orders, page : Nat, size : PageSizes]

\* What a new source asks for: no search, the newest first, the first page.
NewControls(list, state) ==
  [list |-> list, query |-> "", state |-> state, order |-> "desc", page |-> 0,
   size |-> CHOOSE s \in PageSizes : \A t \in PageSizes : s <= t]

\* The bound on what the user sets: its inputs, never what the program does with them.
Settings(c) ==
  LET new == NewControls(c.list, "")
  IN  Cardinality({k \in {"query", "state", "order", "size"} : c[k] # new[k]})

NewFlight(c, stage) == [stage |-> stage, asks |-> c, items |-> {}]

\* Mutants: a load that keeps the earlier one alive; a load that keeps what is ticked.
LoadMerged(c, stage) ==
  /\ controls' = c
  /\ flights' = flights \cup {NewFlight(c, stage)}
  /\ loading' = TRUE
  /\ failed' = FALSE
  /\ selected' = {}
  /\ answered' = NoAnswer
  /\ UNCHANGED rows

LoadKeeping(c, stage) ==
  /\ controls' = c
  /\ flights' = {NewFlight(c, stage)}
  /\ loading' = TRUE
  /\ failed' = FALSE
  /\ answered' = NoAnswer
  /\ UNCHANGED <<rows, selected>>

\* load(delay): the earlier subscription ends, the rows stay but nothing may be done
\* with them, and the table drops its selection.
Load(c, stage) ==
  /\ controls' = c
  /\ flights' = {NewFlight(c, stage)}
  /\ loading' = TRUE
  /\ failed' = FALSE
  /\ selected' = {}
  /\ answered' = NoAnswer
  /\ UNCHANGED rows


\* The search box stays usable while a load is in flight; the table and the paginator
\* do not.  A search waits for the debounce timer, but cancels at once.
SetFilter(query) ==
  /\ query # controls.query
  /\ Settings([controls EXCEPT !.query = query]) <= MaxSettings
  /\ Load([controls EXCEPT !.query = query, !.page = 0], "timer")

SetSort(order) ==
  /\ ~loading
  /\ order # controls.order
  /\ Settings([controls EXCEPT !.order = order]) <= MaxSettings
  /\ Load([controls EXCEPT !.order = order, !.page = 0], "asked")

SetPage(page, size) ==
  /\ ~loading
  /\ <<page, size>> # <<controls.page, controls.size>>
  /\ Settings([controls EXCEPT !.size = size]) <= MaxSettings
  /\ Load([controls EXCEPT !.page = IF size = controls.size THEN page ELSE 0, !.size = size], "asked")

TimerFires ==
  \E f \in flights :
    /\ f.stage = "timer"
    /\ flights' = (flights \ {f}) \cup {NewFlight(controls, "asked")}
    /\ UNCHANGED <<controls, loading, failed, rows, answered, selected>>

\* The server reads the page of one instant, perhaps an earlier page than asked.
ServerReads(page(_), items(_)) ==
  \E f \in flights :
    /\ f.stage = "asked"
    /\ flights' = (flights \ {f})
         \cup {[stage |-> "read", asks |-> [f.asks EXCEPT !.page = page(f.asks)], items |-> items(f.asks)]}
    /\ UNCHANGED <<controls, loading, failed, rows, answered, selected>>

\* The answer brings its rows and the page they are; ticked rows that are not among
\* them, or not as they were, are dropped.
Deliver ==
  \E f \in flights :
    /\ f.stage = "read"
    /\ rows' = f.items
    /\ controls' = [controls EXCEPT !.page = f.asks.page, !.size = f.asks.size]
    /\ answered' = f.asks
    /\ loading' = FALSE
    /\ flights' = flights \ {f}
    /\ selected' = selected \cap f.items
    /\ UNCHANGED failed

LoadFails ==
  \E f \in flights :
    /\ f.stage \in {"asked", "read"}
    /\ rows' = {}
    /\ failed' = TRUE
    /\ loading' = FALSE
    /\ flights' = flights \ {f}
    /\ selected' = {}
    /\ answered' = NoAnswer
    /\ UNCHANGED controls

Toggle(row) ==
  /\ ~loading
  /\ row \in rows
  /\ selected' = IF row \in selected THEN selected \ {row} ELSE selected \cup {row}
  /\ UNCHANGED <<controls, flights, loading, failed, rows, answered>>

ToggleAll ==
  /\ ~loading
  /\ rows # {}
  /\ selected' = IF Cardinality(selected) = Cardinality(rows) THEN {} ELSE rows
  /\ UNCHANGED <<controls, flights, loading, failed, rows, answered>>

\* The table disconnects from its source and connects to a new one, which it loads.
Connect(c) ==
  /\ controls' = c
  /\ flights' = {NewFlight(c, "asked")}
  /\ loading' = TRUE
  /\ failed' = FALSE
  /\ rows' = {}
  /\ selected' = {}
  /\ answered' = NoAnswer

Disconnect ==
  /\ flights' = {}
  /\ loading' = FALSE
  /\ failed' = FALSE
  /\ rows' = {}
  /\ selected' = {}
  /\ answered' = NoAnswer
  /\ UNCHANGED controls
==============================================================================
