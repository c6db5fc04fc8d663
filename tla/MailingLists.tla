----------------------------- MODULE MailingLists -----------------------------
(***************************************************************************)
(* The mailing lists of the association: the page that previews and        *)
(* confirms their synchronization (mailings.component.ts), the server that *)
(* carries it out (controllers/mailings.go, pkg/mailings/plan.go) and the  *)
(* provider that keeps the lists.                                          *)
(*                                                                         *)
(* The provider accepts a call as a task, which it ends later.  A call     *)
(* whose answer is not heard may become a task later still, or never.  A   *)
(* plan is read in several calls, so it may mix instants.  A plan is its   *)
(* own token: the hash covers the members, the lists and the tasks.        *)
(***************************************************************************)
EXTENDS Integers, Sequences

CONSTANTS
  Addresses,
  MaxEdits,   \* bound: changes of the directory
  MaxSyncs,   \* bound: synchronizations that begin
  MaxAccess   \* bound: changes of the session's rights

Lists == <<"membres", "bureau">>
ListNames == {"membres", "bureau"}

VARIABLES
  directory,   \* table member: the role behind each address
  incomplete,  \* a member has no valid address
  edits,       \* the number of changes of the directory
  subscribers, tasks, late,
  sync,        \* the synchronization that holds the advisory lock
  syncs,       \* the number of synchronizations begun
  plan, verified, allowed,
  accesses,    \* the number of changes of rights
  preview,     \* the preview under way: {} or one reader
  confirming,  \* the plan that the dialog asks about: {} or one
  asked        \* the request to synchronize that the page waits for: {} or its state

directoryVars == <<directory, incomplete, edits>>
providerVars == <<subscribers, tasks, late>>
serverVars == <<sync, syncs>>
mailingPageVars == <<plan, verified, allowed, accesses, preview, confirming, asked>>
mailingVars == <<directoryVars, providerVars, serverVars, mailingPageVars>>

Calls == [op : {"add", "remove"}, list : ListNames, address : Addresses]

NoSync == [stage |-> "none"]

(***************************************************************************)
(* Plans                                                                   *)
(***************************************************************************)
Wanted(l) == {a \in Addresses : directory[a] = "bureau" \/ (l = "membres" /\ directory[a] = "member")}

\* Mutant: the subscribers of a list are read before its tasks.
ReadsReversed == <<<<"subscribers", "membres">>, <<"tasks", "membres">>, <<"subscribers", "bureau">>, <<"tasks", "bureau">>>>

Reads == <<<<"tasks", "membres">>, <<"subscribers", "membres">>, <<"tasks", "bureau">>, <<"subscribers", "bureau">>>>

\* mailingPlan: the members at once, then call after call.
NewReader ==
  [wanted |-> [l \in ListNames |-> Wanted(l)], incomplete |-> incomplete,
   tasks |-> [l \in ListNames |-> {}], subscribers |-> [l \in ListNames |-> {}], left |-> Reads]

ReadOne(r) ==
  LET l == Head(r.left)[2]
      rest == [r EXCEPT !.left = Tail(@)]
  IN  IF Head(r.left)[1] = "tasks" THEN [rest EXCEPT !.tasks[l] = {c \in tasks : c.list = l}]
                                   ELSE [rest EXCEPT !.subscribers[l] = subscribers[l]]

Additions(p) == {c \in Calls : c.op = "add" /\ c.address \in p.wanted[c.list] \ p.subscribers[c.list]}
Removals(p) == {c \in Calls : c.op = "remove" /\ c.address \in p.subscribers[c.list] \ p.wanted[c.list]}

UpToDate(p) == ~p.incomplete /\ Additions(p) \cup Removals(p) = {} /\ \A l \in ListNames : p.tasks[l] = {}

\* Mutant: tasks left by an earlier synchronization are not waited for.
CanApplyAnyway(p) == ~p.incomplete /\ Additions(p) \cup Removals(p) # {}

CanApply(p) == ~p.incomplete /\ Additions(p) \cup Removals(p) # {} /\ \A l \in ListNames : p.tasks[l] = {}

\* The page opens on lists of any kind, on which tasks of earlier synchronizations may be left.
MailingInit ==
  /\ directory \in [Addresses -> {"none", "member", "bureau"}]
  /\ incomplete = FALSE
  /\ edits = 0
  /\ subscribers \in [ListNames -> SUBSET Addresses]
  /\ tasks \in SUBSET Calls /\ late = {}
  /\ sync = NoSync /\ syncs = 0
  /\ plan = {} /\ verified = FALSE /\ allowed = TRUE /\ accesses = 0
  /\ preview = {NewReader} /\ confirming = {} /\ asked = {}

(***************************************************************************)
(* The provider and the directory                                          *)
(***************************************************************************)
EditMember ==
  /\ edits < MaxEdits
  /\ edits' = edits + 1
  /\ \/ \E a \in Addresses, role \in {"none", "member", "bureau"} : directory' = [directory EXCEPT ![a] = role] /\ UNCHANGED incomplete
     \/ incomplete' = ~incomplete /\ UNCHANGED directory
  /\ UNCHANGED <<providerVars, serverVars, mailingPageVars>>

\* A task may also end without effect.
EndTask ==
  \E c \in tasks, done \in BOOLEAN :
    /\ tasks' = tasks \ {c}
    /\ subscribers' = IF ~done THEN subscribers
                      ELSE [subscribers EXCEPT ![c.list] = IF c.op = "add" THEN @ \cup {c.address} ELSE @ \ {c.address}]
    /\ UNCHANGED <<late, directoryVars, serverVars, mailingPageVars>>

AcceptLate ==
  \E c \in late :
    /\ late' = late \ {c}
    /\ tasks' = tasks \cup {c}
    /\ UNCHANGED <<subscribers, directoryVars, serverVars, mailingPageVars>>

(***************************************************************************)
(* SyncMailingLists                                                        *)
(***************************************************************************)
\* doubt is a history variable: calls are outstanding that no task shows yet.
Begin(by, token) ==
  /\ sync = NoSync /\ syncs < MaxSyncs
  /\ syncs' = syncs + 1
  /\ sync' = [stage |-> "before", by |-> by, token |-> token, reader |-> NewReader,
              additions |-> {}, removals |-> {}, failed |-> FALSE, doubt |-> late # {}]

\* The lock serves one synchronization; the others are refused.
PageBegins ==
  /\ asked = {"sent"}
  /\ \E p \in plan : Begin("page", {p})
  /\ asked' = {"begun"}
  /\ UNCHANGED <<directoryVars, providerVars, plan, verified, allowed, accesses, preview, confirming>>

\* Another administrator has just previewed what there is.
OtherBegins ==
  /\ Begin("other", {})
  /\ UNCHANGED <<directoryVars, providerVars, mailingPageVars>>

SyncReads ==
  /\ sync.stage \in {"before", "after"} /\ sync.reader.left # <<>>
  /\ sync' = [sync EXCEPT !.reader = ReadOne(sync.reader)]
  /\ UNCHANGED <<directoryVars, providerVars, syncs, mailingPageVars>>

\* Mutant: the lists are not compared with those that were confirmed.
FitsAlways(token, p) == TRUE

Fits(token, p) == token \subseteq {p}

Apply ==
  /\ sync.stage = "before" /\ sync.reader.left = <<>>
  /\ Fits(sync.token, sync.reader) /\ CanApply(sync.reader)
  /\ sync' = [sync EXCEPT !.stage = "calls", !.additions = Additions(sync.reader), !.removals = Removals(sync.reader)]
  /\ UNCHANGED <<directoryVars, providerVars, syncs, mailingPageVars>>

\* Mutant: removals do not wait for the additions.
NextCallsAtOnce == sync.additions \cup sync.removals

NextCalls == IF sync.additions # {} THEN sync.additions ELSE sync.removals

\* Those of the plan that the provider has taken.
CallsMade == (Additions(sync.reader) \cup Removals(sync.reader)) \ (sync.additions \cup sync.removals)

\* The first call that fails ends the calls; a call that times out may still be carried out.
CallProvider ==
  /\ sync.stage = "calls" /\ ~sync.failed
  /\ \E c \in NextCalls :
       LET answered == [sync EXCEPT !.additions = @ \ {c}, !.removals = @ \ {c}]
       IN  \/ tasks' = tasks \cup {c} /\ sync' = answered /\ UNCHANGED late
           \/ /\ sync' = [sync EXCEPT !.failed = TRUE]
              /\ \/ tasks' = tasks \cup {c} /\ UNCHANGED late
                 \/ late' = late \cup {c} /\ UNCHANGED tasks
                 \/ UNCHANGED <<tasks, late>>
  /\ UNCHANGED <<subscribers, directoryVars, syncs, mailingPageVars>>

ReadAgain ==
  /\ sync.stage = "calls"
  /\ sync.failed \/ sync.additions \cup sync.removals = {}
  /\ sync' = [sync EXCEPT !.stage = "after", !.reader = NewReader, !.doubt = late # {}]
  /\ UNCHANGED <<directoryVars, providerVars, syncs, mailingPageVars>>

\* What the page hears, unless it waits no longer: the plan that was read, or nothing.
PageHears(p) ==
  IF sync.by = "page" /\ asked = {"begun"}
    THEN asked' = {} /\ plan' = p /\ verified' = (p # {} /\ UpToDate(sync.reader))
    ELSE UNCHANGED <<asked, plan, verified>>

Finish ==
  /\ sync.stage = "after" /\ sync.reader.left = <<>>
  /\ sync' = NoSync
  /\ PageHears({sync.reader})
  /\ UNCHANGED <<directoryVars, providerVars, syncs, allowed, accesses, preview, confirming>>

\* A token that does not fit, nothing to apply, a read or the commit that fails, a crash, an answer that is lost.
Abandon ==
  /\ sync # NoSync
  /\ sync' = NoSync
  /\ PageHears({})
  /\ UNCHANGED <<directoryVars, providerVars, syncs, allowed, accesses, preview, confirming>>

(***************************************************************************)
(* The page                                                                *)
(***************************************************************************)
StartPreview == preview' = {NewReader} /\ plan' = {} /\ verified' = FALSE

RefreshPlan ==
  /\ allowed /\ asked = {} /\ confirming = {}
  /\ StartPreview
  /\ UNCHANGED <<directoryVars, providerVars, serverVars, allowed, accesses, confirming, asked>>

\* administrator$: what was under way is dropped, whatever the server does with it.
ChangeAccess ==
  /\ accesses < MaxAccess
  /\ accesses' = accesses + 1
  /\ allowed' = ~allowed
  /\ asked' = {}
  /\ IF allowed' THEN StartPreview ELSE preview' = {} /\ plan' = {} /\ verified' = FALSE
  /\ UNCHANGED <<directoryVars, providerVars, serverVars, confirming>>

ReadPreview ==
  \E r \in preview :
    /\ r.left # <<>>
    /\ preview' = {ReadOne(r)}
    /\ UNCHANGED <<directoryVars, providerVars, serverVars, plan, verified, allowed, accesses, confirming, asked>>

ShowPlan ==
  \E r \in preview :
    /\ \/ r.left = <<>> /\ plan' = {r}
       \/ plan' = {}
    /\ preview' = {}
    /\ UNCHANGED <<directoryVars, providerVars, serverVars, verified, allowed, accesses, confirming, asked>>

AskToSync ==
  /\ allowed /\ preview = {} /\ asked = {} /\ confirming = {}
  /\ \E p \in plan : CanApply(p)
  /\ confirming' = plan
  /\ UNCHANGED <<directoryVars, providerVars, serverVars, plan, verified, allowed, accesses, preview, asked>>

\* The plan may have been dropped and read again under the dialog.
SendSync ==
  /\ confirming # {}
  /\ allowed /\ preview = {} /\ plan = confirming
  /\ confirming' = {}
  /\ asked' = {"sent"}
  /\ UNCHANGED <<directoryVars, providerVars, serverVars, plan, verified, allowed, accesses, preview>>

DropSync ==
  /\ confirming # {}
  /\ confirming' = {}
  /\ UNCHANGED <<directoryVars, providerVars, serverVars, plan, verified, allowed, accesses, preview, asked>>

\* Refused by the lock, or lost on its way.
SyncRefused ==
  /\ asked = {"sent"}
  /\ asked' = {} /\ plan' = {}
  /\ UNCHANGED <<directoryVars, providerVars, serverVars, verified, allowed, accesses, preview, confirming>>

MailingNext ==
  \/ EditMember \/ EndTask \/ AcceptLate
  \/ PageBegins \/ OtherBegins \/ SyncReads \/ Apply \/ CallProvider \/ ReadAgain \/ Finish \/ Abandon
  \/ RefreshPlan \/ ChangeAccess \/ ReadPreview \/ ShowPlan \/ AskToSync \/ SendSync \/ DropSync \/ SyncRefused

(***************************************************************************)
(* Properties                                                              *)
(***************************************************************************)
\* "un succès vérifié n’est annoncé qu’après relecture des deux listes sans tâches en attente"
\* (docs/fiche-validation.md:54): lists that a synchronization is about to announce as
\* verified are as the members want them and will stay so, though they were read in four calls;
\* a call that timed out and may come later is the exception.
VerifiedIsTrue ==
  sync.stage = "after" /\ sync.reader.left = <<>> /\ UpToDate(sync.reader) /\ ~sync.doubt =>
    /\ tasks = {}
    /\ subscribers = sync.reader.wanted

\* A call that a synchronization makes is one the administrator confirmed, on lists that
\* are still as they were shown; nobody is removed before everybody has been added; and
\* "Never enqueue the same difference while a prior task for that list is still present"
\* (pkg/mailings/client.go:47): while calls are made, the only tasks are those of the calls
\* made before, again unless a call timed out.
CallsAreConfirmed ==
  sync.stage = "calls" =>
    /\ \A c \in (tasks' \cup late') \ (tasks \cup late) :
         /\ \A p \in sync.token : c \in Additions(p) \cup Removals(p)
         /\ c.op = "remove" => sync.additions = {}
    /\ ~sync.doubt /\ ~sync.failed => tasks \subseteq CallsMade
==============================================================================
