------------------------------ MODULE GuidedTour ------------------------------
(***************************************************************************)
(* The session of a browser (auth.service.ts, auth.guard.ts,               *)
(* auth-interceptor.ts) and the guided tour that depends on it:            *)
(* tour.service.ts, tour.component.ts and, on the server, pkg/tour/tour.go.*)
(* The chapters are three of the catalogue, the middle one for those who   *)
(* may record payments.                                                    *)
(*                                                                         *)
(* The effects of the component run at the end of the task that changes a  *)
(* signal, so they are part of the action.  A page that does not load the  *)
(* tour, and is not saving, shows "state()": whether it loads or has       *)
(* failed follows from tourAsked and tourState.                            *)
(***************************************************************************)
EXTENDS Integers, Sequences, FiniteSets

CONSTANTS
  Revised,     \* the chapters that version 2 of the catalogue revises
  MaxGrants,   \* bound: changes of the rights of the account
  MaxLoads     \* bound: requests for the current user in flight

Chapters == {"overview", "payments", "emails"}
Versions == 1..2

VARIABLES
  running,     \* versions of the application that serve requests
  rights,      \* of the account: "inactive", "plain" or "payer"
  grants,      \* number of changes of the rights
  progress,    \* revision of each chapter that was seen
  seenVersion, \* tour_version
  alive,       \* the session of the browser is valid
  provider,    \* "oidc" or "google"
  checking,    \* loading$: the first check of the session
  user,        \* user$: "none", or the rights it came with
  sessionAsked, \* requests for the current user in flight, and their answers
  tourAsked,   \* the request for the tour in flight: {} or one
  tourState,   \* {} or what the server answered
  dismissed,   \* "Plus tard"
  address,     \* "elsewhere", or the mode of the tour
  visit        \* the component of the tour: {} or its state

tourServerVars == <<running, rights, grants, progress, seenVersion>>
sessionVars == <<alive, provider, checking, user, sessionAsked>>
tourPageVars == <<tourAsked, tourState, dismissed, address, visit>>
tourVars == <<tourServerVars, sessionVars, tourPageVars>>

Rights == {"inactive", "plain", "payer"}
Modes == {"updates", "all"}

Active(u) == u \in {"plain", "payer"}

(***************************************************************************)
(* The server                                                              *)
(***************************************************************************)
Revision(v, c) == IF v = 2 /\ c \in Revised THEN 2 ELSE 1

OpenTo(r) == IF r = "inactive" THEN {} ELSE IF r = "plain" THEN Chapters \ {"payments"} ELSE Chapters

\* stamp is a history field: the changes of the rights before the answer.
StateFor(v, p) == [version |-> v, seen |-> [c \in OpenTo(rights) |-> p[c]], stamp |-> grants]

\* Mutant: the last mark of a chapter replaces the earlier ones.
MarkSeenLast(v, c, revision) ==
  /\ rights # "inactive" /\ c \in OpenTo(rights) /\ revision = Revision(v, c)
  /\ progress' = [progress EXCEPT ![c] = revision]
  /\ seenVersion' = IF seenVersion < v /\ \A d \in OpenTo(rights) : progress'[d] >= Revision(v, d) THEN v ELSE seenVersion

\* MarkSeen, under the lock of the account.
MarkSeen(v, c, revision) ==
  /\ rights # "inactive" /\ c \in OpenTo(rights) /\ revision = Revision(v, c)
  /\ progress' = [progress EXCEPT ![c] = IF @ < revision THEN revision ELSE @]
  /\ seenVersion' = IF seenVersion < v /\ \A d \in OpenTo(rights) : progress'[d] >= Revision(v, d) THEN v ELSE seenVersion

ChangeRights ==
  /\ grants < MaxGrants
  /\ grants' = grants + 1
  /\ rights' \in Rights \ {rights}
  /\ UNCHANGED <<running, progress, seenVersion, sessionVars, tourPageVars>>

\* The next version is started beside the first, which ends later.
Deploy ==
  /\ \/ running = {1} /\ running' = {1, 2}
     \/ running = {1, 2} /\ running' = {2}
  /\ UNCHANGED <<rights, grants, progress, seenVersion, sessionVars, tourPageVars>>

\* Another tab, or a request this one no longer waits for.
OtherTabMarks ==
  /\ \E v \in running, c \in Chapters : MarkSeen(v, c, Revision(v, c))
  /\ progress' # progress \/ seenVersion' # seenVersion
  /\ UNCHANGED <<running, rights, grants, sessionVars, tourPageVars>>

(***************************************************************************)
(* The component of the tour                                               *)
(***************************************************************************)
NewVisit(m) == [mode |-> m, for |-> "none", stamp |-> 0, known |-> FALSE, path |-> {}, index |-> 1, finished |-> FALSE, saving |-> {}, saveError |-> FALSE]

\* Chapters are shown in the order of the catalogue; so the path is a set.
Only(c, S) == IF c \in S THEN <<c>> ELSE <<>>
InOrder(S) == Only("overview", S) \o Only("payments", S) \o Only("emails", S)

ChaptersOf(w, s) == InOrder(w.path \cap DOMAIN s.seen)
Pending(s) == {c \in DOMAIN s.seen : s.seen[c] < Revision(s.version, c)}
PathFor(m, s) == IF m = "all" THEN DOMAIN s.seen ELSE Pending(s)

\* The effect: the path is fixed once, and the index stays within it.
SettledVisit(w, s, u) ==
  LET known == IF w.known THEN w ELSE [w EXCEPT !.known = TRUE, !.path = PathFor(w.mode, s), !.for = u, !.stamp = s.stamp]
      length == Len(ChaptersOf(known, s))
  IN  [known EXCEPT !.index = IF @ <= length THEN @ ELSE IF length = 0 THEN 1 ELSE length]

Current(w, s) == ChaptersOf(w, s)[w.index]

\* What the page shows for a click: a chapter, and nothing under way.
Showing(w, s) == visit = {w} /\ tourState = {s} /\ tourAsked = {} /\ ~w.finished /\ ChaptersOf(w, s) # <<>>

\* All visits, once the tour is known.
Settle(vs, s) == {SettledVisit(w, s, user) : w \in vs}

(***************************************************************************)
(* The session                                                             *)
(***************************************************************************)
\* Mutant: a visit goes on under other rights.
ContinueVisit == visit' = IF Active(user') THEN visit ELSE {}

VisitAnew == visit' = IF Active(user') /\ address # "elsewhere" THEN {NewVisit(address)} ELSE {}

\* user$: the tour begins again for an account or rights that differ.
SetUser(u) ==
  /\ user' = u
  /\ IF u = user
       THEN UNCHANGED <<tourAsked, tourState, dismissed, visit>>
       ELSE /\ tourAsked' = IF Active(u) THEN {[answer |-> {}]} ELSE {}
            /\ tourState' = {} /\ dismissed' = FALSE
            /\ VisitAnew
  /\ UNCHANGED address

\* clearUser
ClearUser == SetUser("none")

ServeSession ==
  /\ "sent" \in sessionAsked
  /\ sessionAsked' = (sessionAsked \ {"sent"}) \cup {IF alive THEN rights ELSE "refused"}
  /\ UNCHANGED <<tourServerVars, alive, provider, checking, user, tourPageVars>>

\* The answers come in any order; an error leaves nobody signed in.
HearSession ==
  \E answer \in sessionAsked :
    /\ \/ answer \in Rights /\ SetUser(answer)
       \/ ClearUser
    /\ sessionAsked' = sessionAsked \ {answer}
    /\ checking' = FALSE
    /\ UNCHANGED <<tourServerVars, alive, provider>>

\* refreshAccess, for an account that is not active; with Google, a token that was renewed.
RefreshAccess ==
  /\ ~checking
  /\ IF provider = "oidc" THEN user = "inactive" /\ sessionAsked = {}
                          ELSE alive /\ Cardinality(sessionAsked) < MaxLoads
  /\ sessionAsked' = sessionAsked \cup {"sent"}
  /\ UNCHANGED <<tourServerVars, alive, provider, checking, user, tourPageVars>>

SessionEnds ==
  /\ alive
  /\ alive' = FALSE
  /\ UNCHANGED <<tourServerVars, provider, checking, user, sessionAsked, tourPageVars>>

\* Any request of the page is answered 401 (with Google this changes nothing), the token of
\* Google is gone, or the user signs out.
SignedOut ==
  /\ user # "none"
  /\ ~alive
  /\ ClearUser
  /\ UNCHANGED <<tourServerVars, alive, provider, checking, sessionAsked>>

Logout ==
  /\ user # "none"
  /\ alive' = FALSE
  /\ ClearUser
  /\ UNCHANGED <<tourServerVars, provider, checking, sessionAsked>>

FreshPage ==
  /\ checking' = TRUE /\ user' = "none"
  /\ sessionAsked' = {"sent"}
  /\ tourAsked' = {} /\ tourState' = {} /\ dismissed' = FALSE /\ address' = "elsewhere" /\ visit' = {}

\* Signing in leaves the page and comes back to it.
SignIn ==
  /\ user = "none" /\ ~checking
  /\ alive' = TRUE
  /\ FreshPage
  /\ UNCHANGED <<tourServerVars, provider>>

(***************************************************************************)
(* tour.service.ts                                                         *)
(***************************************************************************)
ServeTour ==
  \E r \in tourAsked, v \in running :
    /\ r.answer = {} /\ alive /\ rights # "inactive"
    /\ tourAsked' = {[answer |-> {StateFor(v, progress)}]}
    /\ UNCHANGED <<tourServerVars, sessionVars, tourState, dismissed, address, visit>>

HearTour ==
  \E r \in tourAsked :
    /\ \/ r.answer # {} /\ tourState' = r.answer /\ visit' = UNION {Settle(visit, s) : s \in r.answer}
       \/ tourState' = {} /\ UNCHANGED visit
    /\ tourAsked' = {}
    /\ UNCHANGED <<tourServerVars, sessionVars, dismissed, address>>

\* What the page of the tour says of a reload: the tour could not be loaded, or a chapter could
\* not be saved, as when another version of the catalogue is served.
OffersReload(w) ==
  \/ tourState = {}
  \/ w.saveError /\ w.saving = {} /\ \E s \in tourState : Showing(w, s)

\* Mutant: the visit goes on while the tour is loaded again.
ReloadTourKeeping ==
  /\ tourAsked = {}
  /\ \E w \in visit : OffersReload(w)
  /\ tourAsked' = {[answer |-> {}]}
  /\ UNCHANGED <<tourServerVars, sessionVars, tourState, dismissed, address, visit>>

\* reload(): what was loaded stays in "state()" until the answer, while the visit begins again.
ReloadTour ==
  /\ tourAsked = {}
  /\ \E w \in visit : OffersReload(w)
  /\ tourAsked' = {[answer |-> {}]}
  /\ visit' = {NewVisit(address)}
  /\ UNCHANGED <<tourServerVars, sessionVars, tourState, dismissed, address>>

Dismiss ==
  /\ address = "elsewhere" /\ ~dismissed
  /\ \E s \in tourState : Pending(s) # {}
  /\ dismissed' = TRUE
  /\ UNCHANGED <<tourServerVars, sessionVars, tourAsked, tourState, address, visit>>

(***************************************************************************)
(* tour.component.ts                                                       *)
(***************************************************************************)
\* Mutant: another mode does not end what is being saved.
ResetVisitSaving(m) == {[NewVisit(m) EXCEPT !.saving = IF visit = {} THEN {} ELSE (CHOOSE w \in visit : TRUE).saving]}

ResetVisit(m) == {NewVisit(m)}

\* The page opens, or its mode changes.
OpenTour ==
  \E m \in Modes \ {address} :
    /\ Active(user) /\ ~checking
    /\ address' = m
    /\ visit' = IF tourAsked = {} /\ tourState # {} THEN UNION {Settle(ResetVisit(m), s) : s \in tourState}
                                                  ELSE ResetVisit(m)
    /\ UNCHANGED <<tourServerVars, sessionVars, tourAsked, tourState, dismissed>>

LeaveTour ==
  /\ address # "elsewhere" /\ Active(user)
  /\ address' = "elsewhere" /\ visit' = {}
  /\ UNCHANGED <<tourServerVars, sessionVars, tourAsked, tourState, dismissed>>

VisitStep == UNCHANGED <<tourServerVars, sessionVars, tourAsked, dismissed, address>>

Advance(w, s) ==
  IF w.index < Len(ChaptersOf(w, s)) THEN [w EXCEPT !.index = @ + 1] ELSE [w EXCEPT !.finished = TRUE]

\* Mutant: the page goes back while a chapter is being saved.
MayGoBackAlways(w) == w.index > 1

MayGoBack(w) == w.saving = {} /\ w.index > 1

PreviousChapter ==
  \E w \in visit, s \in tourState :
    /\ Showing(w, s) /\ MayGoBack(w)
    /\ visit' = {[w EXCEPT !.index = @ - 1, !.saveError = FALSE]}
    /\ VisitStep /\ UNCHANGED tourState

NextChapter ==
  \E w \in visit, s \in tourState :
    /\ Showing(w, s) /\ w.saving = {}
    /\ LET c == Current(w, s)
           cleared == [w EXCEPT !.saveError = FALSE]
       IN  visit' = {IF c \in Pending(s)
                       THEN [cleared EXCEPT !.saving = {[step |-> c, version |-> s.version, revision |-> Revision(s.version, c), answer |-> {}]}]
                       ELSE Advance(cleared, s)}
    /\ VisitStep /\ UNCHANGED tourState

ServeSeen ==
  \E w \in visit, v \in running : \E r \in w.saving :
    /\ r.answer = {} /\ alive /\ v = r.version
    /\ MarkSeen(v, r.step, r.revision)
    /\ visit' = {[w EXCEPT !.saving = {[r EXCEPT !.answer = {StateFor(v, progress')}]}]}
    /\ UNCHANGED <<running, rights, grants, sessionVars, tourAsked, tourState, dismissed, address>>

\* Mutant: the page goes on whether or not the chapter was saved.
AfterSaving(w, s, heard) == Advance(w, s)

\* The answer replaces the state, and the page goes on; an error keeps the chapter and says so.
AfterSeen(w, s, heard) == IF heard THEN Advance(w, s) ELSE [w EXCEPT !.saveError = TRUE]

HearSeen ==
  \E w \in visit, s \in tourState : \E r \in w.saving, heard \in BOOLEAN :
    /\ heard => r.answer # {}
    /\ tourState' = IF heard THEN r.answer ELSE tourState
    /\ visit' = UNION {Settle({AfterSeen([w EXCEPT !.saving = {}], t, heard)}, t) : t \in tourState'}
    /\ VisitStep

TourInit ==
  /\ running = {1} /\ rights \in Rights /\ grants = 0
  /\ progress = [c \in Chapters |-> 0] /\ seenVersion = 0
  /\ alive \in BOOLEAN /\ provider \in {"oidc", "google"}
  /\ checking = TRUE /\ user = "none" /\ sessionAsked = {"sent"}
  /\ tourAsked = {} /\ tourState = {} /\ dismissed = FALSE /\ address = "elsewhere" /\ visit = {}

TourNext ==
  \/ ChangeRights \/ Deploy \/ OtherTabMarks
  \/ ServeSession \/ HearSession \/ RefreshAccess \/ SessionEnds \/ SignedOut \/ Logout \/ SignIn
  \/ ServeTour \/ HearTour \/ ReloadTour \/ Dismiss
  \/ OpenTour \/ LeaveTour \/ PreviousChapter \/ NextChapter \/ ServeSeen \/ HearSeen

(***************************************************************************)
(* Properties                                                              *)
(***************************************************************************)
\* What the page of the tour shows belongs together: the path is one of its mode and of the
\* rights the page knows, on a tour that was loaded since; what is being saved is the chapter
\* that is shown; and, unless the rights have changed under it, a visit that is finished has
\* left every chapter of the account seen on the server, whatever other tabs, other versions
\* and lost answers did.
TourIsCurrent ==
  \A w \in visit :
    /\ w.mode = address
    /\ w.known => /\ tourState # {} /\ tourAsked = {}
                  /\ w.for = user
    /\ \A r \in w.saving : \E s \in tourState : w.known /\ Current(w, s) = r.step
    /\ w.finished /\ w.stamp = grants =>
         \A s \in tourState : \A c \in OpenTo(rights) : progress[c] >= Revision(s.version, c)

\* "La progression n'abaisse jamais une révision déjà acquise" (docs/visite-guidee.md:43),
\* nor the summary of the account, while two versions of the application serve it.
ProgressIsKept ==
  [][seenVersion' >= seenVersion /\ \A c \in Chapters : progress'[c] >= progress[c]]_<<progress, seenVersion>>
==============================================================================
