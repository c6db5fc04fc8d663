------------------------- MODULE AccountAdministration -------------------------
(***************************************************************************)
(* Accounts and their sessions: server/auth/auth.go and                    *)
(* server/auth/user_administration.go, with the end of a sign-in           *)
(* (pkg/auth/oidc_login.go, Callback) and pkg/auth/oidc_session.go.        *)
(*                                                                         *)
(* A process is a request: a form of an administrator from the moment it   *)
(* is opened, or a sign-in from the moment its account is known.  Each     *)
(* write is one READ COMMITTED transaction, seen by the others when it     *)
(* commits.  Its locks: the advisory lock of administrativeWrite, the      *)
(* account FOR UPDATE, the session rows it deletes, and for a new session  *)
(* KEY SHARE on the account its foreign key points to.                     *)
(***************************************************************************)
EXTENDS FiniteSets, Naturals

CONSTANTS
  Accounts,         \* rows of table user
  Tokens,           \* browser sessions
  Requests,         \* concurrent forms and sign-ins
  Administrators,   \* accounts the deployment starts with
  NoAccount,        \* account of a free token, of an idle request, of a form that creates one
  NoVersion,        \* a form sent without expected_updated_at
  MaxVersion        \* bound: updates of one account

ASSUME AccountAdministrationAssumption ==
  /\ IsFiniteSet(Accounts)
  /\ Administrators \subseteq Accounts
  /\ Administrators # {}
  /\ NoAccount \notin Accounts
  /\ MaxVersion \in Nat
  /\ NoVersion \notin 0 .. MaxVersion

VARIABLES
  exists,     \* the row: absent, live or deleted
  enabled,    \* user.enabled
  admin,      \* user.admin
  version,    \* user.updated_at
  request,    \* auth_access_request.status, "none" without a row
  session,    \* table auth_session: the account of a token
  phase,      \* per request: where it is
  actor,      \* per request: the administrator who sends the form
  account,    \* per request: the account of the form or of the sign-in
  seen,       \* per request: the version the form shows
  form,       \* per request: what it has checked and is about to write
  removed     \* per request: sessions deleted and not committed

accounts == <<exists, enabled, admin, version, request>>
locals == <<actor, account, seen, form, removed>>
vars == <<exists, enabled, admin, version, request, session,
          phase, actor, account, seen, form, removed>>

Statuses == {"none", "pending", "approved", "rejected", "disabled"}

\* form: open in a browser, or sent and without the advisory lock; locked: advisory lock
\* held, actor checked again; checked: account locked, form accepted; revoked: sessions
\* deleted.  resolved: a sign-in knows its account; rotated: previous session deleted;
\* inserted: new session inserted.
Phases == {"idle", "form", "locked", "checked", "revoked",
           "resolved", "rotated", "inserted"}

Forms == [deletes : BOOLEAN, resolves : BOOLEAN, enabled : BOOLEAN, admin : BOOLEAN]

NoForm == [deletes |-> FALSE, resolves |-> FALSE, enabled |-> FALSE, admin |-> FALSE]

TypeOK ==
  /\ exists \in [Accounts -> {"absent", "live", "deleted"}]
  /\ enabled \in [Accounts -> BOOLEAN]
  /\ admin \in [Accounts -> BOOLEAN]
  /\ version \in [Accounts -> 0 .. MaxVersion]
  /\ request \in [Accounts -> Statuses]
  /\ session \in [Tokens -> Accounts \cup {NoAccount}]
  /\ phase \in [Requests -> Phases]
  /\ actor \in [Requests -> Accounts \cup {NoAccount}]
  /\ account \in [Requests -> Accounts \cup {NoAccount}]
  /\ seen \in [Requests -> 0 .. MaxVersion \cup {NoVersion}]
  /\ form \in [Requests -> Forms]
  /\ removed \in [Requests -> SUBSET Tokens]

Init ==
  /\ exists = [u \in Accounts |-> IF u \in Administrators THEN "live" ELSE "absent"]
  /\ enabled = [u \in Accounts |-> u \in Administrators]
  /\ admin = [u \in Accounts |-> u \in Administrators]
  /\ version = [u \in Accounts |-> 0]
  /\ request = [u \in Accounts |-> "none"]
  /\ session = [t \in Tokens |-> NoAccount]
  /\ phase = [r \in Requests |-> "idle"]
  /\ actor = [r \in Requests |-> NoAccount]
  /\ account = [r \in Requests |-> NoAccount]
  /\ seen = [r \in Requests |-> NoVersion]
  /\ form = [r \in Requests |-> NoForm]
  /\ removed = [r \in Requests |-> {}]

------------------------------------------------------------------------------
(* Locks and transactions *)

\* mutant: role changes are not serialised
AdministrationFreeAlways == TRUE

\* pg_advisory_xact_lock(714067239106) does not have to wait.
AdministrationFree == \A r \in Requests : phase[r] \notin {"locked", "checked", "revoked"}

\* FOR UPDATE on the account waits for the sessions being inserted for it.
AccountFree(u) == \A r \in Requests : ~(phase[r] = "inserted" /\ account[r] = u)

\* mutant: the account is read without FOR UPDATE; its UPDATE changes no key
KeyShareFreeAlways(u) == TRUE

\* KEY SHARE on the account waits for the form that holds it.
KeyShareFree(u) ==
  \A r \in Requests : ~(phase[r] \in {"checked", "revoked"} /\ account[r] = u)

\* Nobody has deleted the session row and not committed yet.
TokenFree(t) == \A r \in Requests : t \notin removed[r]

\* COMMIT or ROLLBACK.
End(r) ==
  /\ phase' = [phase EXCEPT ![r] = "idle"]
  /\ actor' = [actor EXCEPT ![r] = NoAccount]
  /\ account' = [account EXCEPT ![r] = NoAccount]
  /\ seen' = [seen EXCEPT ![r] = NoVersion]
  /\ form' = [form EXCEPT ![r] = NoForm]
  /\ removed' = [removed EXCEPT ![r] = {}]

\* The request fails, its client leaves or closes the form, or its process stops.
Rollback(r) ==
  /\ phase[r] # "idle"
  /\ End(r)
  /\ UNCHANGED <<accounts, session>>

------------------------------------------------------------------------------
(* Rules *)

Active == {u \in Accounts : exists[u] = "live" /\ enabled[u] /\ admin[u]}

\* protectLastAdministrator.
Protected(u, e, a) == u \in Active => (e /\ a) \/ Cardinality(Active) > 1

\* EnrichAccess.
AccessStatus(u) ==
  IF enabled[u] THEN "active"
  ELSE IF request[u] \in {"pending", "rejected"} THEN request[u] ELSE "disabled"

Decisions == {"", "approve", "reject", "disable", "reactivate"}

\* validateAccessDecision: the decision answers the state of the account.
Suits(u, e, d) ==
  \/ d = ""
  \/ d = "approve" /\ AccessStatus(u) = "pending" /\ e
  \/ d = "reject" /\ AccessStatus(u) = "pending" /\ ~e
  \/ d = "disable" /\ enabled[u] /\ ~e
  \/ d = "reactivate" /\ ~enabled[u] /\ AccessStatus(u) # "pending" /\ e

\* mutant: the status the form shows is stored
AnswerAsShown(u, e) ==
  IF request[u] = "none" THEN "none"
  ELSE IF e THEN "active"
  ELSE IF request[u] \in {"pending", "rejected"} THEN "rejected" ELSE "disabled"

\* resolveAccess.
Answer(u, e) ==
  IF request[u] = "none" THEN "none"
  ELSE IF e THEN "approved"
  ELSE IF request[u] \in {"pending", "rejected"} THEN "rejected" ELSE "disabled"

\* mutant: only explicit decisions answer a request for access
ResolvesDecisions(u, e, d) == d # ""

\* UpdateUser answers the request for access and revokes sessions.
Resolves(u, e, d) == e # enabled[u] \/ d # ""

------------------------------------------------------------------------------
(* Forms of an administrator *)

\* The form shows the account as it is now, or creates one (NoAccount).
OpenForm(r, a, u) ==
  /\ phase[r] = "idle"
  /\ a \in Active
  /\ u # NoAccount => exists[u] = "live"
  /\ phase' = [phase EXCEPT ![r] = "form"]
  /\ actor' = [actor EXCEPT ![r] = a]
  /\ account' = [account EXCEPT ![r] = u]
  /\ \/ u # NoAccount /\ seen' = [seen EXCEPT ![r] = version[u]]
     \/ UNCHANGED seen
  /\ UNCHANGED <<accounts, session, form, removed>>

\* mutant: the actor is not read again under the lock
AdministrativeWriteTrusting(r) ==
  /\ phase[r] = "form"
  /\ AdministrationFree
  /\ phase' = [phase EXCEPT ![r] = "locked"]
  /\ UNCHANGED <<accounts, session, locals>>

\* RequireAdministrator, then administrativeWrite: the lock, and the actor again.  The
\* first look at the actor is left out: the second refuses all that it refuses.
AdministrativeWrite(r) ==
  /\ phase[r] = "form"
  /\ AdministrationFree
  /\ IF actor[r] \in Active
       THEN phase' = [phase EXCEPT ![r] = "locked"] /\ UNCHANGED locals
       ELSE End(r)
  /\ UNCHANGED <<accounts, session>>

\* A name that is taken, even by a deleted account, is refused.
CreateUser(r, u, e, a) ==
  /\ phase[r] = "locked"
  /\ account[r] = NoAccount
  /\ IF exists[u] = "absent"
       THEN /\ exists' = [exists EXCEPT ![u] = "live"]
            /\ enabled' = [enabled EXCEPT ![u] = e]
            /\ admin' = [admin EXCEPT ![u] = a]
       ELSE UNCHANGED <<exists, enabled, admin>>
  /\ End(r)
  /\ UNCHANGED <<version, request, session>>

\* Accepts or refuses the form; what it accepts is written at the commit.
Accept(r, accepted, f) ==
  /\ IF accepted
       THEN /\ phase' = [phase EXCEPT ![r] = "checked"]
            /\ form' = [form EXCEPT ![r] = f]
            /\ UNCHANGED <<actor, account, seen, removed>>
       ELSE End(r)
  /\ UNCHANGED <<accounts, session>>

\* UpdateUser up to its UPDATE.
UpdateUser(r, e, a, d) ==
  LET u == account[r] IN
    /\ phase[r] = "locked"
    /\ u # NoAccount
    /\ AccountFree(u)
    /\ Accept(r,
         /\ exists[u] = "live"
         /\ seen[r] \in {version[u], NoVersion}
         /\ Suits(u, e, d)
         /\ Protected(u, e, a)
         /\ version[u] < MaxVersion,
         [deletes |-> FALSE, resolves |-> Resolves(u, e, d), enabled |-> e, admin |-> a])

DeleteUser(r) ==
  LET u == account[r] IN
    /\ phase[r] = "locked"
    /\ u # NoAccount
    /\ AccountFree(u)
    /\ Accept(r, exists[u] = "live" /\ Protected(u, FALSE, FALSE), [NoForm EXCEPT !.deletes = TRUE])

\* The account loses its access.
Revokes(r) == form[r].deletes \/ (form[r].resolves /\ ~form[r].enabled)

\* DELETE FROM auth_session WHERE user_id: waits for the rows that others are deleting.
RevokeSessions(r) ==
  LET open == {t \in Tokens : session[t] = account[r]} IN
    /\ phase[r] = "checked"
    /\ Revokes(r)
    /\ \A t \in open : TokenFree(t)
    /\ phase' = [phase EXCEPT ![r] = "revoked"]
    /\ removed' = [removed EXCEPT ![r] = open]
    /\ UNCHANGED <<accounts, session, actor, account, seen, form>>

Written(r) == phase[r] = IF Revokes(r) THEN "revoked" ELSE "checked"

Left(r) == [t \in Tokens |-> IF t \in removed[r] THEN NoAccount ELSE session[t]]

CommitUpdate(r) ==
  LET u == account[r] IN
    /\ Written(r)
    /\ ~form[r].deletes
    /\ enabled' = [enabled EXCEPT ![u] = form[r].enabled]
    /\ admin' = [admin EXCEPT ![u] = form[r].admin]
    /\ version' = [version EXCEPT ![u] = @ + 1]
    /\ request' = IF form[r].resolves
                    THEN [request EXCEPT ![u] = Answer(u, form[r].enabled)] ELSE request
    /\ session' = Left(r)
    /\ End(r)
    /\ UNCHANGED exists

\* A soft delete.
CommitDelete(r) ==
  /\ Written(r)
  /\ form[r].deletes
  /\ exists' = [exists EXCEPT ![account[r]] = "deleted"]
  /\ session' = Left(r)
  /\ End(r)
  /\ UNCHANGED <<enabled, admin, version, request>>

------------------------------------------------------------------------------
(* Sign-in *)

\* bound: a token is left for every sign-in under way.
TokenLeft ==
  Cardinality({r \in Requests : phase[r] \in {"resolved", "rotated", "inserted"}})
    < Cardinality({t \in Tokens : session[t] = NoAccount})

\* resolveIdentity finds the account of a known identity.
Resolve(r, u) ==
  /\ phase[r] = "idle"
  /\ TokenLeft
  /\ exists[u] = "live"
  /\ phase' = [phase EXCEPT ![r] = "resolved"]
  /\ account' = [account EXCEPT ![r] = u]
  /\ UNCHANGED <<accounts, session, actor, seen, form, removed>>

\* Or creates the account of a new one, disabled, with a request for access.
Register(r, u) ==
  /\ phase[r] = "idle"
  /\ TokenLeft
  /\ exists[u] = "absent"
  /\ exists' = [exists EXCEPT ![u] = "live"]
  /\ request' = [request EXCEPT ![u] = "pending"]
  /\ phase' = [phase EXCEPT ![r] = "resolved"]
  /\ account' = [account EXCEPT ![r] = u]
  /\ UNCHANGED <<enabled, admin, version, session, actor, seen, form, removed>>

\* The session of the browser's cookie, if there is one (old has one element or none).
Rotate(r, old) ==
  /\ phase[r] = "resolved"
  /\ \A t \in old : session[t] # NoAccount /\ TokenFree(t)
  /\ phase' = [phase EXCEPT ![r] = "rotated"]
  /\ removed' = [removed EXCEPT ![r] = old]
  /\ UNCHANGED <<accounts, session, actor, account, seen, form>>

InsertSession(r) ==
  /\ phase[r] = "rotated"
  /\ KeyShareFree(account[r])
  /\ phase' = [phase EXCEPT ![r] = "inserted"]
  /\ UNCHANGED <<accounts, session, locals>>

\* The new token is one nobody has used.
CommitSignIn(r, t) ==
  /\ phase[r] = "inserted"
  /\ session[t] = NoAccount
  /\ session' = [Left(r) EXCEPT ![t] = account[r]]
  /\ End(r)
  /\ UNCHANGED accounts

\* Logout, or Login on an expired session: one DELETE.
Logout(t) ==
  /\ session[t] # NoAccount
  /\ TokenFree(t)
  /\ session' = [session EXCEPT ![t] = NoAccount]
  /\ UNCHANGED <<accounts, phase, locals>>

------------------------------------------------------------------------------
\* The form holds the account and wants a session row that the sign-in has deleted; the
\* sign-in wants the account.
Deadlocked(r, s) ==
  /\ phase[r] = "checked" /\ Revokes(r)
  /\ phase[s] = "rotated"
  /\ account[s] = account[r]
  /\ \E t \in removed[s] : session[t] = account[r]

\* mutant: nobody detects deadlocks
DetectDeadlockNever(r) == FALSE

\* PostgreSQL cancels one of them.
DetectDeadlock(r) ==
  /\ \E s \in Requests : Deadlocked(r, s) \/ Deadlocked(s, r)
  /\ End(r)
  /\ UNCHANGED <<accounts, session>>

Begin(r) ==
  \/ \E a \in Accounts, u \in Accounts \cup {NoAccount} : OpenForm(r, a, u)
  \/ AdministrativeWrite(r)
  \/ \E u \in Accounts : Resolve(r, u) \/ Register(r, u)

Proceed(r) ==
  \/ \E u \in Accounts, e, a \in BOOLEAN : CreateUser(r, u, e, a)
  \/ \E e, a \in BOOLEAN, d \in Decisions : UpdateUser(r, e, a, d)
  \/ DeleteUser(r) \/ RevokeSessions(r) \/ CommitUpdate(r) \/ CommitDelete(r)
  \/ \E old \in {{}} \cup {{t} : t \in Tokens} : Rotate(r, old)
  \/ InsertSession(r)
  \/ \E t \in Tokens : CommitSignIn(r, t)

Next ==
  \/ \E r \in Requests : Begin(r) \/ Proceed(r) \/ Rollback(r) \/ DetectDeadlock(r)
  \/ \E t \in Tokens : Logout(t)

Spec == Init /\ [][Next]_vars

\* A form that has the advisory lock and a sign-in go on: they wait for nothing but row
\* locks, whose queues PostgreSQL serves in order, and PostgreSQL breaks deadlocks
\* (deadlock_timeout).  A form may stay open forever.
FairSpec ==
  /\ Spec
  /\ \A r \in Requests : SF_vars(Proceed(r))
  /\ WF_vars(\E r \in Requests : DetectDeadlock(r))

------------------------------------------------------------------------------
(* Properties *)

\* An active administrator remains, "y compris lors de changements concurrents"
\* (administration-acces.md:44): two of them cannot remove each other at once.
AdministratorRemains == Active # {}

\* The request for access of an account says whether it has access: no pending or
\* rejected request of an enabled account, no approved one of a disabled account,
\* whichever decisions were taken (administration-acces.md:17-26).
RequestsMatchAccounts ==
  \A u \in Accounts :
    /\ request[u] \in {"pending", "rejected", "disabled"} => ~enabled[u]
    /\ request[u] = "approved" => enabled[u]

\* An account is only written by somebody who is still an active administrator when the
\* write takes effect, and an update comes from a form that showed the account as it
\* still was (unless the caller gave no version; a deletion gives none): "a
\* previously authorized request cannot demote a second administrator afterward"
\* (user_administration.go:16-17).
DecisionsAreInformed ==
  [][\A r \in Requests :
       phase[r] \in {"locked", "checked", "revoked"} /\ phase'[r] # phase[r] /\ accounts' # accounts =>
         /\ actor[r] \in Active
         /\ account[r] # NoAccount /\ ~form[r].deletes =>
              seen[r] \in {version[account[r]], NoVersion}]_vars

\* The promise; in particular an account that loses its access loses every session it
\* has at that instant, although sign-ins are under way: "désactiver un compte actif lui
\* retire l'accès et révoque ses sessions" (administration-acces.md:21).
Promise == INSTANCE AtomicAccounts

ImplementsAtomicAccounts == Promise!Spec

\* A form with the advisory lock and a sign-in come to an end, although they lock accounts and sessions in
\* opposite orders.
RequestsEnd ==
  \A r \in Requests : phase[r] \notin {"idle", "form"} ~> phase[r] = "idle"
==============================================================================
