--------------------- MODULE AccountAdministration_proofs ---------------------
(***************************************************************************)
(* For any number of accounts, sessions, forms and sign-ins: an active     *)
(* administrator remains, and the interleaved transactions act as if one   *)
(* after the other.                                                        *)
(***************************************************************************)
EXTENDS AccountAdministration, FiniteSetTheorems, TLAPS

\* The form holds the advisory lock.
Administers(r) == phase[r] \in {"locked", "checked", "revoked"}

\* The form holds the account too.
Holds(r) == phase[r] \in {"checked", "revoked"}

SigningIn(r) == phase[r] \in {"resolved", "rotated", "inserted"}

\* One administrator writes at a time, and is one while writing.
Serialised ==
  \A r \in Requests : Administers(r) =>
    /\ actor[r] \in Active
    /\ \A s \in Requests : Administers(s) => s = r

\* An account that does not exist yet has no access and no request.
AbsentHaveNothing ==
  \A u \in Accounts : exists[u] = "absent" => ~enabled[u] /\ request[u] = "none"

\* What a form has checked still holds when it commits.
FormsHold ==
  \A r \in Requests : Holds(r) =>
    /\ account[r] \in Accounts
    /\ exists[account[r]] = "live"
    /\ form[r].deletes => Protected(account[r], FALSE, FALSE)
    /\ ~form[r].deletes =>
         /\ Protected(account[r], form[r].enabled, form[r].admin)
         /\ seen[r] \in {version[account[r]], NoVersion}
         /\ version[account[r]] < MaxVersion
         /\ ~form[r].resolves => form[r].enabled = enabled[account[r]]

SignInsKnowAccount ==
  \A r \in Requests : SigningIn(r) => account[r] \in Accounts /\ exists[account[r]] # "absent"

\* A sign-in that has inserted its session keeps the forms away from the account.
KeyShared ==
  \A r, s \in Requests : Holds(r) /\ phase[s] = "inserted" => account[r] # account[s]

\* Sessions deleted and not committed are still in the table, and deleted once.
RemovalsPending ==
  \A r \in Requests :
    /\ removed[r] # {} => phase[r] \in {"revoked", "rotated", "inserted"}
    /\ \A t \in removed[r] :
         session[t] # NoAccount /\ (\A s \in Requests : t \in removed[s] => s = r)

\* A form that revokes has every session of the account.
RevokesAll ==
  \A r \in Requests : phase[r] = "revoked" =>
    \A t \in Tokens : session[t] = account[r] => t \in removed[r]

\* And no other session.
RevokesOnly ==
  \A r \in Requests : phase[r] = "revoked" =>
    \A t \in removed[r] : session[t] = account[r]

Writing == Serialised /\ AbsentHaveNothing /\ AdministratorRemains /\ RequestsMatchAccounts /\ FormsHold

Sessions == SignInsKnowAccount /\ KeyShared /\ RemovalsPending /\ RevokesAll /\ RevokesOnly

IInv == TypeOK /\ Writing /\ Sessions

------------------------------------------------------------------------------
(* Administrators *)

\* With more than one active administrator there is another one.
LEMMA Another ==
  ASSUME Cardinality(Active) > 1, NEW u
  PROVE \E v \in Active : v # u
<1>1. SUFFICES ASSUME \A v \in Active : v = u
              PROVE FALSE
  OBVIOUS
<1>2. Active \subseteq {u}
  BY <1>1
<1>3. IsFiniteSet({u}) /\ Cardinality({u}) = 1
  BY FS_Singleton
<1>4. Cardinality(Active) <= 1 /\ IsFiniteSet(Active)
  BY <1>2, <1>3, FS_Subset
<1>5. Cardinality(Active) \in Nat
  BY <1>4, FS_CardinalityType
<1> QED BY <1>4, <1>5

\* The protection leaves an administrator beside u, unless u was none or remains one.
LEMMA ProtectionHolds ==
  ASSUME AdministratorRemains, NEW u \in Accounts, NEW e, NEW a, Protected(u, e, a)
  PROVE (e /\ a) \/ \E v \in Active : v # u
BY Another DEF AdministratorRemains, Protected

\* What the code counts is what the promise says.
LEMMA ProtectionPromised ==
  ASSUME NEW u \in Accounts, NEW e, NEW a, Protected(u, e, a)
  PROVE Promise!Protected(u, e, a)
<1>1. Promise!Active = Active
  BY DEF Active, Promise!Active
<1> QED BY <1>1, Another DEF Protected, Promise!Protected

LEMMA ActiveKept ==
  ASSUME UNCHANGED <<exists, enabled, admin>>
  PROVE /\ Active' = Active
        /\ \A u, e, a : Protected(u, e, a)' <=> Protected(u, e, a)
BY DEF Active, Protected

\* Creating an account takes the rights from nobody.
LEMMA ActiveGrows ==
  ASSUME TypeOK, NEW u \in Accounts, exists[u] = "absent",
         exists' = [exists EXCEPT ![u] = "live"],
         \A v \in Accounts : v # u => enabled'[v] = enabled[v] /\ admin'[v] = admin[v]
  PROVE Active \subseteq Active'
BY DEF Active, TypeOK

------------------------------------------------------------------------------
(* Steps *)

LEMMA InitInvariant == Init => IInv
<1> SUFFICES ASSUME Init PROVE IInv
  OBVIOUS
<1>1. TypeOK
  BY AccountAdministrationAssumption DEF Init, TypeOK, Statuses, Phases, Forms, NoForm
<1>2. Writing
  BY AccountAdministrationAssumption
  DEF Init, Writing, Serialised, AbsentHaveNothing, AdministratorRemains, RequestsMatchAccounts,
      FormsHold, Administers, Holds, Active
<1>3. Sessions
  BY DEF Init, Sessions, SignInsKnowAccount, KeyShared, RemovalsPending, RevokesAll, RevokesOnly,
         SigningIn, Holds
<1> QED BY <1>1, <1>2, <1>3 DEF IInv

LEMMA EndStep ==
  ASSUME IInv, NEW r \in Requests, End(r), UNCHANGED <<accounts, session>>
  PROVE IInv' /\ UNCHANGED Promise!vars
<1> USE DEF End, accounts
<1>1. TypeOK'
  BY DEF IInv, TypeOK, Phases, Forms, NoForm
<1>2. Writing'
  BY ActiveKept, ZenonT(60) DEF IInv, TypeOK, Writing, Serialised, AbsentHaveNothing, AdministratorRemains,
     RequestsMatchAccounts, FormsHold, Administers, Holds
<1>3. Sessions'
  BY DEF IInv, TypeOK, Sessions, SignInsKnowAccount, KeyShared, RemovalsPending, RevokesAll,
         RevokesOnly, SigningIn, Holds
<1> QED BY <1>1, <1>2, <1>3 DEF IInv, Promise!vars

LEMMA StutterStep ==
  ASSUME IInv, UNCHANGED vars
  PROVE IInv'
<1> USE DEF vars
<1>1. TypeOK' /\ Sessions'
  BY DEF IInv, TypeOK, Sessions, SignInsKnowAccount, KeyShared, RemovalsPending, RevokesAll,
         RevokesOnly, SigningIn, Holds
<1>2. Writing'
  BY ActiveKept DEF IInv, Writing, Serialised, AbsentHaveNothing, AdministratorRemains,
     RequestsMatchAccounts, FormsHold, Administers, Holds
<1> QED BY <1>1, <1>2 DEF IInv

LEMMA OpenFormStep ==
  ASSUME IInv, NEW r \in Requests, NEW a \in Accounts, NEW u \in Accounts \cup {NoAccount},
         OpenForm(r, a, u)
  PROVE IInv' /\ UNCHANGED Promise!vars
<1> USE DEF OpenForm, accounts
<1>1. TypeOK'
  BY DEF IInv, TypeOK, Phases
<1>2. Writing'
  BY ActiveKept, ZenonT(60) DEF IInv, TypeOK, Writing, Serialised, AbsentHaveNothing, AdministratorRemains,
     RequestsMatchAccounts, FormsHold, Administers, Holds
<1>3. Sessions'
  BY DEF IInv, TypeOK, Sessions, SignInsKnowAccount, KeyShared, RemovalsPending, RevokesAll,
         RevokesOnly, SigningIn, Holds
<1> QED BY <1>1, <1>2, <1>3 DEF IInv, Promise!vars

LEMMA AdministrativeWriteStep ==
  ASSUME IInv, NEW r \in Requests, AdministrativeWrite(r)
  PROVE IInv' /\ UNCHANGED Promise!vars
<1>1. CASE actor[r] \in Active
  <2>0. /\ phase[r] = "form"
        /\ AdministrationFree
        /\ phase' = [phase EXCEPT ![r] = "locked"]
        /\ UNCHANGED <<accounts, session, locals>>
    BY <1>1 DEF AdministrativeWrite
  <2> USE <1>1, <2>0 DEF AdministrationFree, accounts, locals
  <2>1. TypeOK'
    BY DEF IInv, TypeOK, Phases
  <2>2. Writing'
    BY ActiveKept DEF IInv, TypeOK, Writing, Serialised, AbsentHaveNothing, AdministratorRemains,
       RequestsMatchAccounts, FormsHold, Administers, Holds
  <2>3. Sessions'
    BY DEF IInv, TypeOK, Sessions, SignInsKnowAccount, KeyShared, RemovalsPending, RevokesAll,
           RevokesOnly, SigningIn, Holds
  <2> QED BY <2>1, <2>2, <2>3 DEF IInv, Promise!vars
<1>2. CASE actor[r] \notin Active
  BY <1>2, EndStep DEF AdministrativeWrite
<1> QED BY <1>1, <1>2

LEMMA AcceptStep ==
  ASSUME IInv, NEW r \in Requests, NEW f \in Forms, NEW accepted \in BOOLEAN,
         phase[r] = "locked",
         account[r] \in Accounts,
         AccountFree(account[r]),
         Accept(r, accepted, f),
         accepted =>
           /\ exists[account[r]] = "live"
           /\ f.deletes => Protected(account[r], FALSE, FALSE)
           /\ ~f.deletes =>
                /\ Protected(account[r], f.enabled, f.admin)
                /\ seen[r] \in {version[account[r]], NoVersion}
                /\ version[account[r]] < MaxVersion
                /\ ~f.resolves => f.enabled = enabled[account[r]]
  PROVE IInv' /\ UNCHANGED Promise!vars
<1>1. CASE accepted
  <2> USE <1>1 DEF Accept, accounts
  <2>1. TypeOK'
    BY DEF IInv, TypeOK, Phases
  <2>2. (Serialised /\ AbsentHaveNothing /\ AdministratorRemains /\ RequestsMatchAccounts)'
    BY ActiveKept DEF IInv, TypeOK, Writing, Serialised, AbsentHaveNothing, AdministratorRemains,
       RequestsMatchAccounts, Administers
  <2>3. FormsHold'
    BY ActiveKept, ZenonT(60) DEF IInv, TypeOK, Writing, FormsHold, Holds
  <2>4. Sessions'
    BY DEF IInv, TypeOK, Sessions, SignInsKnowAccount, KeyShared, RemovalsPending, RevokesAll,
           RevokesOnly, SigningIn, Holds, AccountFree
  <2> QED BY <2>1, <2>2, <2>3, <2>4 DEF IInv, Writing, Promise!vars
<1>2. CASE ~accepted
  BY <1>2, EndStep DEF Accept
<1> QED BY <1>1, <1>2

LEMMA UpdateUserStep ==
  ASSUME IInv, NEW r \in Requests, NEW e \in BOOLEAN, NEW a \in BOOLEAN, NEW d \in Decisions,
         UpdateUser(r, e, a, d)
  PROVE IInv' /\ UNCHANGED Promise!vars
<1> DEFINE u == account[r]
           f == [deletes |-> FALSE, resolves |-> Resolves(u, e, d), enabled |-> e, admin |-> a]
           accepted == /\ exists[u] = "live"
                       /\ seen[r] \in {version[u], NoVersion}
                       /\ Suits(u, e, d)
                       /\ Protected(u, e, a)
                       /\ version[u] < MaxVersion
<1>1. /\ phase[r] = "locked"
      /\ u \in Accounts
      /\ AccountFree(u)
      /\ Accept(r, accepted, f)
  BY DEF UpdateUser, IInv, TypeOK
<1>2. Resolves(u, e, d) \in BOOLEAN /\ accepted \in BOOLEAN
  BY DEF Resolves, Suits, Protected
<1>3. f \in Forms
  BY <1>2 DEF Forms
<1>4. accepted => /\ exists[u] = "live"
                  /\ f.deletes => Protected(u, FALSE, FALSE)
                  /\ ~f.deletes =>
                       /\ Protected(u, f.enabled, f.admin)
                       /\ seen[r] \in {version[u], NoVersion}
                       /\ version[u] < MaxVersion
                       /\ ~f.resolves => f.enabled = enabled[u]
  BY DEF Resolves
<1> HIDE DEF accepted, f
<1> QED BY <1>1, <1>2, <1>3, <1>4, AcceptStep

LEMMA DeleteUserStep ==
  ASSUME IInv, NEW r \in Requests, DeleteUser(r)
  PROVE IInv' /\ UNCHANGED Promise!vars
<1> DEFINE u == account[r]
           f == [NoForm EXCEPT !.deletes = TRUE]
           accepted == exists[u] = "live" /\ Protected(u, FALSE, FALSE)
<1>1. /\ phase[r] = "locked"
      /\ u \in Accounts
      /\ AccountFree(u)
      /\ Accept(r, accepted, f)
  BY DEF DeleteUser, IInv, TypeOK
<1>2. accepted \in BOOLEAN
  BY DEF Protected
<1>3. f \in Forms /\ f.deletes
  BY DEF Forms, NoForm
<1>4. accepted => exists[u] = "live" /\ Protected(u, FALSE, FALSE)
  OBVIOUS
<1> HIDE DEF accepted, f
<1> QED BY <1>1, <1>2, <1>3, <1>4, AcceptStep

\* Creating the account u, by a first sign-in or by an administrator, leaves the forms that
\* hold other accounts as they are.
LEMMA CreateUserStep ==
  ASSUME IInv, NEW r \in Requests, NEW u \in Accounts, NEW e \in BOOLEAN, NEW a \in BOOLEAN,
         CreateUser(r, u, e, a)
  PROVE IInv' /\ (Promise!Next \/ UNCHANGED Promise!vars)
<1>1. CASE exists[u] = "absent"
  <2>1. /\ phase[r] = "locked"
        /\ exists' = [exists EXCEPT ![u] = "live"]
        /\ enabled' = [enabled EXCEPT ![u] = e]
        /\ admin' = [admin EXCEPT ![u] = a]
        /\ End(r)
        /\ UNCHANGED <<version, request, session>>
    BY <1>1 DEF CreateUser
  <2> USE <1>1, <2>1 DEF End
  <2>2. TypeOK'
    BY DEF IInv, TypeOK, Phases, Forms, NoForm
  <2>3. Active \subseteq Active'
    BY ActiveGrows DEF IInv, TypeOK
  <2>4. \A s \in Requests : ~Administers(s)'
    BY DEF IInv, TypeOK, Writing, Serialised, Administers
  <2>5. (Serialised /\ FormsHold)'
    BY <2>4 DEF Serialised, FormsHold, Administers, Holds
  <2>6. (AbsentHaveNothing /\ AdministratorRemains /\ RequestsMatchAccounts)'
    BY <2>3 DEF IInv, TypeOK, Writing, AbsentHaveNothing, AdministratorRemains, RequestsMatchAccounts
  <2>7. Sessions'
    BY DEF IInv, TypeOK, Sessions, SignInsKnowAccount, KeyShared, RemovalsPending, RevokesAll,
           RevokesOnly, SigningIn, Holds
  <2>8. Promise!Create(u, e, a)
    BY DEF Promise!Create
  <2> QED BY <2>2, <2>5, <2>6, <2>7, <2>8 DEF IInv, Writing, Promise!Next
<1>2. CASE exists[u] # "absent"
  BY <1>2, EndStep DEF CreateUser, accounts
<1> QED BY <1>1, <1>2

LEMMA RevokeSessionsStep ==
  ASSUME IInv, NEW r \in Requests, RevokeSessions(r)
  PROVE IInv' /\ UNCHANGED Promise!vars
<1>1. /\ phase[r] = "checked"
      /\ \A t \in Tokens : session[t] = account[r] => TokenFree(t)
      /\ phase' = [phase EXCEPT ![r] = "revoked"]
      /\ removed' = [removed EXCEPT ![r] = {t \in Tokens : session[t] = account[r]}]
      /\ UNCHANGED <<accounts, session, actor, account, seen, form>>
  BY DEF RevokeSessions
<1> USE <1>1 DEF accounts
<1>2. TypeOK'
  BY DEF IInv, TypeOK, Phases
<1>3. Writing'
  BY ActiveKept DEF IInv, TypeOK, Writing, Serialised, AbsentHaveNothing, AdministratorRemains,
     RequestsMatchAccounts, FormsHold, Administers, Holds
<1>4. account[r] \in Accounts
  BY DEF IInv, Writing, FormsHold, Holds
<1>5. Sessions'
  <2>1. (SignInsKnowAccount /\ KeyShared)'
    BY DEF IInv, TypeOK, Sessions, SignInsKnowAccount, KeyShared, SigningIn, Holds
  <2>2. RemovalsPending'
    BY <1>4, AccountAdministrationAssumption
    DEF IInv, TypeOK, Sessions, RemovalsPending, TokenFree
  <2>3. (RevokesAll /\ RevokesOnly)'
    BY DEF IInv, TypeOK, Sessions, RevokesAll, RevokesOnly
  <2> QED BY <2>1, <2>2, <2>3 DEF Sessions
<1> QED BY <1>2, <1>3, <1>5 DEF IInv, Promise!vars

\* The sessions left after a form that revokes are those of the other accounts.
LEMMA LeftIsWithout ==
  ASSUME IInv, NEW r \in Requests, phase[r] = "revoked"
  PROVE Left(r) = Promise!Without(account[r])
BY DEF IInv, TypeOK, Sessions, RevokesAll, RevokesOnly, Left, Promise!Without

LEMMA LeftIsAll ==
  ASSUME IInv, NEW r \in Requests, phase[r] = "checked"
  PROVE Left(r) = session
BY DEF IInv, TypeOK, Sessions, RemovalsPending, Left

\* A commit of a form takes nothing from the sign-ins under way.
LEMMA CommitSessions ==
  ASSUME IInv, NEW r \in Requests, Holds(r), End(r), session' = Left(r),
         \A u \in Accounts : exists[u] # "absent" => exists'[u] # "absent"
  PROVE /\ session' \in [Tokens -> Accounts \cup {NoAccount}]
        /\ Sessions'
<1> USE DEF End
<1>1. session' \in [Tokens -> Accounts \cup {NoAccount}]
  BY DEF IInv, TypeOK, Left
<1>2. (SignInsKnowAccount /\ KeyShared)'
  BY DEF IInv, TypeOK, Sessions, SignInsKnowAccount, KeyShared, SigningIn, Holds
<1>3. RemovalsPending'
  BY DEF IInv, TypeOK, Sessions, RemovalsPending, Left
<1>4. \A s \in Requests : ~(Holds(s)')
  BY DEF IInv, TypeOK, Writing, Serialised, Administers, Holds
<1>5. (RevokesAll /\ RevokesOnly)'
  BY <1>4 DEF RevokesAll, RevokesOnly, Holds
<1> QED BY <1>1, <1>2, <1>3, <1>5 DEF Sessions

LEMMA CommitUpdateStep ==
  ASSUME IInv, NEW r \in Requests, CommitUpdate(r)
  PROVE IInv' /\ Promise!Next
<1> DEFINE u == account[r]
           f == form[r]
<1>1. /\ Holds(r)
      /\ phase[r] = IF Revokes(r) THEN "revoked" ELSE "checked"
      /\ ~f.deletes
      /\ enabled' = [enabled EXCEPT ![u] = f.enabled]
      /\ admin' = [admin EXCEPT ![u] = f.admin]
      /\ version' = [version EXCEPT ![u] = @ + 1]
      /\ request' = IF f.resolves THEN [request EXCEPT ![u] = Answer(u, f.enabled)] ELSE request
      /\ session' = Left(r)
      /\ End(r)
      /\ UNCHANGED exists
  BY DEF CommitUpdate, Written, Holds
<1>2. /\ u \in Accounts
      /\ exists[u] = "live"
      /\ Protected(u, f.enabled, f.admin)
      /\ version[u] < MaxVersion
      /\ ~f.resolves => f.enabled = enabled[u]
      /\ f \in Forms
  BY <1>1 DEF IInv, TypeOK, Writing, FormsHold
<1>3. Answer(u, f.enabled) \in Statuses
  BY DEF Answer, Statuses
<1>4. session' \in [Tokens -> Accounts \cup {NoAccount}] /\ Sessions'
  BY <1>1, CommitSessions
<1>5. TypeOK'
  BY <1>1, <1>2, <1>3, <1>4, AccountAdministrationAssumption
  DEF IInv, TypeOK, Phases, Forms, NoForm, End
<1>6. AdministratorRemains'
  <2>1. CASE f.enabled /\ f.admin
    <3>1. u \in Active'
      BY <1>1, <1>2, <2>1 DEF IInv, TypeOK, Active
    <3> QED BY <3>1 DEF AdministratorRemains
  <2>2. CASE ~(f.enabled /\ f.admin)
    <3>1. PICK v \in Active : v # u
      BY <1>2, <2>2, ProtectionHolds DEF IInv, Writing
    <3>2. v \in Active'
      BY <1>1, <3>1 DEF IInv, TypeOK, Active
    <3> QED BY <3>2 DEF AdministratorRemains
  <2> QED BY <2>1, <2>2
<1>7. RequestsMatchAccounts'
  BY <1>1, <1>2 DEF IInv, TypeOK, Writing, RequestsMatchAccounts, Answer, Forms
<1>8. AbsentHaveNothing'
  BY <1>1, <1>2 DEF IInv, TypeOK, Writing, AbsentHaveNothing
<1>9. \A s \in Requests : ~(Administers(s)')
  BY <1>1 DEF IInv, TypeOK, Writing, Serialised, Administers, Holds, End
<1>10. (Serialised /\ FormsHold)'
  BY <1>9 DEF Serialised, FormsHold, Administers, Holds
<1>11. CASE f.resolves
  <2>1. session' = IF f.enabled THEN session ELSE Promise!Without(u)
    BY <1>1, <1>11, LeftIsWithout, LeftIsAll DEF Revokes
  <2>2. Promise!Protected(u, f.enabled, f.admin)
    BY <1>2, ProtectionPromised
  <2>3. Promise!Decide(u, f.enabled, f.admin)
    BY <1>1, <1>2, <1>11, <2>1, <2>2 DEF Promise!Decide, Promise!Answer, Answer
  <2> QED BY <1>2, <1>4, <1>5, <1>6, <1>7, <1>8, <1>10, <2>3 DEF IInv, Writing, Promise!Next, Forms
<1>12. CASE ~f.resolves
  <2>1. session' = session
    BY <1>1, <1>12, LeftIsAll DEF Revokes
  <2>2. Promise!Protected(u, enabled[u], f.admin)
    BY <1>2, <1>12, ProtectionPromised
  <2>3. Promise!ChangeRights(u, f.admin)
    BY <1>1, <1>2, <1>12, <2>1, <2>2 DEF Promise!ChangeRights, IInv, TypeOK
  <2> QED BY <1>2, <1>4, <1>5, <1>6, <1>7, <1>8, <1>10, <2>3 DEF IInv, Writing, Promise!Next, Forms
<1> QED BY <1>11, <1>12

LEMMA CommitDeleteStep ==
  ASSUME IInv, NEW r \in Requests, CommitDelete(r)
  PROVE IInv' /\ Promise!Next
<1> DEFINE u == account[r]
<1>1. /\ Holds(r)
      /\ phase[r] = "revoked"
      /\ form[r].deletes
      /\ exists' = [exists EXCEPT ![u] = "deleted"]
      /\ session' = Left(r)
      /\ End(r)
      /\ UNCHANGED <<enabled, admin, version, request>>
  BY DEF CommitDelete, Written, Holds, Revokes
<1>2. /\ u \in Accounts
      /\ exists[u] = "live"
      /\ Protected(u, FALSE, FALSE)
  BY <1>1 DEF IInv, Writing, FormsHold
<1>3. session' \in [Tokens -> Accounts \cup {NoAccount}] /\ Sessions'
  BY <1>1, <1>2, CommitSessions DEF IInv, TypeOK
<1>4. TypeOK'
  BY <1>1, <1>2, <1>3 DEF IInv, TypeOK, Phases, Forms, NoForm, End
<1>5. AdministratorRemains'
  <2>1. PICK v \in Active : v # u
    BY <1>2, ProtectionHolds DEF IInv, Writing
  <2>2. v \in Active'
    BY <1>1, <2>1 DEF IInv, TypeOK, Active
  <2> QED BY <2>2 DEF AdministratorRemains
<1>6. (RequestsMatchAccounts /\ AbsentHaveNothing)'
  BY <1>1, <1>2 DEF IInv, TypeOK, Writing, RequestsMatchAccounts, AbsentHaveNothing
<1>7. \A s \in Requests : ~(Administers(s)')
  BY <1>1 DEF IInv, TypeOK, Writing, Serialised, Administers, Holds, End
<1>8. (Serialised /\ FormsHold)'
  BY <1>7 DEF Serialised, FormsHold, Administers, Holds
<1>9. Promise!Protected(u, FALSE, FALSE)
  BY <1>2, ProtectionPromised
<1>10. Promise!Delete(u)
  BY <1>1, <1>2, <1>9, LeftIsWithout DEF Promise!Delete
<1> QED BY <1>2, <1>3, <1>4, <1>5, <1>6, <1>8, <1>10 DEF IInv, Writing, Promise!Next

------------------------------------------------------------------------------
(* Sign-ins *)

LEMMA ResolveStep ==
  ASSUME IInv, NEW r \in Requests, NEW u \in Accounts, Resolve(r, u)
  PROVE IInv' /\ UNCHANGED Promise!vars
<1> USE DEF Resolve, accounts
<1>1. TypeOK'
  BY DEF IInv, TypeOK, Phases
<1>2. Writing'
  BY ActiveKept DEF IInv, TypeOK, Writing, Serialised, AbsentHaveNothing, AdministratorRemains,
     RequestsMatchAccounts, FormsHold, Administers, Holds
<1>3. Sessions'
  BY DEF IInv, TypeOK, Sessions, SignInsKnowAccount, KeyShared, RemovalsPending, RevokesAll,
         RevokesOnly, SigningIn, Holds
<1> QED BY <1>1, <1>2, <1>3 DEF IInv, Promise!vars

LEMMA RegisterStep ==
  ASSUME IInv, NEW r \in Requests, NEW u \in Accounts, Register(r, u)
  PROVE IInv' /\ Promise!Next
<1>1. /\ phase[r] = "idle"
      /\ exists[u] = "absent"
      /\ exists' = [exists EXCEPT ![u] = "live"]
      /\ request' = [request EXCEPT ![u] = "pending"]
      /\ phase' = [phase EXCEPT ![r] = "resolved"]
      /\ account' = [account EXCEPT ![r] = u]
      /\ UNCHANGED <<enabled, admin, version, session, actor, seen, form, removed>>
  BY DEF Register
<1>2. ~enabled[u]
  BY <1>1 DEF IInv, Writing, AbsentHaveNothing
<1>3. Active' = Active
  BY <1>1, <1>2 DEF IInv, TypeOK, Active
<1>4. \A v, e, a : Protected(v, e, a)' <=> Protected(v, e, a)
  BY <1>3 DEF Protected
<1> USE <1>1
<1>5. TypeOK'
  BY DEF IInv, TypeOK, Phases, Statuses
<1>6. (Serialised /\ AdministratorRemains)'
  BY <1>3 DEF IInv, TypeOK, Writing, Serialised, AdministratorRemains, Administers
<1>7. (AbsentHaveNothing /\ RequestsMatchAccounts)'
  BY <1>2 DEF IInv, TypeOK, Writing, AbsentHaveNothing, RequestsMatchAccounts
<1>8. FormsHold'
  BY <1>4 DEF IInv, TypeOK, Writing, FormsHold, Holds
<1>9. Sessions'
  BY DEF IInv, TypeOK, Sessions, SignInsKnowAccount, KeyShared, RemovalsPending, RevokesAll,
         RevokesOnly, SigningIn, Holds
<1>10. Promise!Register(u)
  BY DEF Promise!Register
<1> QED BY <1>5, <1>6, <1>7, <1>8, <1>9, <1>10 DEF IInv, Writing, Promise!Next

LEMMA RotateStep ==
  ASSUME IInv, NEW r \in Requests, NEW old \in SUBSET Tokens, Rotate(r, old)
  PROVE IInv' /\ UNCHANGED Promise!vars
<1> USE DEF Rotate, accounts
<1>1. TypeOK'
  BY DEF IInv, TypeOK, Phases
<1>2. Writing'
  BY ActiveKept DEF IInv, TypeOK, Writing, Serialised, AbsentHaveNothing, AdministratorRemains,
     RequestsMatchAccounts, FormsHold, Administers, Holds
<1>3. Sessions'
  BY DEF IInv, TypeOK, Sessions, SignInsKnowAccount, KeyShared, RemovalsPending, RevokesAll,
         RevokesOnly, SigningIn, Holds, TokenFree
<1> QED BY <1>1, <1>2, <1>3 DEF IInv, Promise!vars

LEMMA InsertSessionStep ==
  ASSUME IInv, NEW r \in Requests, InsertSession(r)
  PROVE IInv' /\ UNCHANGED Promise!vars
<1> USE DEF InsertSession, accounts, locals
<1>1. TypeOK'
  BY DEF IInv, TypeOK, Phases
<1>2. Writing'
  BY ActiveKept DEF IInv, TypeOK, Writing, Serialised, AbsentHaveNothing, AdministratorRemains,
     RequestsMatchAccounts, FormsHold, Administers, Holds
<1>3. Sessions'
  BY DEF IInv, TypeOK, Sessions, SignInsKnowAccount, KeyShared, RemovalsPending, RevokesAll,
         RevokesOnly, SigningIn, Holds, KeyShareFree
<1> QED BY <1>1, <1>2, <1>3 DEF IInv, Promise!vars

LEMMA CommitSignInStep ==
  ASSUME IInv, NEW r \in Requests, NEW t \in Tokens, CommitSignIn(r, t)
  PROVE IInv' /\ Promise!Next
<1>1. /\ phase[r] = "inserted"
      /\ session[t] = NoAccount
      /\ session' = [Left(r) EXCEPT ![t] = account[r]]
      /\ End(r)
      /\ UNCHANGED accounts
  BY DEF CommitSignIn
<1>2. account[r] \in Accounts /\ exists[account[r]] # "absent"
  BY <1>1 DEF IInv, Sessions, SignInsKnowAccount, SigningIn
<1> USE <1>1 DEF End, accounts
<1>3. TypeOK'
  BY <1>2 DEF IInv, TypeOK, Phases, Forms, NoForm, Left
<1>4. Writing'
  BY ActiveKept, ZenonT(60) DEF IInv, TypeOK, Writing, Serialised, AbsentHaveNothing, AdministratorRemains,
     RequestsMatchAccounts, FormsHold, Administers, Holds
<1>5. Sessions'
  <2>1. (SignInsKnowAccount /\ KeyShared)'
    BY DEF IInv, TypeOK, Sessions, SignInsKnowAccount, KeyShared, SigningIn, Holds
  <2>2. RemovalsPending'
    BY DEF IInv, TypeOK, Sessions, RemovalsPending, Left
  <2>3. ASSUME NEW s \in Requests, phase'[s] = "revoked"
        PROVE \A k \in Tokens : session'[k] = account'[s] <=> k \in removed'[s]
    <3>1. /\ s # r
          /\ phase[s] = "revoked"
          /\ removed'[s] = removed[s]
          /\ account'[s] = account[s]
      BY <2>3 DEF IInv, TypeOK
    <3>2. account[s] # account[r] /\ account[s] # NoAccount
      BY <3>1, AccountAdministrationAssumption
      DEF IInv, Sessions, KeyShared, Writing, FormsHold, Holds
    <3>3. \A k \in Tokens : session[k] = account[s] <=> k \in removed[s]
      BY <3>1 DEF IInv, Sessions, RevokesAll, RevokesOnly
    <3>4. \A k \in removed[r] : k \notin removed[s]
      BY <3>1 DEF IInv, Sessions, RemovalsPending
    <3> QED BY <3>1, <3>2, <3>3, <3>4 DEF IInv, TypeOK, Left
  <2>4. (RevokesAll /\ RevokesOnly)'
    BY <1>3, <2>3 DEF RevokesAll, RevokesOnly, TypeOK
  <2> QED BY <2>1, <2>2, <2>4 DEF Sessions
<1>6. Promise!SignIn(account[r], t, removed[r])
  BY <1>2 DEF Promise!SignIn, IInv, TypeOK, Left
<1>7. removed[r] \in SUBSET Tokens
  BY DEF IInv, TypeOK
<1> QED BY <1>2, <1>3, <1>4, <1>5, <1>6, <1>7 DEF IInv, Promise!Next

LEMMA LogoutStep ==
  ASSUME IInv, NEW t \in Tokens, Logout(t)
  PROVE IInv' /\ Promise!Next
<1> USE DEF Logout, accounts, locals
<1>1. TypeOK'
  BY DEF IInv, TypeOK
<1>2. Writing'
  BY ActiveKept DEF IInv, TypeOK, Writing, Serialised, AbsentHaveNothing, AdministratorRemains,
     RequestsMatchAccounts, FormsHold, Administers, Holds
<1>3. \A r \in Requests : Holds(r) => account[r] # NoAccount
  BY AccountAdministrationAssumption DEF IInv, Writing, FormsHold
<1>4. Sessions'
  BY <1>3 DEF IInv, TypeOK, Sessions, SignInsKnowAccount, KeyShared, RemovalsPending, RevokesAll,
         RevokesOnly, SigningIn, Holds, TokenFree
<1>5. Promise!EndSession(t)
  BY DEF Promise!EndSession
<1> QED BY <1>1, <1>2, <1>4, <1>5 DEF IInv, Promise!Next

------------------------------------------------------------------------------
(* Theorems *)

LEMMA NextStep ==
  ASSUME IInv, Next
  PROVE IInv' /\ (Promise!Next \/ UNCHANGED Promise!vars)
<1>1. CASE \E t \in Tokens : Logout(t)
  BY <1>1, LogoutStep
<1>2. ASSUME NEW r \in Requests, Begin(r)
      PROVE IInv' /\ (Promise!Next \/ UNCHANGED Promise!vars)
  BY <1>2, OpenFormStep, AdministrativeWriteStep, ResolveStep, RegisterStep DEF Begin
<1>3. ASSUME NEW r \in Requests, Proceed(r)
      PROVE IInv' /\ (Promise!Next \/ UNCHANGED Promise!vars)
  <2>1. CASE \E u \in Accounts, e, a \in BOOLEAN : CreateUser(r, u, e, a)
    BY <2>1, CreateUserStep
  <2>2. CASE \E e, a \in BOOLEAN, d \in Decisions : UpdateUser(r, e, a, d)
    BY <2>2, UpdateUserStep
  <2>3. CASE DeleteUser(r) \/ RevokeSessions(r) \/ CommitUpdate(r) \/ CommitDelete(r)
    BY <2>3, DeleteUserStep, RevokeSessionsStep, CommitUpdateStep, CommitDeleteStep
  <2>4. CASE \E old \in {{}} \cup {{t} : t \in Tokens} : Rotate(r, old)
    BY <2>4, RotateStep
  <2>5. CASE InsertSession(r) \/ \E t \in Tokens : CommitSignIn(r, t)
    BY <2>5, InsertSessionStep, CommitSignInStep
  <2> QED BY <1>3, <2>1, <2>2, <2>3, <2>4, <2>5 DEF Proceed
<1>4. ASSUME NEW r \in Requests, Rollback(r) \/ DetectDeadlock(r)
      PROVE IInv' /\ UNCHANGED Promise!vars
  BY <1>4, EndStep DEF Rollback, DetectDeadlock
<1> QED BY <1>1, <1>2, <1>3, <1>4 DEF Next

\* Every lock does what the handlers count on: what a form has checked under its locks,
\* and the sessions it revokes, are the current ones when it commits.
THEOREM InvariantHolds == Spec => []IInv
<1>1. IInv /\ [Next]_vars => IInv'
  BY NextStep, StutterStep
<1> QED BY InitInvariant, <1>1, PTL DEF Spec

\* Every variable keeps its type.
THEOREM TypeCorrect == Spec => []TypeOK
<1>1. IInv => TypeOK
  BY DEF IInv
<1> QED BY InvariantHolds, <1>1, PTL

\* However many administrators write at once, an active one remains (protectLastAdministrator).
THEOREM AdministratorKept == Spec => []AdministratorRemains
<1>1. IInv => AdministratorRemains
  BY DEF IInv, Writing
<1> QED BY InvariantHolds, <1>1, PTL

\* Requests for access and accounts agree (resolveAccess).
THEOREM RequestsAnswered == Spec => []RequestsMatchAccounts
<1>1. IInv => RequestsMatchAccounts
  BY DEF IInv, Writing
<1> QED BY InvariantHolds, <1>1, PTL

\* Interleaved forms, sign-ins and logouts act as if one after the other; an account that
\* loses its access loses all its sessions in the same step.
THEOREM AccountsAreAtomic == Spec => ImplementsAtomicAccounts
<1>1. Init => Promise!Init
  BY DEF Init, Promise!Init
<1>2. IInv /\ [Next]_vars => [Promise!Next]_(Promise!vars)
  BY NextStep DEF vars, Promise!vars
<1> QED BY InvariantHolds, <1>1, <1>2, PTL DEF Spec, ImplementsAtomicAccounts, Promise!Spec

\* Only a step of its own moves a request.
LEMMA OwnSteps ==
  ASSUME TypeOK, Next, NEW r \in Requests, phase'[r] # phase[r]
  PROVE Begin(r) \/ Proceed(r) \/ Rollback(r) \/ DetectDeadlock(r)
<1>1. ASSUME NEW s \in Requests, s # r, Begin(s) \/ Rollback(s) \/ DetectDeadlock(s)
      PROVE FALSE
  BY <1>1 DEF TypeOK, Begin, OpenForm, AdministrativeWrite, Resolve, Register, Rollback,
     DetectDeadlock, End
<1>2. ASSUME NEW s \in Requests, s # r, Proceed(s)
      PROVE FALSE
  BY <1>2 DEF TypeOK, Proceed, CreateUser, UpdateUser, DeleteUser, Accept, RevokeSessions,
     CommitUpdate, CommitDelete, Rotate, InsertSession, CommitSignIn, End
<1>3. ASSUME NEW t \in Tokens, Logout(t)
      PROVE FALSE
  BY <1>3 DEF Logout
<1> QED BY <1>1, <1>2, <1>3 DEF Next

\* A form that holds the advisory lock only writes on what it has checked.
LEMMA LockedFormsCreate ==
  ASSUME TypeOK, Next, NEW r \in Requests, phase[r] = "locked", phase'[r] # phase[r],
         account[r] # NoAccount
  PROVE accounts' = accounts
<1>1. CASE Rollback(r) \/ DetectDeadlock(r)
  BY <1>1 DEF Rollback, DetectDeadlock
<1>2. CASE Proceed(r)
  <2>1. DeleteUser(r) \/ \E e, a \in BOOLEAN, d \in Decisions : UpdateUser(r, e, a, d)
    BY <1>2 DEF Proceed, CreateUser, RevokeSessions, CommitUpdate, CommitDelete, Written,
       Rotate, InsertSession, CommitSignIn
  <2> QED BY <2>1 DEF UpdateUser, DeleteUser, Accept
<1>3. ~Begin(r)
  BY DEF Begin, OpenForm, AdministrativeWrite, Resolve, Register
<1> QED BY <1>1, <1>2, <1>3, OwnSteps

\* Whoever writes an account is an administrator at that moment, and an update comes from
\* a form that showed the account as it still was (expected_updated_at).
THEOREM DecisionsInformed == Spec => DecisionsAreInformed
<1> DEFINE Informed == \A r \in Requests :
             phase[r] \in {"locked", "checked", "revoked"} /\ phase'[r] # phase[r] /\ accounts' # accounts =>
               /\ actor[r] \in Active
               /\ account[r] # NoAccount /\ ~form[r].deletes =>
                    seen[r] \in {version[account[r]], NoVersion}
<1>1. ASSUME IInv, Next
      PROVE Informed
  <2> SUFFICES ASSUME NEW r \in Requests, Administers(r), phase'[r] # phase[r], accounts' # accounts
               PROVE /\ actor[r] \in Active
                     /\ account[r] # NoAccount /\ ~form[r].deletes =>
                          seen[r] \in {version[account[r]], NoVersion}
    BY DEF Administers
  <2>1. actor[r] \in Active
    BY <1>1 DEF IInv, Writing, Serialised
  <2>2. CASE Holds(r)
    BY <1>1, <2>1, <2>2 DEF IInv, Writing, FormsHold
  <2>3. CASE phase[r] = "locked"
    BY <1>1, <2>1, <2>3, LockedFormsCreate DEF IInv
  <2> QED BY <2>2, <2>3 DEF Administers, Holds
<1>2. IInv /\ [Next]_vars => [Informed]_vars
  <2> HIDE DEF Informed
  <2> QED BY <1>1
<1> QED BY InvariantHolds, <1>2, PTL DEF Spec, DecisionsAreInformed
==============================================================================
