---------------------------- MODULE AtomicAccounts ----------------------------
(***************************************************************************)
(* What the administration of accounts promises: every decision acts at    *)
(* one instant, an account that loses its access loses its sessions with   *)
(* it, and the last active administrator is kept.                          *)
(***************************************************************************)
CONSTANTS
  Accounts,         \* rows of table user
  Tokens,           \* browser sessions
  Administrators,   \* accounts the deployment starts with
  NoAccount         \* the account of a token that opens no session

VARIABLES
  exists,     \* the row: absent, live or deleted
  enabled,    \* user.enabled
  admin,      \* user.admin
  request,    \* auth_access_request.status, "none" without a row
  session     \* table auth_session: the account of a token

vars == <<exists, enabled, admin, request, session>>

Init ==
  /\ exists = [u \in Accounts |-> IF u \in Administrators THEN "live" ELSE "absent"]
  /\ enabled = [u \in Accounts |-> u \in Administrators]
  /\ admin = [u \in Accounts |-> u \in Administrators]
  /\ request = [u \in Accounts |-> "none"]
  /\ session = [t \in Tokens |-> NoAccount]

Active == {u \in Accounts : exists[u] = "live" /\ enabled[u] /\ admin[u]}

\* The only active administrator remains one.
Protected(u, e, a) == Active = {u} => e /\ a

\* The answer to a request for access, or its withdrawal.
Answer(u, e) ==
  IF request[u] = "none" THEN "none"
  ELSE IF e THEN "approved"
  ELSE IF request[u] \in {"pending", "rejected"} THEN "rejected" ELSE "disabled"

Without(u) == [t \in Tokens |-> IF session[t] = u THEN NoAccount ELSE session[t]]

\* A new account, without access: a first sign-in.
Register(u) ==
  /\ exists[u] = "absent"
  /\ exists' = [exists EXCEPT ![u] = "live"]
  /\ request' = [request EXCEPT ![u] = "pending"]
  /\ UNCHANGED <<enabled, admin, session>>

Create(u, e, a) ==
  /\ exists[u] = "absent"
  /\ exists' = [exists EXCEPT ![u] = "live"]
  /\ enabled' = [enabled EXCEPT ![u] = e]
  /\ admin' = [admin EXCEPT ![u] = a]
  /\ UNCHANGED <<request, session>>

ChangeRights(u, a) ==
  /\ exists[u] = "live"
  /\ Protected(u, enabled[u], a)
  /\ admin' = [admin EXCEPT ![u] = a]
  /\ UNCHANGED <<exists, enabled, request, session>>

\* Access granted or refused, with the rights.
Decide(u, e, a) ==
  /\ exists[u] = "live"
  /\ Protected(u, e, a)
  /\ enabled' = [enabled EXCEPT ![u] = e]
  /\ admin' = [admin EXCEPT ![u] = a]
  /\ request' = [request EXCEPT ![u] = Answer(u, e)]
  /\ session' = IF e THEN session ELSE Without(u)
  /\ UNCHANGED exists

Delete(u) ==
  /\ exists[u] = "live"
  /\ Protected(u, FALSE, FALSE)
  /\ exists' = [exists EXCEPT ![u] = "deleted"]
  /\ session' = Without(u)
  /\ UNCHANGED <<enabled, admin, request>>

\* One session replaces another; its account may have lost its access meanwhile, which
\* every request checks.
SignIn(u, t, old) ==
  /\ exists[u] # "absent"
  /\ session[t] = NoAccount
  /\ session' = [s \in Tokens |-> IF s = t THEN u ELSE IF s \in old THEN NoAccount ELSE session[s]]
  /\ UNCHANGED <<exists, enabled, admin, request>>

EndSession(t) ==
  /\ session' = [session EXCEPT ![t] = NoAccount]
  /\ UNCHANGED <<exists, enabled, admin, request>>

Next ==
  \/ \E u \in Accounts :
       \/ Register(u) \/ Delete(u)
       \/ \E a \in BOOLEAN : ChangeRights(u, a)
       \/ \E e, a \in BOOLEAN : Create(u, e, a) \/ Decide(u, e, a)
       \/ \E t \in Tokens, old \in SUBSET Tokens : SignIn(u, t, old)
  \/ \E t \in Tokens : EndSession(t)

Spec == Init /\ [][Next]_vars
==============================================================================
