-------------------------------- MODULE SignIn --------------------------------
(***************************************************************************)
(* Signing in: the attempts of OIDC and their callbacks (oidc_login.go),   *)
(* the account that an identity leads to (identity.go), with the provider  *)
(* of Google that came before and the command that links an identity       *)
(* explicitly, and the sessions of one browser (oidc_session.go).          *)
(*                                                                         *)
(* Several instances serve, so the transactions of two requests mix.  The  *)
(* name of an account is unique and never changes, so it stands for the    *)
(* account.                                                                *)
(***************************************************************************)
EXTENDS Integers, Sequences

CONSTANTS
  Subjects,    \* identities of the one issuer
  Mails,       \* verified addresses
  MaxAttempts, \* bound: sign-ins that are begun
  Requests     \* bound: requests served at once

ASSUME SignInAssumption == MaxAttempts \in Nat

VARIABLES
  issuerMode,  \* "google", then "oidc"
  users,       \* table "user"
  identities,  \* table auth_identity, in the order of created_at; by is a history field
  attempts,    \* table auth_login_attempt
  begun,       \* number of attempts that were begun
  sessions,    \* table auth_session
  opened,      \* history variable: sessions opened by each attempt
  binding, cookie, \* cookies of the browser: {} or one
  request      \* the requests in progress

signInVars == <<issuerMode, users, identities, attempts, begun, sessions, opened, binding, cookie, request>>

\* Without a verified address, an account is named after the subject.
NamesOf(s) == Mails \cup {s}
Accounts == Mails \cup Subjects

NoRequest == [stage |-> "none"]

At(q, stage) == request[q].stage = stage
Goes(q, stage) == request' = [request EXCEPT ![q].stage = stage]
Others(q) == {request[p] : p \in Requests \ {q}}

\* The transaction that resolves an identity goes on.
Resolving == {"account", "insert", "check", "associate"}
InTransaction(r) == r.stage \in Resolving

LinkedTo(s) == {identities[i].account : i \in {j \in DOMAIN identities : identities[j].subject = s}}
LinkedWith(n) == {i \in DOMAIN identities : identities[i].account = n}

(***************************************************************************)
(* Attempts                                                                *)
(***************************************************************************)
Login ==
  /\ issuerMode = "oidc" /\ begun < MaxAttempts
  /\ begun' = begun + 1
  /\ attempts' = attempts \cup {begun'}
  /\ binding' = {begun'}
  /\ UNCHANGED <<issuerMode, users, identities, sessions, opened, cookie, request>>

Expire ==
  /\ \/ \E a \in attempts : attempts' = attempts \ {a} /\ UNCHANGED sessions
     \/ \E x \in sessions : sessions' = sessions \ {x} /\ UNCHANGED attempts
  /\ UNCHANGED <<issuerMode, users, identities, begun, opened, binding, cookie, request>>

NewRequest(q, kind, s, n, a) ==
  /\ At(q, "none")
  /\ request' = [request EXCEPT ![q] = [stage |-> "lock", kind |-> kind, subject |-> s, account |-> n, new |-> FALSE,
                                        attempt |-> a, cookie |-> cookie, session |-> {}]]

\* Mutant: the attempt is read, and deleted later.
ConsumeLater(a) == a \in attempts /\ binding = {a} /\ UNCHANGED attempts

\* DELETE ... RETURNING
Consume(a) == a \in attempts /\ binding = {a} /\ attempts' = attempts \ {a}

\* Callback, of any attempt that was begun, however often; the provider vouches for a subject.
Callback ==
  \E q \in Requests, a \in 1..begun, s \in Subjects : \E n \in NamesOf(s) :
    /\ Consume(a)
    /\ NewRequest(q, "oidc", s, n, {a})
    /\ UNCHANGED <<issuerMode, users, identities, begun, sessions, opened, binding, cookie>>

\* An attempt that is not there, is of another browser or was refused by the provider:
\* the answer clears the cookie.
CallbackRefused ==
  /\ binding # {} /\ begun > 0
  /\ \E a \in 1..begun : attempts' = IF binding = {a} THEN attempts \ {a} ELSE attempts
  /\ binding' = {}
  /\ UNCHANGED <<issuerMode, users, identities, begun, sessions, opened, cookie, request>>

(***************************************************************************)
(* Identities                                                              *)
(***************************************************************************)
\* A request with a token of Google.
GoogleRequest ==
  /\ issuerMode = "google"
  /\ \E q \in Requests, s \in Subjects, n \in Mails : NewRequest(q, "google", s, n, {})
  /\ UNCHANGED <<issuerMode, users, identities, attempts, begun, sessions, opened, binding, cookie>>

LinkIdentity ==
  /\ \E q \in Requests, s \in Subjects, n \in users : NewRequest(q, "operator", s, n, {})
  /\ UNCHANGED <<issuerMode, users, identities, attempts, begun, sessions, opened, binding, cookie>>

MoveToOidc ==
  /\ issuerMode = "google"
  /\ issuerMode' = "oidc"
  /\ UNCHANGED <<users, identities, attempts, begun, sessions, opened, binding, cookie, request>>

RequestStep == UNCHANGED <<issuerMode, users, identities, attempts, begun, sessions, opened, binding, cookie>>

\* identityLock: of the issuer and the subject, until the transaction ends.
IdentityLock(q) == \A r \in Others(q) : InTransaction(r) => r.subject # request[q].subject

\* An identity that is known leads to its account.  Nobody else associates a subject that is
\* locked, so the lock and the look-up are one step.
Lookup(q) ==
  /\ At(q, "lock") /\ IdentityLock(q)
  /\ LET r == request[q]
     IN  IF r.kind = "operator" \/ LinkedTo(r.subject) = {}
           THEN Goes(q, IF r.kind = "oidc" THEN "insert" ELSE "account")
           ELSE request' = [request EXCEPT ![q] = IF r.kind = "google" THEN NoRequest
                                                   ELSE [r EXCEPT !.stage = "session", !.account = CHOOSE n \in LinkedTo(r.subject) : TRUE]]
  /\ RequestStep

\* Mutant: the row of the account is not locked.
RowIsFreeAlways(q) == TRUE

RowIsFree(q) == \A r \in Others(q) : r.stage \in {"check", "associate"} => r.account # request[q].account

\* SELECT ... FOR UPDATE
SelectAccount(q) ==
  /\ At(q, "account")
  /\ IF request[q].account \in users THEN RowIsFree(q) /\ Goes(q, "check") ELSE Goes(q, "insert")
  /\ RequestStep

\* The unique name: waits for another insertion, then fails if there is an account.
InsertAccount(q) ==
  /\ At(q, "insert")
  /\ \A r \in Others(q) : r.stage \in {"check", "associate"} /\ r.new => r.account # request[q].account
  /\ LET r == request[q]
     IN  request' = [request EXCEPT ![q] = IF r.account \in users THEN NoRequest
                                            ELSE [r EXCEPT !.new = TRUE, !.stage = IF r.kind = "google" THEN "check" ELSE "associate"]]
  /\ RequestStep

\* Mutant: an account is not asked whether it has an identity.
MayAssociateAny(r) == LinkedTo(r.subject) = {}

\* established, or what the command finds.
MayAssociate(r) == LinkedTo(r.subject) = {} /\ (r.kind = "google" => LinkedWith(r.account) = {})

Check(q) ==
  /\ At(q, "check")
  /\ request' = [request EXCEPT ![q] = IF MayAssociate(request[q]) THEN [request[q] EXCEPT !.stage = "associate"] ELSE NoRequest]
  /\ RequestStep

\* The identity is created with its account, and the transaction commits.
Associate(q) ==
  /\ At(q, "associate")
  /\ LET r == request[q]
     IN  /\ users' = users \cup {r.account}
         /\ identities' = Append(identities, [subject |-> r.subject, account |-> r.account, by |-> r.kind])
         /\ request' = [request EXCEPT ![q] = IF r.kind = "oidc" THEN [r EXCEPT !.stage = "session"] ELSE NoRequest]
  /\ UNCHANGED <<issuerMode, attempts, begun, sessions, opened, binding, cookie>>

\* An error, a request that is given up, or accounts that may not be created.
Fail(q) ==
  /\ ~At(q, "none")
  /\ request' = [request EXCEPT ![q] = NoRequest]
  /\ binding' \in {binding, {}}
  /\ UNCHANGED <<issuerMode, users, identities, attempts, begun, sessions, opened, cookie>>

(***************************************************************************)
(* Sessions                                                                *)
(***************************************************************************)
\* The session that the browser had ends.
OpenSession(q) ==
  /\ At(q, "session")
  /\ \E a \in request[q].attempt :
       LET r == request[q]
           x == [attempt |-> a, copy |-> opened[a] + 1, subject |-> r.subject, account |-> r.account]
       IN  /\ sessions' = (sessions \ request[q].cookie) \cup {x}
           /\ opened' = [opened EXCEPT ![a] = @ + 1]
           /\ request' = [request EXCEPT ![q].stage = "answer", ![q].session = {x}]
  /\ UNCHANGED <<issuerMode, users, identities, attempts, begun, binding, cookie>>

HearCallback(q) ==
  /\ At(q, "answer")
  /\ cookie' = request[q].session /\ binding' = {}
  /\ request' = [request EXCEPT ![q] = NoRequest]
  /\ UNCHANGED <<issuerMode, users, identities, attempts, begun, sessions, opened>>

Leave ==
  /\ cookie # {} /\ cookie \subseteq sessions
  /\ sessions' = sessions \ cookie
  /\ cookie' = {}
  /\ UNCHANGED <<issuerMode, users, identities, attempts, begun, opened, binding, request>>

SignInInit ==
  /\ issuerMode \in {"google", "oidc"}
  /\ users \in SUBSET Mails /\ identities = <<>>
  /\ attempts = {} /\ begun = 0 /\ sessions = {} /\ opened = [a \in 1..MaxAttempts |-> 0]
  /\ binding = {} /\ cookie = {}
  /\ request = [q \in Requests |-> NoRequest]

SignInNext ==
  \/ Login \/ Expire \/ Callback \/ CallbackRefused \/ GoogleRequest \/ LinkIdentity \/ MoveToOidc
  \/ \E q \in Requests : \/ Lookup(q) \/ SelectAccount(q) \/ InsertAccount(q) \/ Check(q) \/ Associate(q)
                         \/ Fail(q) \/ OpenSession(q) \/ HearCallback(q)
  \/ Leave

(***************************************************************************)
(* Properties                                                              *)
(***************************************************************************)
\* "consommées atomiquement une seule fois, même avec plusieurs instances" (README.md:389)
AttemptsServeOnce == \A a \in DOMAIN opened : opened[a] <= 1

\* A subject leads to one account, and its sessions too.
IdentitiesAreStable ==
  /\ \A i, j \in DOMAIN identities : identities[i].subject = identities[j].subject => i = j
  /\ \A x \in sessions : LinkedTo(x.subject) = {x.account}

\* "Ne jamais fusionner sur l'e-mail seul" (docs/production-oidc.md:8): only the operator adds
\* an identity to an account that has one.
NeverMergedByAddress ==
  \A i, j \in DOMAIN identities : i < j /\ identities[i].account = identities[j].account => identities[j].by = "operator"

\* Callbacks that come twice, subjects that sign in at the same time with the same address,
\* the move from one provider to the other and explicit links, in any order of their
\* transactions, leave each attempt used once and each account with its own identity.
SignInIsSound == AttemptsServeOnce /\ IdentitiesAreStable /\ NeverMergedByAddress
==============================================================================
