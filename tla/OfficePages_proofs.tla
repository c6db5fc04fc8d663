--------------------------- MODULE OfficePages_proofs ---------------------------
(***************************************************************************)
(* What is proved of a page alone holds in the application, where every    *)
(* behaviour is one of each page: so each part is first proved of a        *)
(* specification of its own, and of the whole at the end.                  *)
(*                                                                         *)
(* Sign-in: for any number of requests, subjects, addresses and attempts,  *)
(* an attempt opens one session at the most, a subject leads to one        *)
(* account, and only the operator gives an account a second identity.  The *)
(* lock of the identity, the lock of the row and the unique name of an     *)
(* account each keep one part of this.                                     *)
(*                                                                         *)
(* Guided tour: for any chapters revised and any number of changes of the  *)
(* rights, it belongs to the user it is shown to, and what it says was     *)
(* seen was seen on the server.                                            *)
(*                                                                         *)
(* Mailing lists: for any addresses and any number of edits and            *)
(* synchronizations, lists that are about to be announced as verified are  *)
(* what the members want, and the calls of a synchronization are those     *)
(* that were confirmed.  A list whose tasks were read before its           *)
(* subscribers, and which had none, can no longer change as long as nobody *)
(* else calls the provider.                                                *)
(*                                                                         *)
(* The directory agrees with its address, its source and its form, the     *)
(* accounts with their filter, and what leaves a page was confirmed.       *)
(***************************************************************************)
EXTENDS OfficePages, TLAPS

------------------------------------------------------------------------------
(* Sign-in *)

SignInSpec == SignInInit /\ [][SignInNext]_signInVars

Kinds == {"oidc", "google", "operator"}
Stages == {"lock", "account", "insert", "check", "associate", "session", "answer"}

SessionRows == [attempt : 1 .. MaxAttempts, copy : Nat, subject : Subjects, account : Accounts]

RequestRows ==
  [stage : Stages, kind : Kinds, subject : Subjects, account : Accounts, new : BOOLEAN,
   attempt : SUBSET (1 .. MaxAttempts), cookie : SUBSET SessionRows, session : SUBSET SessionRows]

IdentityRows == [subject : Subjects, account : Accounts, by : Kinds]

SignInTables ==
  /\ begun \in 0 .. MaxAttempts
  /\ attempts \subseteq 1 .. begun
  /\ opened \in [1 .. MaxAttempts -> Nat]
  /\ users \subseteq Accounts
  /\ identities \in Seq(IdentityRows)
  /\ sessions \subseteq SessionRows
  /\ cookie \subseteq SessionRows
  /\ request \in [Requests -> RequestRows \cup {NoRequest}]

HasRow(r) == r.stage \in {"check", "associate"}

\* What a request relies on: its attempt is used up and, until it answers, has opened no
\* session; what it has read under its locks still holds.
RowSound(r) ==
  /\ \A a \in r.attempt :
       a <= begun /\ a \notin attempts /\ (r.stage # "answer" => opened[a] = 0)
  /\ r.stage \in {"insert", "associate"} \/ (r.stage = "account" /\ r.kind = "google") =>
       LinkedTo(r.subject) = {}
  /\ r.stage = "session" => LinkedTo(r.subject) = {r.account}
  /\ HasRow(r) => (r.new <=> r.account \notin users)
  /\ r.stage = "associate" /\ r.kind # "operator" => LinkedWith(r.account) = {}
  /\ r.kind = "operator" => r.account \in users /\ r.stage \notin {"insert", "session", "answer"}
  /\ r.kind = "google" => r.stage \notin {"session", "answer"}
  /\ r.kind = "oidc" => r.stage \notin {"account", "check"}
  /\ r.stage \in {"lock", "account", "insert"} => ~r.new

\* What two requests never share: an attempt, the lock of an identity, that of an account.
Apart(r, t) ==
  /\ r.attempt \cap t.attempt = {}
  /\ InTransaction(r) /\ InTransaction(t) => r.subject # t.subject
  /\ HasRow(r) /\ HasRow(t) => r.account # t.account

RowsSound == \A q \in Requests : request[q] # NoRequest => RowSound(request[q])

RowsApart ==
  \A q, p \in Requests :
    q # p /\ request[q] # NoRequest /\ request[p] # NoRequest => Apart(request[q], request[p])

\* An attempt that was not begun, or is still in the table, has opened nothing.
AttemptsFollowed ==
  \A a \in 1 .. MaxAttempts : opened[a] <= 1 /\ (a > begun \/ a \in attempts => opened[a] = 0)

IdentitiesHaveAccounts == \A i \in DOMAIN identities : identities[i].account \in users

Kept == AttemptsFollowed /\ IdentitiesHaveAccounts /\ IdentitiesAreStable /\ NeverMergedByAddress

SignInIInv == SignInTables /\ RowsSound /\ RowsApart /\ Kept

------------------------------------------------------------------------------
LEMMA SignInStarts == SignInInit => SignInIInv
<1> SUFFICES ASSUME SignInInit PROVE SignInIInv
  OBVIOUS
<1>1. SignInTables
  BY SignInAssumption DEF SignInInit, SignInTables, Accounts
<1>2. RowsSound /\ RowsApart
  BY DEF SignInInit, RowsSound, RowsApart
<1>3. Kept
  BY SignInAssumption
  DEF SignInInit, Kept, AttemptsFollowed, IdentitiesHaveAccounts, IdentitiesAreStable, NeverMergedByAddress
<1> QED
  BY <1>1, <1>2, <1>3 DEF SignInIInv

\* A new row for one request is apart from all others if it is apart from each of them.
LEMMA NewRow ==
  ASSUME SignInIInv, NEW q \in Requests, NEW r \in RequestRows \cup {NoRequest},
         request' = [request EXCEPT ![q] = r],
         r # NoRequest =>
           \A p \in Requests \ {q} : request[p] # NoRequest => Apart(r, request[p])
  PROVE  /\ RowsApart'
         /\ request' \in [Requests -> RequestRows \cup {NoRequest}]
         /\ request'[q] = r
         /\ \A p \in Requests \ {q} : request'[p] = request[p]
<1>1. request' \in [Requests -> RequestRows \cup {NoRequest}]
  BY DEF SignInIInv, SignInTables
<1>2. request'[q] = r /\ \A p \in Requests \ {q} : request'[p] = request[p]
  BY DEF SignInIInv, SignInTables
<1>3. RowsApart'
  <2> SUFFICES ASSUME NEW p \in Requests, NEW o \in Requests, p # o,
                      request'[p] # NoRequest, request'[o] # NoRequest
               PROVE  Apart(request'[p], request'[o])
    BY DEF RowsApart
  <2>1. CASE p = q
    BY <1>2, <2>1
  <2>2. CASE o = q
    <3>1. Apart(request'[o], request'[p])
      BY <1>2, <2>2
    <3> QED
      BY <3>1 DEF Apart
  <2>3. CASE p # q /\ o # q
    BY <1>2, <2>3 DEF SignInIInv, RowsApart
  <2> QED
    BY <2>1, <2>2, <2>3
<1> QED
  BY <1>1, <1>2, <1>3

\* A request that only moves on keeps the invariant if its new row is sound and shares
\* nothing with the others.
LEMMA LocalStep ==
  ASSUME SignInIInv, NEW q \in Requests, NEW r \in RequestRows \cup {NoRequest},
         UNCHANGED <<users, identities, attempts, begun, sessions, opened, cookie>>,
         request' = [request EXCEPT ![q] = r],
         r # NoRequest => RowSound(r),
         r # NoRequest =>
           \A p \in Requests \ {q} : request[p] # NoRequest => Apart(r, request[p])
  PROVE  SignInIInv'
<1>1. /\ RowsApart'
      /\ request' \in [Requests -> RequestRows \cup {NoRequest}]
      /\ request'[q] = r
      /\ \A p \in Requests \ {q} : request'[p] = request[p]
  BY NewRow
<1>2. SignInTables'
  BY <1>1 DEF SignInIInv, SignInTables
<1>3. Kept'
  BY DEF SignInIInv, Kept, AttemptsFollowed, IdentitiesHaveAccounts, IdentitiesAreStable, NeverMergedByAddress, LinkedTo
<1>4. RowsSound'
  <2> SUFFICES ASSUME NEW p \in Requests, request'[p] # NoRequest PROVE RowSound(request[p])'
    BY DEF RowsSound
  <2>1. RowSound(request'[p])
    BY <1>1 DEF SignInIInv, RowsSound
  <2> QED
    BY <2>1 DEF RowSound, LinkedTo, LinkedWith
<1> QED
  BY <1>1, <1>2, <1>3, <1>4 DEF SignInIInv

\* The row of a request that is under way.
LEMMA RowUnderWay ==
  ASSUME SignInIInv, NEW q \in Requests, ~At(q, "none")
  PROVE  /\ request[q] \in RequestRows /\ request[q] # NoRequest
         /\ RowSound(request[q])
         /\ \A p \in Requests \ {q} : request[p] # NoRequest => Apart(request[q], request[p])
<1>1. request[q] # NoRequest
  BY DEF At, NoRequest
<1>2. request[q] \in RequestRows
  BY <1>1 DEF SignInIInv, SignInTables
<1> QED
  BY <1>1, <1>2 DEF SignInIInv, RowsSound, RowsApart

\* A request that begins, with an attempt that no other request has.
LEMMA NewRequestRow ==
  ASSUME SignInIInv, NEW q \in Requests, NEW k \in Kinds, NEW s \in Subjects, NEW n \in Accounts,
         NEW a \in SUBSET (1 .. MaxAttempts), NewRequest(q, k, s, n, a),
         \A p \in Requests : request[p] # NoRequest => request[p].attempt \cap a = {}
  PROVE  \E r \in RequestRows :
           /\ request' = [request EXCEPT ![q] = r]
           /\ r # NoRequest
           /\ r.stage = "lock" /\ ~r.new /\ r.kind = k /\ r.account = n /\ r.attempt = a
           /\ \A p \in Requests \ {q} : request[p] # NoRequest => Apart(r, request[p])
<1> DEFINE r == [stage |-> "lock", kind |-> k, subject |-> s, account |-> n, new |-> FALSE,
                 attempt |-> a, cookie |-> cookie, session |-> {}]
<1>1. r \in RequestRows
  BY DEF RequestRows, Stages, SignInIInv, SignInTables
<1>2. request' = [request EXCEPT ![q] = r]
  BY DEF NewRequest
<1>3. r # NoRequest
  BY DEF NoRequest
<1>4. \A p \in Requests \ {q} : request[p] # NoRequest => Apart(r, request[p])
  BY DEF Apart, InTransaction, Resolving, HasRow
<1> QED
  BY <1>1, <1>2, <1>3, <1>4

------------------------------------------------------------------------------
LEMMA LoginKeeps == ASSUME SignInIInv, Login PROVE SignInIInv'
<1>1. SignInTables'
  BY SignInAssumption DEF SignInIInv, SignInTables, Login
<1>2. RowsSound'
  <2> SUFFICES ASSUME NEW q \in Requests, request'[q] # NoRequest PROVE RowSound(request[q])'
    BY DEF RowsSound
  <2>1. request'[q] = request[q] /\ request[q] # NoRequest
    BY DEF Login
  <2>2. RowSound(request[q])
    BY <2>1 DEF SignInIInv, RowsSound
  <2>3. request[q].attempt \subseteq 1 .. MaxAttempts
    BY <2>1 DEF SignInIInv, SignInTables, RequestRows
  <2>4. \A a \in request[q].attempt :
           a <= begun' /\ a \notin attempts' /\ (request[q].stage # "answer" => opened'[a] = 0)
    BY <2>2, <2>3, SignInAssumption DEF Login, RowSound, SignInIInv, SignInTables
  <2>5. UNCHANGED <<users, identities>>
    BY DEF Login
  <2> QED
    BY <2>1, <2>2, <2>4, <2>5 DEF RowSound, LinkedTo, LinkedWith
<1>3. RowsApart'
  BY DEF SignInIInv, RowsApart, Login
<1>4. AttemptsFollowed'
  BY SignInAssumption DEF SignInIInv, SignInTables, Login, Kept, AttemptsFollowed
<1>5. Kept'
  BY <1>4
  DEF SignInIInv, Login, Kept, IdentitiesHaveAccounts, IdentitiesAreStable, NeverMergedByAddress, LinkedTo
<1> QED
  BY <1>1, <1>2, <1>3, <1>5 DEF SignInIInv

\* Rows of the tables of attempts and sessions may go, and the cookies may change.
LEMMA RemovalKeeps ==
  ASSUME SignInIInv, attempts' \subseteq attempts, sessions' \subseteq sessions,
         cookie' \subseteq SessionRows,
         UNCHANGED <<users, identities, begun, opened, request>>
  PROVE  SignInIInv'
<1>1. SignInTables'
  BY DEF SignInIInv, SignInTables
<1>2. RowsSound' /\ RowsApart'
  BY DEF SignInIInv, RowsSound, RowSound, RowsApart, LinkedTo, LinkedWith
<1>3. Kept'
  BY DEF SignInIInv, Kept, AttemptsFollowed, IdentitiesHaveAccounts, IdentitiesAreStable, NeverMergedByAddress, LinkedTo
<1> QED
  BY <1>1, <1>2, <1>3 DEF SignInIInv

LEMMA ExpireKeeps == ASSUME SignInIInv, Expire PROVE SignInIInv'
  BY RemovalKeeps DEF Expire, SignInIInv, SignInTables

LEMMA CallbackRefusedKeeps == ASSUME SignInIInv, CallbackRefused PROVE SignInIInv'
  BY RemovalKeeps DEF CallbackRefused, SignInIInv, SignInTables

LEMMA LeaveKeeps == ASSUME SignInIInv, Leave PROVE SignInIInv'
  BY RemovalKeeps DEF Leave, SignInIInv, SignInTables

LEMMA MoveToOidcKeeps == ASSUME SignInIInv, MoveToOidc PROVE SignInIInv'
  BY RemovalKeeps DEF MoveToOidc, SignInIInv, SignInTables

\* The attempt leaves the table as the request takes it.
LEMMA CallbackKeeps == ASSUME SignInIInv, Callback PROVE SignInIInv'
<1> PICK q \in Requests, a \in 1 .. begun, s \in Subjects, n \in Accounts :
         /\ Consume(a)
         /\ NewRequest(q, "oidc", s, n, {a})
         /\ UNCHANGED <<issuerMode, users, identities, begun, sessions, opened, binding, cookie>>
  BY DEF Callback, NamesOf, Accounts
<1>1. {a} \in SUBSET (1 .. MaxAttempts) /\ "oidc" \in Kinds
  BY SignInAssumption DEF SignInIInv, SignInTables, Kinds
<1>2. a \in attempts /\ attempts' = attempts \ {a}
  BY DEF Consume
<1>3. \A p \in Requests : request[p] # NoRequest => request[p].attempt \cap {a} = {}
  BY <1>2 DEF SignInIInv, RowsSound, RowSound
<1>4. PICK r \in RequestRows :
           /\ request' = [request EXCEPT ![q] = r]
           /\ r # NoRequest
           /\ r.stage = "lock" /\ ~r.new /\ r.kind = "oidc" /\ r.account = n /\ r.attempt = {a}
           /\ \A p \in Requests \ {q} : request[p] # NoRequest => Apart(r, request[p])
  BY <1>1, <1>3, NewRequestRow
<1>5. /\ RowsApart'
      /\ request' \in [Requests -> RequestRows \cup {NoRequest}]
      /\ request'[q] = r
      /\ \A p \in Requests \ {q} : request'[p] = request[p]
  BY <1>4, NewRow
<1>6. SignInTables'
  BY <1>2, <1>5 DEF SignInIInv, SignInTables
<1>7. Kept'
  BY <1>2 DEF SignInIInv, Kept, AttemptsFollowed, IdentitiesHaveAccounts, IdentitiesAreStable, NeverMergedByAddress, LinkedTo
<1>8. RowSound(r)'
  BY <1>2, <1>4, <1>1, SignInAssumption DEF RowSound, HasRow, SignInIInv, Kept, AttemptsFollowed, SignInTables
<1>9. \A p \in Requests \ {q} : request[p] # NoRequest => RowSound(request[p])'
  BY <1>2, <1>5 DEF SignInIInv, RowsSound, RowSound, LinkedTo, LinkedWith
<1>10. RowsSound'
  BY <1>5, <1>8, <1>9 DEF RowsSound
<1> QED
  BY <1>5, <1>6, <1>7, <1>10 DEF SignInIInv

LEMMA GoogleRequestKeeps == ASSUME SignInIInv, GoogleRequest PROVE SignInIInv'
<1> PICK q \in Requests, s \in Subjects, n \in Mails : NewRequest(q, "google", s, n, {})
  BY DEF GoogleRequest
<1>1. PICK r \in RequestRows :
           /\ request' = [request EXCEPT ![q] = r]
           /\ r # NoRequest
           /\ r.stage = "lock" /\ ~r.new /\ r.kind = "google" /\ r.account = n /\ r.attempt = {}
           /\ \A p \in Requests \ {q} : request[p] # NoRequest => Apart(r, request[p])
  BY NewRequestRow DEF Kinds, Accounts
<1>2. RowSound(r)
  BY <1>1 DEF RowSound, HasRow
<1> QED
  BY <1>1, <1>2, LocalStep DEF GoogleRequest

LEMMA LinkIdentityKeeps == ASSUME SignInIInv, LinkIdentity PROVE SignInIInv'
<1> PICK q \in Requests, s \in Subjects, n \in users : NewRequest(q, "operator", s, n, {})
  BY DEF LinkIdentity
<1>1. n \in Accounts
  BY DEF SignInIInv, SignInTables
<1>2. PICK r \in RequestRows :
           /\ request' = [request EXCEPT ![q] = r]
           /\ r # NoRequest
           /\ r.stage = "lock" /\ ~r.new /\ r.kind = "operator" /\ r.account = n /\ r.attempt = {}
           /\ \A p \in Requests \ {q} : request[p] # NoRequest => Apart(r, request[p])
  BY <1>1, NewRequestRow DEF Kinds
<1>3. RowSound(r)
  BY <1>2 DEF RowSound, HasRow
<1> QED
  BY <1>2, <1>3, LocalStep DEF LinkIdentity

\* What follows from a subject being associated once.
LEMMA OneAccount ==
  ASSUME SignInIInv, NEW s \in Subjects, LinkedTo(s) # {}
  PROVE  LinkedTo(s) = {CHOOSE n \in LinkedTo(s) : TRUE} /\ (CHOOSE n \in LinkedTo(s) : TRUE) \in Accounts
<1>1. \A n, o \in LinkedTo(s) : n = o
  BY DEF SignInIInv, Kept, IdentitiesAreStable, LinkedTo
<1>2. \A n \in LinkedTo(s) : n \in Accounts
  <2>1. \A i \in DOMAIN identities : identities[i] \in IdentityRows
    BY DEF SignInIInv, SignInTables
  <2> QED
    BY <2>1 DEF LinkedTo, IdentityRows
<1>3. (CHOOSE n \in LinkedTo(s) : TRUE) \in LinkedTo(s)
  OBVIOUS
<1> QED
  BY <1>1, <1>2, <1>3

LEMMA LookupKeeps == ASSUME SignInIInv, NEW q \in Requests, Lookup(q) PROVE SignInIInv'
<1> DEFINE old == request[q]
<1>1. /\ old \in RequestRows /\ old # NoRequest /\ RowSound(old)
      /\ \A p \in Requests \ {q} : request[p] # NoRequest => Apart(old, request[p])
  BY RowUnderWay DEF Lookup, At
<1>2. old.stage = "lock"
  BY DEF Lookup, At
<1>3. \A p \in Requests \ {q} : InTransaction(request[p]) => request[p].subject # old.subject
  BY DEF Lookup, IdentityLock, Others
<1>4. CASE old.kind = "operator" \/ LinkedTo(old.subject) = {}
  <2> DEFINE r == [old EXCEPT !.stage = IF old.kind = "oidc" THEN "insert" ELSE "account"]
  <2>1. request' = [request EXCEPT ![q] = r]
    BY <1>4 DEF Lookup, Goes
  <2>2. r \in RequestRows /\ r # NoRequest
    BY <1>1 DEF RequestRows, Stages, NoRequest
  <2>3. /\ r.subject = old.subject /\ r.kind = old.kind /\ r.attempt = old.attempt /\ r.account = old.account
        /\ r.stage = (IF old.kind = "oidc" THEN "insert" ELSE "account") /\ r.new = old.new
    BY <1>1 DEF RequestRows
  <2>4. RowSound(r)
    BY <1>1, <1>2, <1>4, <2>3 DEF RowSound, HasRow
  <2>5. \A p \in Requests \ {q} : request[p] # NoRequest => Apart(r, request[p])
    BY <1>1, <1>3, <2>3 DEF Apart, HasRow
  <2> QED
    BY <2>1, <2>2, <2>4, <2>5, LocalStep DEF Lookup, RequestStep
<1>5. CASE ~(old.kind = "operator" \/ LinkedTo(old.subject) = {}) /\ old.kind = "google"
  <2>1. request' = [request EXCEPT ![q] = NoRequest]
    BY <1>5 DEF Lookup
  <2> QED
    BY <2>1, LocalStep DEF Lookup, RequestStep
<1>6. CASE ~(old.kind = "operator" \/ LinkedTo(old.subject) = {}) /\ old.kind # "google"
  <2> DEFINE r == [old EXCEPT !.stage = "session", !.account = CHOOSE n \in LinkedTo(old.subject) : TRUE]
  <2>1. request' = [request EXCEPT ![q] = r]
    BY <1>6 DEF Lookup
  <2>2. old.subject \in Subjects /\ old.kind = "oidc"
    BY <1>1, <1>6 DEF RequestRows, Kinds
  <2>3. /\ LinkedTo(old.subject) = {CHOOSE n \in LinkedTo(old.subject) : TRUE}
        /\ (CHOOSE n \in LinkedTo(old.subject) : TRUE) \in Accounts
    BY <1>6, <2>2, OneAccount
  <2>4. r \in RequestRows /\ r # NoRequest
    BY <1>1, <2>3 DEF RequestRows, Stages, NoRequest
  <2>5. /\ r.subject = old.subject /\ r.kind = old.kind /\ r.attempt = old.attempt
        /\ r.account = (CHOOSE n \in LinkedTo(old.subject) : TRUE) /\ r.stage = "session"
    BY <1>1 DEF RequestRows
  <2>6. RowSound(r)
    BY <1>1, <1>2, <2>2, <2>3, <2>5 DEF RowSound, HasRow
  <2>7. \A p \in Requests \ {q} : request[p] # NoRequest => Apart(r, request[p])
    BY <1>1, <2>5 DEF Apart, HasRow, InTransaction, Resolving
  <2> QED
    BY <2>1, <2>4, <2>6, <2>7, LocalStep DEF Lookup, RequestStep
<1> QED
  BY <1>4, <1>5, <1>6

LEMMA SelectAccountKeeps == ASSUME SignInIInv, NEW q \in Requests, SelectAccount(q) PROVE SignInIInv'
<1> DEFINE old == request[q]
           next == IF old.account \in users THEN "check" ELSE "insert"
           r == [old EXCEPT !.stage = next]
<1>1. /\ old \in RequestRows /\ old # NoRequest /\ RowSound(old)
      /\ \A p \in Requests \ {q} : request[p] # NoRequest => Apart(old, request[p])
  BY RowUnderWay DEF SelectAccount, At
<1>2. old.stage = "account" /\ request' = [request EXCEPT ![q] = r]
  BY DEF SelectAccount, At, Goes
<1>3. next = "check" => \A p \in Requests \ {q} : HasRow(request[p]) => request[p].account # old.account
  BY DEF SelectAccount, RowIsFree, Others, HasRow
<1>4. r \in RequestRows /\ r # NoRequest
  BY <1>1 DEF RequestRows, Stages, NoRequest
<1>5. /\ r.subject = old.subject /\ r.kind = old.kind /\ r.attempt = old.attempt
      /\ r.account = old.account /\ r.stage = next /\ r.new = old.new
  BY <1>1 DEF RequestRows
<1>6. RowSound(r)
  <2>1. old.kind \in {"google", "operator"}
    BY <1>1, <1>2 DEF RowSound, RequestRows, Kinds
  <2> QED
    BY <1>1, <1>2, <1>5, <2>1 DEF RowSound, HasRow
<1>7. \A p \in Requests \ {q} : request[p] # NoRequest => Apart(r, request[p])
  BY <1>1, <1>2, <1>3, <1>5 DEF Apart, HasRow, InTransaction, Resolving
<1> QED
  BY <1>2, <1>4, <1>6, <1>7, LocalStep DEF SelectAccount, RequestStep

LEMMA InsertAccountKeeps == ASSUME SignInIInv, NEW q \in Requests, InsertAccount(q) PROVE SignInIInv'
<1> DEFINE old == request[q]
           r == [old EXCEPT !.new = TRUE, !.stage = IF old.kind = "google" THEN "check" ELSE "associate"]
<1>1. /\ old \in RequestRows /\ old # NoRequest /\ RowSound(old)
      /\ \A p \in Requests \ {q} : request[p] # NoRequest => Apart(old, request[p])
  BY RowUnderWay DEF InsertAccount, At
<1>2. old.stage = "insert"
  BY DEF InsertAccount, At
<1>3. \A p \in Requests \ {q} : HasRow(request[p]) /\ request[p].new => request[p].account # old.account
  BY DEF InsertAccount, Others, HasRow
<1>4. CASE old.account \in users
  <2>1. request' = [request EXCEPT ![q] = NoRequest]
    BY <1>4 DEF InsertAccount
  <2> QED
    BY <2>1, LocalStep DEF InsertAccount, RequestStep
<1>5. CASE old.account \notin users
  <2>1. request' = [request EXCEPT ![q] = r]
    BY <1>5 DEF InsertAccount
  <2>2. r \in RequestRows /\ r # NoRequest
    BY <1>1 DEF RequestRows, Stages, NoRequest
  <2>3. /\ r.subject = old.subject /\ r.kind = old.kind /\ r.attempt = old.attempt /\ r.account = old.account
        /\ r.new = TRUE /\ r.stage = IF old.kind = "google" THEN "check" ELSE "associate"
    BY <1>1 DEF RequestRows
  <2>4. LinkedWith(old.account) = {}
    BY <1>5 DEF LinkedWith, SignInIInv, Kept, IdentitiesHaveAccounts
  <2>5. old.kind \in {"oidc", "google"}
    BY <1>1, <1>2 DEF RowSound, RequestRows, Kinds
  <2>6. RowSound(r)
    BY <1>1, <1>2, <1>5, <2>3, <2>4, <2>5 DEF RowSound, HasRow
  <2>7. \A p \in Requests \ {q} : HasRow(request[p]) => request[p].account # old.account
    <3> SUFFICES ASSUME NEW p \in Requests \ {q}, HasRow(request[p]), ~request[p].new
                 PROVE  request[p].account # old.account
      BY <1>3
    <3>1. RowSound(request[p])
      BY DEF SignInIInv, RowsSound, HasRow, NoRequest
    <3> QED
      BY <1>5, <3>1 DEF RowSound
  <2>8. \A p \in Requests \ {q} : request[p] # NoRequest => Apart(r, request[p])
    BY <1>1, <1>2, <2>3, <2>7 DEF Apart, InTransaction, Resolving
  <2> QED
    BY <2>1, <2>2, <2>6, <2>8, LocalStep DEF InsertAccount, RequestStep
<1> QED
  BY <1>4, <1>5

LEMMA CheckKeeps == ASSUME SignInIInv, NEW q \in Requests, Check(q) PROVE SignInIInv'
<1> DEFINE old == request[q]
           r == [old EXCEPT !.stage = "associate"]
<1>1. /\ old \in RequestRows /\ old # NoRequest /\ RowSound(old)
      /\ \A p \in Requests \ {q} : request[p] # NoRequest => Apart(old, request[p])
  BY RowUnderWay DEF Check, At
<1>2. old.stage = "check"
  BY DEF Check, At
<1>3. CASE ~MayAssociate(old)
  <2>1. request' = [request EXCEPT ![q] = NoRequest]
    BY <1>3 DEF Check
  <2> QED
    BY <2>1, LocalStep DEF Check, RequestStep
<1>4. CASE MayAssociate(old)
  <2>1. request' = [request EXCEPT ![q] = r]
    BY <1>4 DEF Check
  <2>2. r \in RequestRows /\ r # NoRequest
    BY <1>1 DEF RequestRows, Stages, NoRequest
  <2>3. /\ r.subject = old.subject /\ r.kind = old.kind /\ r.attempt = old.attempt
        /\ r.account = old.account /\ r.new = old.new /\ r.stage = "associate"
    BY <1>1 DEF RequestRows
  <2>4. old.kind \in Kinds
    BY <1>1 DEF RequestRows
  <2>5. RowSound(r)
    BY <1>1, <1>2, <1>4, <2>3, <2>4 DEF RowSound, HasRow, MayAssociate, Kinds
  <2>6. \A p \in Requests \ {q} : request[p] # NoRequest => Apart(r, request[p])
    BY <1>1, <1>2, <2>3 DEF Apart, InTransaction, Resolving, HasRow
  <2> QED
    BY <2>1, <2>2, <2>5, <2>6, LocalStep DEF Check, RequestStep
<1> QED
  BY <1>3, <1>4

LEMMA FailKeeps == ASSUME SignInIInv, NEW q \in Requests, Fail(q) PROVE SignInIInv'
  BY LocalStep DEF Fail

------------------------------------------------------------------------------
(* Steps that write the tables. *)

\* What an identity that is added changes.
LEMMA Added ==
  ASSUME SignInIInv, NEW x \in IdentityRows, identities' = Append(identities, x)
  PROVE  /\ identities' \in Seq(IdentityRows)
         /\ \A s : LinkedTo(s)' = LinkedTo(s) \cup (IF x.subject = s THEN {x.account} ELSE {})
         /\ \A n : x.account # n => LinkedWith(n)' = LinkedWith(n)
         /\ DOMAIN identities' = DOMAIN identities \cup {Len(identities) + 1}
         /\ \A i \in DOMAIN identities : identities'[i] = identities[i]
         /\ identities'[Len(identities) + 1] = x
<1>1. identities \in Seq(IdentityRows)
  BY DEF SignInIInv, SignInTables
<1>2. identities' \in Seq(IdentityRows)
  BY <1>1
<1>3. /\ DOMAIN identities' = DOMAIN identities \cup {Len(identities) + 1}
      /\ \A i \in DOMAIN identities : identities'[i] = identities[i]
      /\ identities'[Len(identities) + 1] = x
      /\ Len(identities) + 1 \notin DOMAIN identities
  BY <1>1
<1>4. ASSUME NEW s PROVE LinkedTo(s)' = LinkedTo(s) \cup (IF x.subject = s THEN {x.account} ELSE {})
  BY <1>3 DEF LinkedTo
<1>5. ASSUME NEW n, x.account # n PROVE LinkedWith(n)' = LinkedWith(n)
  <2>1. \A i \in DOMAIN identities' : identities'[i].account = n => i \in DOMAIN identities /\ identities[i].account = n
    BY <1>3, <1>5
  <2>2. \A i \in DOMAIN identities : identities[i].account = n => i \in DOMAIN identities' /\ identities'[i].account = n
    BY <1>3
  <2> QED
    BY <2>1, <2>2 DEF LinkedWith
<1> QED
  BY <1>2, <1>3, <1>4, <1>5

LEMMA AssociateKeeps == ASSUME SignInIInv, NEW q \in Requests, Associate(q) PROVE SignInIInv'
<1> PICK old : old = request[q]
  OBVIOUS
<1> DEFINE x == [subject |-> old.subject, account |-> old.account, by |-> old.kind]
           r == IF old.kind = "oidc" THEN [old EXCEPT !.stage = "session"] ELSE NoRequest
           end == Len(identities) + 1
<1>1. /\ old \in RequestRows /\ old # NoRequest /\ RowSound(old)
      /\ \A p \in Requests \ {q} : request[p] # NoRequest => Apart(old, request[p])
  BY RowUnderWay DEF Associate, At
<1>2. /\ old.stage = "associate"
      /\ users' = users \cup {old.account}
      /\ identities' = Append(identities, x)
      /\ request' = [request EXCEPT ![q] = r]
      /\ UNCHANGED <<attempts, begun, sessions, opened, cookie>>
  BY DEF Associate, At
<1>3. x \in IdentityRows /\ x.subject = old.subject /\ x.account = old.account /\ x.by = old.kind
  BY <1>1 DEF RequestRows, IdentityRows
<1>4. /\ identities' \in Seq(IdentityRows)
      /\ \A s : LinkedTo(s)' = LinkedTo(s) \cup (IF old.subject = s THEN {old.account} ELSE {})
      /\ \A n : old.account # n => LinkedWith(n)' = LinkedWith(n)
      /\ DOMAIN identities' = DOMAIN identities \cup {end}
      /\ \A i \in DOMAIN identities : identities'[i] = identities[i]
      /\ identities'[end] = x
  <2> HIDE DEF x
  <2> QED
    BY <1>2, <1>3, Added
<1>5. LinkedTo(old.subject) = {} /\ (old.kind # "operator" => LinkedWith(old.account) = {})
  BY <1>1, <1>2 DEF RowSound
<1>6. r \in RequestRows \cup {NoRequest}
  BY <1>1 DEF RequestRows, Stages
<1>7. r # NoRequest => /\ r.subject = old.subject /\ r.kind = old.kind /\ r.attempt = old.attempt
                       /\ r.account = old.account /\ r.stage = "session" /\ r.kind = "oidc"
  BY <1>1 DEF RequestRows
<1>8. r # NoRequest => \A p \in Requests \ {q} : request[p] # NoRequest => Apart(r, request[p])
  BY <1>1, <1>7 DEF Apart, InTransaction, Resolving, HasRow
<1> HIDE DEF x, r
<1>9. /\ RowsApart'
      /\ request' \in [Requests -> RequestRows \cup {NoRequest}]
      /\ request'[q] = r
      /\ \A p \in Requests \ {q} : request'[p] = request[p]
  BY <1>2, <1>6, <1>8, NewRow
<1>10. SignInTables'
  BY <1>1, <1>2, <1>4, <1>9 DEF SignInIInv, SignInTables, RequestRows
<1>11. r # NoRequest => RowSound(r)'
  BY <1>1, <1>2, <1>4, <1>5, <1>7 DEF RowSound, HasRow
<1>12. ASSUME NEW p \in Requests \ {q}, request[p] # NoRequest PROVE RowSound(request[p])'
  <2> PICK t : t = request[p]
    OBVIOUS
  <2>1. RowSound(t) /\ Apart(old, t) /\ request'[p] = t
    BY <1>1, <1>9, <1>12 DEF SignInIInv, RowsSound
  <2>2. t.stage \in {"insert", "associate", "account"} => t.subject # old.subject
    BY <1>2, <2>1 DEF Apart, InTransaction, Resolving
  <2>3. HasRow(t) => t.account # old.account
    BY <1>2, <2>1 DEF Apart, HasRow
  <2>4. t.stage = "session" => LinkedTo(t.subject)' = LinkedTo(t.subject)
    BY <1>4, <1>5, <2>1 DEF RowSound
  <2>5. t.stage \in {"insert", "associate", "account"} => LinkedTo(t.subject)' = LinkedTo(t.subject)
    BY <1>4, <2>2
  <2>6. HasRow(t) => LinkedWith(t.account)' = LinkedWith(t.account)
    BY <1>4, <2>3
  <2>7. RowSound(t)'
    BY <1>2, <2>1, <2>3, <2>4, <2>5, <2>6 DEF RowSound, HasRow
  <2> QED
    BY <2>1, <2>7 DEF RowSound, HasRow
<1>13. RowsSound'
  BY <1>9, <1>11, <1>12 DEF RowsSound, RowSound, HasRow
<1>14. IdentitiesHaveAccounts'
  BY <1>2, <1>3, <1>4 DEF SignInIInv, Kept, IdentitiesHaveAccounts
<1>15. IdentitiesAreStable'
  <2>1. \A i \in DOMAIN identities : identities[i].subject # old.subject
    BY <1>5 DEF LinkedTo
  <2>2. \A i, j \in DOMAIN identities' : identities'[i].subject = identities'[j].subject => i = j
    BY <1>3, <1>4, <2>1 DEF SignInIInv, Kept, IdentitiesAreStable
  <2>3. \A y \in sessions : LinkedTo(y.subject)' = {y.account}
    BY <1>4, <1>5 DEF SignInIInv, Kept, IdentitiesAreStable
  <2> QED
    BY <1>2, <2>2, <2>3 DEF IdentitiesAreStable
<1>16. NeverMergedByAddress'
  <2> SUFFICES ASSUME NEW i \in DOMAIN identities', NEW j \in DOMAIN identities', i < j,
                      identities'[i].account = identities'[j].account
               PROVE  identities'[j].by = "operator"
    BY DEF NeverMergedByAddress
  <2>1. CASE i \in DOMAIN identities /\ j \in DOMAIN identities
    BY <1>4, <2>1 DEF SignInIInv, Kept, NeverMergedByAddress
  <2>2. CASE j = end /\ i \in DOMAIN identities
    BY <1>3, <1>4, <1>5, <2>2 DEF LinkedWith
  <2>3. i # end
    BY <1>4 DEF SignInIInv, SignInTables
  <2> QED
    BY <1>4, <2>1, <2>2, <2>3
<1>17. AttemptsFollowed'
  BY <1>2 DEF SignInIInv, Kept, AttemptsFollowed
<1> QED
  BY <1>9, <1>10, <1>13, <1>14, <1>15, <1>16, <1>17 DEF SignInIInv, Kept

LEMMA OpenSessionKeeps == ASSUME SignInIInv, NEW q \in Requests, OpenSession(q) PROVE SignInIInv'
<1>o. PICK old : old = request[q]
  OBVIOUS
<1>a. PICK a \in old.attempt :
      LET x == [attempt |-> a, copy |-> opened[a] + 1, subject |-> old.subject, account |-> old.account]
      IN  /\ sessions' = (sessions \ old.cookie) \cup {x}
          /\ opened' = [opened EXCEPT ![a] = @ + 1]
          /\ request' = [request EXCEPT ![q].stage = "answer", ![q].session = {x}]
  BY <1>o DEF OpenSession
<1>x. PICK x : x = [attempt |-> a, copy |-> opened[a] + 1, subject |-> old.subject, account |-> old.account]
  OBVIOUS
<1>r. PICK r : r = [old EXCEPT !.stage = "answer", !.session = {x}]
  OBVIOUS
<1>1. /\ old \in RequestRows /\ old # NoRequest /\ RowSound(old) /\ old.stage = "session"
      /\ \A p \in Requests \ {q} : request[p] # NoRequest => Apart(old, request[p])
  BY <1>o, RowUnderWay DEF OpenSession, At
<1>2. /\ sessions' = (sessions \ old.cookie) \cup {x}
      /\ opened' = [opened EXCEPT ![a] = @ + 1]
      /\ UNCHANGED <<users, identities, attempts, begun, cookie>>
  BY <1>a, <1>x DEF OpenSession
<1>3. request' = [request EXCEPT ![q] = r]
  BY <1>o, <1>a, <1>x, <1>r DEF SignInIInv, SignInTables
<1>4. /\ a \in 1 .. MaxAttempts /\ a <= begun /\ a \notin attempts /\ opened[a] = 0
      /\ LinkedTo(old.subject) = {old.account}
      /\ old.kind = "oidc"
  BY <1>1, <1>a DEF RowSound, RequestRows, Kinds
<1>5. x \in SessionRows /\ x.subject = old.subject /\ x.account = old.account
  BY <1>1, <1>4, <1>x DEF SessionRows, RequestRows, SignInIInv, SignInTables
<1>6. r \in RequestRows \cup {NoRequest}
  BY <1>1, <1>5, <1>r DEF RequestRows, Stages
<1>7. /\ r.subject = old.subject /\ r.kind = old.kind /\ r.attempt = old.attempt
      /\ r.account = old.account /\ r.stage = "answer"
  BY <1>1, <1>r DEF RequestRows
<1>8. r # NoRequest => \A p \in Requests \ {q} : request[p] # NoRequest => Apart(r, request[p])
  BY <1>1, <1>7 DEF Apart, InTransaction, Resolving, HasRow
<1>9. /\ RowsApart'
      /\ request' \in [Requests -> RequestRows \cup {NoRequest}]
      /\ request'[q] = r
      /\ \A p \in Requests \ {q} : request'[p] = request[p]
  BY <1>3, <1>6, <1>8, NewRow
<1>10. SignInTables'
  BY <1>2, <1>4, <1>5, <1>9 DEF SignInIInv, SignInTables
<1>11. RowSound(r)'
  BY <1>1, <1>2, <1>4, <1>7 DEF RowSound, HasRow
<1>12. ASSUME NEW p \in Requests \ {q}, request[p] # NoRequest PROVE RowSound(request[p])'
  <2> PICK t : t = request[p]
    OBVIOUS
  <2>1. RowSound(t) /\ Apart(old, t) /\ request'[p] = t
    BY <1>1, <1>9, <1>12 DEF SignInIInv, RowsSound
  <2>2. \A b \in t.attempt : opened'[b] = opened[b]
    BY <1>2, <2>1 DEF Apart, SignInIInv, SignInTables
  <2>3. RowSound(t)'
    BY <1>2, <2>1, <2>2 DEF RowSound, HasRow, LinkedTo, LinkedWith
  <2> QED
    BY <2>1, <2>3 DEF RowSound, HasRow
<1>13. RowsSound'
  <2> SUFFICES ASSUME NEW p \in Requests, request'[p] # NoRequest PROVE RowSound(request[p])'
    BY DEF RowsSound
  <2>1. CASE p = q
    BY <1>9, <1>11, <2>1 DEF RowSound, HasRow
  <2>2. CASE p # q
    BY <1>9, <1>12, <2>2
  <2> QED
    BY <2>1, <2>2
<1>14. AttemptsFollowed'
  BY <1>2, <1>4 DEF SignInIInv, SignInTables, Kept, AttemptsFollowed
<1>15. IdentitiesAreStable'
  BY <1>2, <1>4, <1>5 DEF SignInIInv, Kept, IdentitiesAreStable, LinkedTo
<1>16. IdentitiesHaveAccounts' /\ NeverMergedByAddress'
  BY <1>2 DEF SignInIInv, Kept, IdentitiesHaveAccounts, NeverMergedByAddress
<1> QED
  BY <1>9, <1>10, <1>13, <1>14, <1>15, <1>16 DEF SignInIInv, Kept

LEMMA HearCallbackKeeps == ASSUME SignInIInv, NEW q \in Requests, HearCallback(q) PROVE SignInIInv'
<1>1. request[q] \in RequestRows
  BY RowUnderWay DEF HearCallback, At
<1>2. /\ cookie' = request[q].session
      /\ request' = [request EXCEPT ![q] = NoRequest]
      /\ UNCHANGED <<users, identities, attempts, begun, sessions, opened>>
  BY DEF HearCallback
<1>3. /\ RowsApart'
      /\ request' \in [Requests -> RequestRows \cup {NoRequest}]
      /\ request'[q] = NoRequest
      /\ \A p \in Requests \ {q} : request'[p] = request[p]
  BY <1>2, NewRow
<1>4. SignInTables'
  BY <1>1, <1>2, <1>3 DEF SignInIInv, SignInTables, RequestRows
<1>5. RowsSound'
  BY <1>2, <1>3 DEF SignInIInv, RowsSound, RowSound, LinkedTo, LinkedWith
<1>6. Kept'
  BY <1>2 DEF SignInIInv, Kept, AttemptsFollowed, IdentitiesHaveAccounts, IdentitiesAreStable, NeverMergedByAddress, LinkedTo
<1> QED
  BY <1>3, <1>4, <1>5, <1>6 DEF SignInIInv

------------------------------------------------------------------------------
LEMMA SignInStepKeeps == ASSUME SignInIInv, [SignInNext]_signInVars PROVE SignInIInv'
<1>1. CASE Login
  BY <1>1, LoginKeeps
<1>2. CASE Expire
  BY <1>2, ExpireKeeps
<1>3. CASE Callback
  BY <1>3, CallbackKeeps
<1>4. CASE CallbackRefused
  BY <1>4, CallbackRefusedKeeps
<1>5. CASE GoogleRequest
  BY <1>5, GoogleRequestKeeps
<1>6. CASE LinkIdentity
  BY <1>6, LinkIdentityKeeps
<1>7. CASE MoveToOidc
  BY <1>7, MoveToOidcKeeps
<1>8. CASE Leave
  BY <1>8, LeaveKeeps
<1>9. ASSUME NEW q \in Requests,
             \/ Lookup(q) \/ SelectAccount(q) \/ InsertAccount(q) \/ Check(q) \/ Associate(q)
             \/ Fail(q) \/ OpenSession(q) \/ HearCallback(q)
      PROVE  SignInIInv'
  BY <1>9, LookupKeeps, SelectAccountKeeps, InsertAccountKeeps, CheckKeeps, AssociateKeeps,
     FailKeeps, OpenSessionKeeps, HearCallbackKeeps
<1>10. CASE UNCHANGED signInVars
  BY <1>10, RemovalKeeps DEF signInVars, SignInIInv, SignInTables
<1> QED
  BY <1>1, <1>2, <1>3, <1>4, <1>5, <1>6, <1>7, <1>8, <1>9, <1>10 DEF SignInNext

LEMMA InvariantImpliesSound == SignInIInv => SignInIsSound
<1>1. SignInIInv => AttemptsServeOnce
  BY DEF SignInIInv, SignInTables, Kept, AttemptsFollowed, AttemptsServeOnce
<1> QED
  BY <1>1 DEF SignInIInv, Kept, SignInIsSound

\* What the sign-in keeps of its own tables and requests (oidc_login.go, identity.go).
THEOREM SignInInvariant == SignInSpec => []SignInIInv
  BY SignInStarts, SignInStepKeeps, PTL DEF SignInSpec

\* An attempt opens one session at the most, a subject has one account and one account of an
\* address has one subject unless the operator links another, whatever requests race
\* (oidc_login.go:88, identity.go:95).
THEOREM SignInStaysSound == SignInSpec => []SignInIsSound
  BY SignInInvariant, InvariantImpliesSound, PTL

------------------------------------------------------------------------------
(* The guided tour *)

TourSpec == TourInit /\ [][TourNext]_tourVars

ProgressTyped ==
  /\ running \subseteq Versions
  /\ progress \in [Chapters -> 0 .. 2]
  /\ seenVersion \in 0 .. 2

ProgressGrows == seenVersion' >= seenVersion /\ \A c \in Chapters : progress'[c] >= progress[c]

LEMMA Marking ==
  ASSUME ProgressTyped, NEW v \in running, NEW c, NEW revision, MarkSeen(v, c, revision)
  PROVE  /\ progress' \in [Chapters -> 0 .. 2] /\ seenVersion' \in 0 .. 2
         /\ ProgressGrows
<1>1. revision \in 1 .. 2
  BY DEF MarkSeen, Revision
<1>2. v \in 1 .. 2
  BY DEF ProgressTyped, Versions
<1>3. progress' = [progress EXCEPT ![c] = IF @ < revision THEN revision ELSE @]
  BY DEF MarkSeen
<1>4. \A d \in Chapters : progress'[d] \in {progress[d], revision} /\ progress'[d] >= progress[d]
  BY <1>1, <1>3 DEF ProgressTyped
<1>5. progress' \in [Chapters -> 0 .. 2]
  <2>1. DOMAIN progress' = Chapters /\ \A d \in Chapters : progress'[d] \in 0 .. 2
    BY <1>1, <1>3, <1>4 DEF ProgressTyped
  <2>2. progress' = [d \in Chapters |-> progress'[d]]
    BY <1>3 DEF ProgressTyped
  <2> QED
    BY <2>1, <2>2
<1>6. (seenVersion' = v /\ seenVersion < v) \/ seenVersion' = seenVersion
  BY DEF MarkSeen
<1> QED
  BY <1>2, <1>4, <1>5, <1>6 DEF ProgressTyped, ProgressGrows

LEMMA TourKeeps ==
  ASSUME ProgressTyped, TourNext \/ UNCHANGED tourVars
  PROVE  ProgressTyped' /\ ProgressGrows
<1> USE DEF tourVars, tourServerVars, sessionVars, tourPageVars
<1>1. CASE OtherTabMarks
  <2>1. PICK v \in running, c \in Chapters : MarkSeen(v, c, Revision(v, c))
    BY <1>1 DEF OtherTabMarks
  <2>2. running' = running
    BY <1>1 DEF OtherTabMarks
  <2> QED
    BY <2>1, <2>2, Marking DEF ProgressTyped
<1>2. CASE ServeSeen
  <2>1. PICK w \in visit, v \in running : \E r \in w.saving : MarkSeen(v, r.step, r.revision)
    BY <1>2 DEF ServeSeen
  <2>2. PICK r \in w.saving : MarkSeen(v, r.step, r.revision)
    BY <2>1
  <2>3. running' = running
    BY <1>2 DEF ServeSeen
  <2> QED
    BY <2>2, <2>3, Marking DEF ProgressTyped
<1>3. CASE Deploy
  <2>1. running' \subseteq Versions /\ UNCHANGED <<progress, seenVersion>>
    BY <1>3 DEF Deploy, Versions
  <2> QED
    BY <2>1 DEF ProgressTyped, ProgressGrows
<1>4. CASE UNCHANGED <<running, progress, seenVersion>>
  BY <1>4 DEF ProgressTyped, ProgressGrows
<1>5. CASE TourNext
  <2>1. CASE \/ ChangeRights \/ ServeSession \/ HearSession \/ RefreshAccess \/ SessionEnds \/ SignedOut
             \/ Logout \/ SignIn
    BY <1>4, <2>1 DEF ChangeRights, ServeSession, HearSession, RefreshAccess, SessionEnds, SignedOut, Logout, SignIn
  <2>2. CASE \/ ServeTour \/ HearTour \/ ReloadTour \/ Dismiss
             \/ OpenTour \/ LeaveTour \/ PreviousChapter \/ NextChapter \/ HearSeen
    BY <1>4, <2>2 DEF ServeTour, HearTour, ReloadTour, Dismiss, OpenTour, LeaveTour, PreviousChapter,
                      NextChapter, HearSeen, VisitStep
  <2> QED
    BY <1>1, <1>2, <1>3, <1>5, <2>1, <2>2 DEF TourNext
<1> QED
  BY <1>4, <1>5

\* What the server has told of the tour: no more than was seen, of the rights of its time.
Told(s) ==
  /\ s = [version |-> s.version, seen |-> s.seen, stamp |-> s.stamp]
  /\ s.version \in Versions /\ s.stamp \in Nat /\ s.stamp <= grants
  /\ DOMAIN s.seen \subseteq Chapters
  /\ \A c \in DOMAIN s.seen : s.seen[c] \in Int /\ s.seen[c] <= progress[c]
  /\ s.stamp = grants => DOMAIN s.seen = OpenTo(rights)

Answered(answer) == (\A s, t \in answer : s = t) /\ (\A s \in answer : Told(s))

Seen(c, s) == progress[c] >= Revision(s.version, c)

VisitRow(w) ==
  /\ w = [mode |-> w.mode, for |-> w.for, stamp |-> w.stamp, known |-> w.known, path |-> w.path,
          index |-> w.index, finished |-> w.finished, saving |-> w.saving, saveError |-> w.saveError]
  /\ w.index \in Nat \ {0} /\ w.stamp \in Nat
  /\ ~w.known => w.path = {} /\ w.index = 1 /\ ~w.finished /\ w.saving = {}

\* The chapters that are not on the path were seen, and so were those before the present one.
Passed(w, s) ==
  w.known /\ w.stamp = grants =>
    /\ \A c \in OpenTo(rights) \ w.path : Seen(c, s)
    /\ ~w.finished => \A i \in 1 .. Len(ChaptersOf(w, s)) : i < w.index => Seen(ChaptersOf(w, s)[i], s)
    /\ w.finished => \A c \in OpenTo(rights) : Seen(c, s)

\* What is being saved is the chapter that is shown, and an answer to it says that it was seen.
Saves(w, s) ==
  /\ \A r, t \in w.saving : r = t
  /\ \A r \in w.saving :
       /\ r = [step |-> r.step, version |-> r.version, revision |-> r.revision, answer |-> r.answer]
       /\ ~w.finished /\ w.index <= Len(ChaptersOf(w, s)) /\ Current(w, s) = r.step
       /\ r.version = s.version /\ r.revision = Revision(s.version, r.step)
       /\ Answered(r.answer)
       /\ \A a \in r.answer : /\ a.version = r.version /\ a.stamp >= w.stamp
                              /\ r.step \in DOMAIN a.seen /\ a.seen[r.step] >= r.revision

\* The index is that of a chapter, if there is one.
Within(w, s) == w.index <= Len(ChaptersOf(w, s)) \/ w.index = 1

VisitOf(w, s) == w.stamp <= s.stamp /\ Within(w, s) /\ Passed(w, s) /\ Saves(w, s)

TourIInv ==
  /\ ProgressTyped /\ grants \in Nat
  /\ Answered(tourState)
  /\ \A r, t \in tourAsked : r = t
  /\ \A r \in tourAsked : r = [answer |-> r.answer] /\ Answered(r.answer)
  /\ \A w, v \in visit : w = v
  /\ \A w \in visit :
       /\ VisitRow(w) /\ w.mode = address
       /\ w.known => /\ tourState # {} /\ tourAsked = {} /\ w.for = user
                     /\ \A s \in tourState : VisitOf(w, s)

LEMMA TourHolds == TourIInv => TourIsCurrent
<1> SUFFICES ASSUME TourIInv, NEW w \in visit
             PROVE  /\ w.mode = address
                    /\ w.known => tourState # {} /\ tourAsked = {} /\ w.for = user
                    /\ \A r \in w.saving : \E s \in tourState : w.known /\ Current(w, s) = r.step
                    /\ w.finished /\ w.stamp = grants =>
                         \A s \in tourState : \A c \in OpenTo(rights) : progress[c] >= Revision(s.version, c)
  BY DEF TourIsCurrent
<1>1. w.finished \/ w.saving # {} => w.known
  BY DEF TourIInv, VisitRow
<1>2. w.known => tourState # {} /\ \A s \in tourState : Passed(w, s) /\ Saves(w, s)
  BY DEF TourIInv, VisitOf
<1>3. \A r \in w.saving : \E s \in tourState : w.known /\ Current(w, s) = r.step
  BY <1>1, <1>2 DEF Saves
<1>4. w.finished /\ w.stamp = grants => \A s \in tourState : \A c \in OpenTo(rights) : progress[c] >= Revision(s.version, c)
  BY <1>1, <1>2 DEF Passed, Seen
<1> QED
  BY <1>3, <1>4 DEF TourIInv

LEMMA TourStarts == TourInit => TourIInv
  BY DEF TourInit, TourIInv, ProgressTyped, Versions, Answered

\* The chapters of a set, in order: all of them, and nothing else.
LEMMA InOrderLists ==
  ASSUME NEW S \in SUBSET Chapters
  PROVE  /\ InOrder(S) \in Seq(S)
         /\ \A c \in S : \E i \in 1 .. Len(InOrder(S)) : InOrder(S)[i] = c
<1>1. PICK a, b, c : a = Only("overview", S) /\ b = Only("payments", S) /\ c = Only("emails", S)
  OBVIOUS
<1>2. a \in Seq(S) /\ b \in Seq(S) /\ c \in Seq(S) /\ a \o b \in Seq(S)
  BY <1>1 DEF Only
<1>3. InOrder(S) \in Seq(S)
  BY <1>1, <1>2 DEF InOrder
<1>4. /\ "overview" \in S => Len(a) = 1 /\ a[1] = "overview"
      /\ "payments" \in S => Len(b) = 1 /\ b[1] = "payments"
      /\ "emails" \in S => Len(c) = 1 /\ c[1] = "emails"
  BY <1>1 DEF Only
<1>5. /\ "overview" \in S => InOrder(S)[1] = "overview"
      /\ "payments" \in S => InOrder(S)[Len(a) + 1] = "payments"
      /\ "emails" \in S => InOrder(S)[Len(a) + Len(b) + 1] = "emails"
      /\ Len(InOrder(S)) = Len(a) + Len(b) + Len(c)
  BY <1>1, <1>2, <1>4 DEF InOrder
<1>6. /\ Len(a) \in Nat /\ Len(b) \in Nat /\ Len(c) \in Nat
      /\ "overview" \in S => Len(a) = 1
      /\ "payments" \in S => Len(b) = 1
      /\ "emails" \in S => Len(c) = 1
      /\ Len(InOrder(S)) = Len(a) + Len(b) + Len(c)
  BY <1>2, <1>4, <1>5
<1>7. "overview" \in S => 1 \in 1 .. Len(InOrder(S))
  BY <1>6
<1>8. "payments" \in S => Len(a) + 1 \in 1 .. Len(InOrder(S))
  <2>1. \A k, l, m \in Nat : l = 1 => k + 1 \in 1 .. (k + l + m)
    OBVIOUS
  <2> QED
    BY <1>6, <2>1
<1>9. "emails" \in S => Len(a) + Len(b) + 1 \in 1 .. Len(InOrder(S))
  BY <1>6
<1> QED
  BY <1>3, <1>5, <1>7, <1>8, <1>9 DEF Chapters

LEMMA ChaptersListed ==
  ASSUME NEW w, NEW s, Told(s)
  PROVE  /\ ChaptersOf(w, s) \in Seq(w.path \cap DOMAIN s.seen)
         /\ Len(ChaptersOf(w, s)) \in Nat
         /\ \A c \in w.path \cap DOMAIN s.seen :
              \E i \in 1 .. Len(ChaptersOf(w, s)) : ChaptersOf(w, s)[i] = c
<1>1. w.path \cap DOMAIN s.seen \in SUBSET Chapters
  BY DEF Told
<1>2. PICK S \in SUBSET Chapters : S = w.path \cap DOMAIN s.seen
  BY <1>1
<1>3. /\ InOrder(S) \in Seq(S)
      /\ \A c \in S : \E i \in 1 .. Len(InOrder(S)) : InOrder(S)[i] = c
  BY InOrderLists
<1>4. ChaptersOf(w, s) = InOrder(S)
  BY <1>2 DEF ChaptersOf
<1>5. Len(InOrder(S)) \in Nat
  BY <1>3
<1> QED
  BY <1>2, <1>3, <1>4, <1>5

LEMMA PathListed ==
  ASSUME NEW w, NEW s, Told(s), NEW p, p = w.path, NEW q, q = ChaptersOf(w, s)
  PROVE  /\ q = InOrder(p \cap DOMAIN s.seen)
         /\ q \in Seq(p \cap DOMAIN s.seen) /\ Len(q) \in Nat
         /\ \A c \in p \cap DOMAIN s.seen : \E j \in 1 .. Len(q) : q[j] = c
<1>1. q = InOrder(p \cap DOMAIN s.seen)
  BY DEF ChaptersOf
<1>2. p \cap DOMAIN s.seen \in SUBSET Chapters
  BY DEF Told
<1>3. PICK S \in SUBSET Chapters : S = p \cap DOMAIN s.seen
  BY <1>2
<1>4. q = InOrder(S)
  BY <1>1, <1>3
<1>5. q \in Seq(S) /\ \A c \in S : \E j \in 1 .. Len(q) : q[j] = c
  BY <1>4, InOrderLists
<1>6. q \in Seq(p \cap DOMAIN s.seen) /\ \A c \in p \cap DOMAIN s.seen : \E j \in 1 .. Len(q) : q[j] = c
  BY <1>3, <1>5, Zenon
<1>7. Len(q) \in Nat
  BY <1>5
<1> QED
  BY <1>1, <1>6, <1>7

\* The server only adds to what was seen, and counts the changes of the rights.
ServerMoves ==
  /\ ProgressTyped' /\ ProgressGrows
  /\ grants' \in Nat /\ grants' >= grants
  /\ grants' = grants => rights' = rights

LEMMA ToldLasts ==
  ASSUME ProgressTyped, grants \in Nat, ServerMoves, NEW s, Told(s)
  PROVE  Told(s)'
<1>1. \A c \in Chapters : progress[c] \in 0 .. 2 /\ progress'[c] \in 0 .. 2 /\ progress'[c] >= progress[c]
  BY DEF ProgressTyped, ServerMoves, ProgressGrows
<1>2. \A c \in DOMAIN s.seen : s.seen[c] \in Int /\ s.seen[c] <= progress'[c]
  BY <1>1 DEF Told
<1>3. s.stamp = grants' => s.stamp = grants /\ OpenTo(rights') = OpenTo(rights)
  BY DEF Told, ServerMoves
<1>4. s.stamp <= grants'
  BY DEF Told, ServerMoves
<1> QED
  BY <1>2, <1>3, <1>4 DEF Told, OpenTo

LEMMA SeenLasts ==
  ASSUME ProgressTyped, ServerMoves, NEW s, s.version \in Versions, NEW c \in Chapters, Seen(c, s)
  PROVE  Seen(c, s)'
<1>1. progress[c] \in 0 .. 2 /\ progress'[c] \in 0 .. 2 /\ progress'[c] >= progress[c]
  BY DEF ProgressTyped, ServerMoves, ProgressGrows
<1>2. Revision(s.version, c) \in 1 .. 2
  BY DEF Revision
<1> QED
  BY <1>1, <1>2 DEF Seen, Revision

LEMMA VisitLasts ==
  ASSUME ProgressTyped, grants \in Nat, ServerMoves, NEW w, VisitRow(w), NEW s, Told(s), VisitOf(w, s)
  PROVE  VisitOf(w, s)'
<1>1. Passed(w, s)'
  <2>1. SUFFICES ASSUME w.known, w.stamp = grants' PROVE Passed(w, s)'
    BY DEF Passed
  <2>2. grants' = grants /\ rights' = rights
    BY <2>1 DEF VisitOf, Told, ServerMoves
  <2>3. DOMAIN s.seen \subseteq Chapters /\ s.version \in Versions /\ OpenTo(rights) \subseteq Chapters
    BY DEF Told, OpenTo, Chapters
  <2>4. \A i \in 1 .. Len(ChaptersOf(w, s)) : ChaptersOf(w, s)[i] \in Chapters
    <3>1. ChaptersOf(w, s) \in Seq(w.path \cap DOMAIN s.seen)
      BY ChaptersListed
    <3> QED
      BY <2>3, <3>1
  <2>5. Passed(w, s)
    BY DEF VisitOf
  <2>6. \A c \in Chapters : Seen(c, s) => Seen(c, s)'
    BY <2>3, SeenLasts
  <2> QED
    BY <2>1, <2>2, <2>3, <2>4, <2>5, <2>6 DEF Passed, OpenTo, ChaptersOf
<1>2. Saves(w, s)'
  <2>1. \A r \in w.saving : Answered(r.answer)'
    BY ToldLasts DEF VisitOf, Saves, Answered
  <2> QED
    BY <2>1 DEF VisitOf, Saves, ChaptersOf, Current, Revision
<1> QED
  BY <1>1, <1>2 DEF VisitOf, Within, ChaptersOf

\* A step of the server, or of the session, that leaves the page as it is.
LEMMA TourRests ==
  ASSUME TourIInv, ServerMoves, UNCHANGED <<tourAsked, tourState, address, visit, user>>
  PROVE  TourIInv'
<1>1. \A answer : Answered(answer) => Answered(answer)'
  BY ToldLasts DEF TourIInv, Answered
<1>2. \A s \in tourState : Told(s)
  BY DEF TourIInv, Answered
<1>3. \A w \in visit, s \in tourState : w.known => VisitOf(w, s)'
  BY <1>2, VisitLasts DEF TourIInv
<1>4. Answered(tourState)' /\ \A r \in tourAsked : Answered(r.answer)'
  BY <1>1 DEF TourIInv
<1> QED
  BY <1>3, <1>4 DEF TourIInv, ServerMoves, VisitRow
\* The effect of the component on a visit: it fixes the path once, and draws the index back.
LEMMA Settling ==
  ASSUME ProgressTyped, NEW w, VisitRow(w), NEW s, Told(s), w.saving = {},
         w.known => w.stamp <= s.stamp /\ Passed(w, s), NEW u, NEW v, v = SettledVisit(w, s, u)
  PROVE  /\ VisitRow(v) /\ v.known /\ v.mode = w.mode /\ v.saving = {} /\ VisitOf(v, s)
         /\ v.for = IF w.known THEN w.for ELSE u
<1> DEFINE known == IF w.known THEN w ELSE [w EXCEPT !.known = TRUE, !.path = PathFor(w.mode, s), !.for = u, !.stamp = s.stamp]
           length == Len(ChaptersOf(known, s))
<1>1. PICK k : k = known
  OBVIOUS
<1>2. PICK n : n = length
  OBVIOUS
<1>3. /\ k = [mode |-> w.mode, for |-> k.for, stamp |-> k.stamp, known |-> TRUE, path |-> k.path,
              index |-> w.index, finished |-> w.finished, saving |-> {}, saveError |-> w.saveError]
      /\ w.known => k = w
      /\ ~w.known => k.for = u /\ k.stamp = s.stamp /\ k.path = PathFor(w.mode, s)
  BY <1>1 DEF VisitRow
<1>4. n \in Nat /\ n = Len(ChaptersOf(k, s))
  BY <1>1, <1>2, ChaptersListed
<1>5. PICK i : i = IF k.index <= n THEN k.index ELSE IF n = 0 THEN 1 ELSE n
  OBVIOUS
<1>6. v = [k EXCEPT !.index = i]
  BY <1>1, <1>2, <1>5 DEF SettledVisit
<1>7. /\ v = [mode |-> k.mode, for |-> k.for, stamp |-> k.stamp, known |-> TRUE, path |-> k.path,
              index |-> i, finished |-> k.finished, saving |-> {}, saveError |-> k.saveError]
      /\ v.mode = w.mode /\ v.for = k.for /\ v.stamp = k.stamp /\ v.known /\ v.path = k.path
      /\ v.index = i /\ v.finished = w.finished /\ v.saving = {}
  <2>1. v = [mode |-> w.mode, for |-> k.for, stamp |-> k.stamp, known |-> TRUE, path |-> k.path,
             index |-> i, finished |-> w.finished, saving |-> {}, saveError |-> w.saveError]
    <3>1. PICK m, f, st, p, fin, e : k = [mode |-> m, for |-> f, stamp |-> st, known |-> TRUE, path |-> p,
                                       index |-> w.index, finished |-> fin, saving |-> {}, saveError |-> e]
      BY <1>3
    <3>2. v = [mode |-> m, for |-> f, stamp |-> st, known |-> TRUE, path |-> p,
               index |-> i, finished |-> fin, saving |-> {}, saveError |-> e]
      BY <1>6, <3>1
    <3> QED
      BY <1>3, <3>1, <3>2
  <2>2. k.mode = w.mode /\ k.finished = w.finished /\ k.saveError = w.saveError
    BY <1>3
  <2> QED
    BY <2>1, <2>2
<1>8. i \in Nat \ {0} /\ i <= w.index /\ k.stamp \in Nat /\ k.stamp <= s.stamp
  <2>1. w.index \in Nat \ {0} /\ k.index = w.index
    BY <1>3 DEF VisitRow
  <2>2. i \in Nat \ {0} /\ i <= w.index
    BY <1>4, <1>5, <2>1
  <2>3. k.stamp \in Nat /\ k.stamp <= s.stamp
    BY <1>3 DEF VisitRow, Told
  <2> QED
    BY <2>2, <2>3
<1>9. VisitRow(v)
  BY <1>7, <1>8 DEF VisitRow
<1>10. ChaptersOf(v, s) = ChaptersOf(k, s)
  BY <1>7 DEF ChaptersOf
<1>11. Passed(v, s)
  <2>1. CASE w.known
    <3>1. Passed(w, s) /\ k = w
      BY <1>3, <2>1
    <3>2. \A j \in 1 .. Len(ChaptersOf(w, s)) : j < i => j < w.index
      BY <1>4, <1>8, <3>1 DEF VisitRow
    <3> QED
      BY <1>7, <1>10, <2>1, <3>1, <3>2 DEF Passed
  <2>2. CASE ~w.known
    <3>1. SUFFICES ASSUME s.stamp = grants PROVE Passed(v, s)
      BY <1>3, <1>7, <2>2 DEF Passed
    <3>2. DOMAIN s.seen = OpenTo(rights) /\ w.index = 1 /\ ~w.finished
      BY <2>2, <3>1 DEF Told, VisitRow
    <3>3. i = 1
      BY <1>3, <1>4, <1>5, <3>2
    <3>4. \A c \in OpenTo(rights) \ PathFor(w.mode, s) : Seen(c, s)
      <4>1. SUFFICES ASSUME NEW c \in DOMAIN s.seen, c \notin PathFor(w.mode, s) PROVE Seen(c, s)
        BY <3>2
      <4>2. ~(s.seen[c] < Revision(s.version, c)) /\ s.seen[c] \in Int /\ s.seen[c] <= progress[c]
        BY <4>1 DEF PathFor, Pending, Told
      <4>3. Revision(s.version, c) \in 1 .. 2 /\ progress[c] \in 0 .. 2
        BY <4>1 DEF Revision, ProgressTyped, Told
      <4> QED
        BY <4>2, <4>3 DEF Seen
    <3>5. \A j \in 1 .. Len(ChaptersOf(v, s)) : ~(j < 1)
      OBVIOUS
    <3> QED
      BY <1>3, <1>7, <2>2, <3>2, <3>3, <3>4, <3>5 DEF Passed
  <2> QED
    BY <2>1, <2>2
<1>12. Saves(v, s)
  BY <1>7 DEF Saves
<1>13. Within(v, s)
  BY <1>4, <1>5, <1>7, <1>8, <1>10 DEF Within
<1> QED
  BY <1>3, <1>7, <1>8, <1>9, <1>11, <1>12, <1>13 DEF VisitOf
\* A step of the page, while the server rests.
LEMMA TourShows ==
  ASSUME TourIInv, UNCHANGED tourServerVars,
         Answered(tourState'),
         \A r, t \in tourAsked' : r = t,
         \A r \in tourAsked' : r = [answer |-> r.answer] /\ Answered(r.answer),
         \A w, v \in visit' : w = v,
         \A w \in visit' :
           /\ VisitRow(w) /\ w.mode = address'
           /\ w.known => /\ tourState' # {} /\ tourAsked' = {} /\ w.for = user'
                         /\ \A s \in tourState' : VisitOf(w, s)
  PROVE  TourIInv'
<1>1. \A s : Told(s) => Told(s)'
  BY DEF Told, tourServerVars, OpenTo
<1>2. \A answer : Answered(answer) => Answered(answer)'
  BY <1>1 DEF Answered
<1>3. Answered(tourState)' /\ \A r \in tourAsked' : Answered(r.answer)'
  <2>1. Answered(tourState)'
    BY <1>1 DEF Answered
  <2> QED
    BY <1>2, <2>1
<1>4. \A w, s : VisitOf(w, s) => VisitOf(w, s)'
  <2>1. \A w, s : Passed(w, s) => Passed(w, s)'
    BY ZenonT(60) DEF Passed, tourServerVars, OpenTo, ChaptersOf, Seen, Revision
  <2>2. \A w, s : Saves(w, s) => Saves(w, s)'
    <3> TAKE w, s
    <3>1. ChaptersOf(w, s)' = ChaptersOf(w, s) /\ Current(w, s)' = Current(w, s) /\ \A v, c : Revision(v, c)' = Revision(v, c)
      BY DEF ChaptersOf, Current, Revision
    <3>2. \A r \in w.saving : Answered(r.answer) => Answered(r.answer)'
      BY <1>2
    <3> HIDE <1>2
    <3> QED
      BY <3>1, <3>2, ZenonT(60) DEF Saves
  <2> QED
    BY <2>1, <2>2 DEF VisitOf, Within, ChaptersOf
<1>5. \A w \in visit' : VisitRow(w)'
  BY DEF VisitRow
<1>6. \A w \in visit' : w.known => \A s \in tourState' : VisitOf(w, s)'
  BY <1>4
<1>7. ProgressTyped' /\ grants' \in Nat
  BY DEF TourIInv, ProgressTyped, tourServerVars
<1> HIDE DEF VisitRow, VisitOf, Answered, ProgressTyped
<1> QED
  BY <1>3, <1>5, <1>6, <1>7 DEF TourIInv

LEMMA VisitsBegin ==
  ASSUME NEW m
  PROVE  VisitRow(NewVisit(m)) /\ NewVisit(m).mode = m /\ ~NewVisit(m).known /\ NewVisit(m).saving = {}
  BY DEF VisitRow, NewVisit

\* user$: nothing changes, or the tour begins again.
LEMMA UserSteps ==
  ASSUME TourIInv, NEW u, SetUser(u), UNCHANGED tourServerVars
  PROVE  TourIInv'
<1>1. CASE u = user
  BY <1>1, TourShows DEF SetUser, TourIInv
<1>2. CASE u # user
  <2>1. /\ tourAsked' = {} \/ tourAsked' = {[answer |-> {}]}
        /\ tourState' = {} /\ address' = address
        /\ visit' = {} \/ visit' = {NewVisit(address)}
    BY <1>2 DEF SetUser, VisitAnew
  <2>2. \A r \in tourAsked' : r = [answer |-> r.answer] /\ Answered(r.answer)
    BY <2>1 DEF Answered
  <2>3. Answered(tourState')
    BY <2>1 DEF Answered
  <2>4. \A r, t \in tourAsked' : r = t
    BY <2>1
  <2>5. \A w, v \in visit' : w = v
    BY <2>1
  <2>6. \A w \in visit' : VisitRow(w) /\ w.mode = address' /\ ~w.known
    BY <2>1, VisitsBegin
  <2> QED
    BY <2>2, <2>3, <2>4, <2>5, <2>6, TourShows
<1> QED
  BY <1>1, <1>2

LEMMA SessionSteps ==
  ASSUME TourIInv,
         \/ ServeSession \/ HearSession \/ RefreshAccess \/ SessionEnds \/ SignedOut \/ Logout \/ SignIn
  PROVE  TourIInv'
<1>1. CASE ServeSession \/ RefreshAccess \/ SessionEnds
  <2>1. UNCHANGED <<tourServerVars, tourPageVars, user>>
    BY <1>1 DEF ServeSession, RefreshAccess, SessionEnds
  <2> QED
    BY <2>1, TourShows DEF TourIInv, tourPageVars
<1>2. CASE HearSession \/ SignedOut \/ Logout
  <2>1. PICK u : SetUser(u) /\ UNCHANGED tourServerVars
    BY <1>2 DEF HearSession, SignedOut, Logout, ClearUser
  <2> QED
    BY <2>1, UserSteps
<1>3. CASE SignIn
  <2>1. UNCHANGED tourServerVars /\ tourAsked' = {} /\ tourState' = {} /\ visit' = {}
    BY <1>3 DEF SignIn, FreshPage
  <2> QED
    BY <2>1, TourShows DEF Answered
<1> QED
  BY <1>1, <1>2, <1>3

\* What the server tells is what it knows.
LEMMA StateTold ==
  ASSUME ProgressTyped, grants \in Nat, NEW v \in running
  PROVE  Told(StateFor(v, progress))
<1>1. PICK s : s = StateFor(v, progress)
  OBVIOUS
<1>2. s = [version |-> v, seen |-> [c \in OpenTo(rights) |-> progress[c]], stamp |-> grants]
  BY <1>1 DEF StateFor
<1>3. s.version = v /\ s.stamp = grants /\ s.seen = [c \in OpenTo(rights) |-> progress[c]]
  BY <1>2
<1>4. OpenTo(rights) \subseteq Chapters /\ \A c \in Chapters : progress[c] \in 0 .. 2
  BY DEF OpenTo, Chapters, ProgressTyped
<1>5. Told(s)
  BY <1>2, <1>3, <1>4 DEF Told, ProgressTyped
<1> QED
  BY <1>1, <1>5

LEMMA LoadSteps ==
  ASSUME TourIInv, ServeTour \/ HearTour \/ ReloadTour \/ Dismiss
  PROVE  TourIInv'
<1>1. CASE ServeTour
  <2>1. PICK r \in tourAsked, v \in running :
          /\ tourAsked' = {[answer |-> {StateFor(v, progress)}]}
          /\ UNCHANGED <<tourServerVars, sessionVars, tourState, address, visit>>
    BY <1>1 DEF ServeTour
  <2>2. Told(StateFor(v, progress))
    BY StateTold DEF TourIInv
  <2>3. \A t \in tourAsked' : t = [answer |-> t.answer] /\ Answered(t.answer)
    BY <2>1, <2>2 DEF Answered
  <2>4. UNCHANGED <<tourServerVars, user, tourState, address, visit>>
    BY <2>1 DEF sessionVars
  <2>5. \A w \in visit : ~w.known
    BY <2>1 DEF TourIInv
  <2> QED
    BY <2>1, <2>3, <2>4, <2>5, TourShows DEF TourIInv
<1>2. CASE HearTour
  <2>1. PICK r \in tourAsked :
          /\ \/ r.answer # {} /\ tourState' = r.answer /\ visit' = UNION {Settle(visit, s) : s \in r.answer}
             \/ tourState' = {} /\ UNCHANGED visit
          /\ tourAsked' = {} /\ UNCHANGED <<tourServerVars, user, address>>
    BY <1>2 DEF HearTour, sessionVars
  <2>2. Answered(r.answer) /\ \A w \in visit : ~w.known /\ VisitRow(w) /\ w.mode = address /\ w.saving = {}
    BY DEF TourIInv, VisitRow
  <2>3. CASE tourState' = {} /\ UNCHANGED visit
    BY <2>1, <2>2, <2>3, TourShows DEF TourIInv, Answered
  <2>4. CASE r.answer # {} /\ tourState' = r.answer /\ visit' = UNION {Settle(visit, s) : s \in r.answer}
    <3>1. PICK s \in r.answer : r.answer = {s} /\ Told(s)
      BY <2>2, <2>4 DEF Answered
    <3>2. visit' = {SettledVisit(w, s, user) : w \in visit}
      BY <2>4, <3>1 DEF Settle
    <3>3. \A w \in visit : \A v : v = SettledVisit(w, s, user) =>
            VisitRow(v) /\ v.known /\ v.mode = address /\ v.for = user /\ VisitOf(v, s)
      BY <2>2, <3>1, Settling DEF TourIInv
    <3>4. \A v \in visit' : VisitRow(v) /\ v.known /\ v.mode = address /\ v.for = user /\ VisitOf(v, s)
      BY <3>2, <3>3
    <3>5. \A v, w \in visit' : v = w
      BY <3>2 DEF TourIInv
    <3> QED
      BY <2>1, <2>2, <2>4, <3>1, <3>4, <3>5, TourShows
  <2> QED
    BY <2>1, <2>3, <2>4
<1>3. CASE ReloadTour
  <2>1. /\ tourAsked' = {[answer |-> {}]} /\ visit' = {NewVisit(address)}
        /\ UNCHANGED <<tourServerVars, tourState, address>>
    BY <1>3 DEF ReloadTour
  <2>2. \A r \in tourAsked' : r = [answer |-> r.answer] /\ Answered(r.answer)
    BY <2>1 DEF Answered
  <2> QED
    BY <2>1, <2>2, VisitsBegin, TourShows DEF TourIInv
<1>4. CASE Dismiss
  BY <1>4, TourShows DEF Dismiss, TourIInv, sessionVars
<1> QED
  BY <1>1, <1>2, <1>3, <1>4

LEMMA OpeningSteps ==
  ASSUME TourIInv, OpenTour \/ LeaveTour
  PROVE  TourIInv'
<1>1. CASE OpenTour
  <2>1. PICK m \in Modes \ {address} :
          /\ address' = m
          /\ visit' = IF tourAsked = {} /\ tourState # {} THEN UNION {Settle(ResetVisit(m), s) : s \in tourState}
                                                        ELSE ResetVisit(m)
          /\ UNCHANGED <<tourServerVars, user, tourAsked, tourState>>
    BY <1>1 DEF OpenTour, sessionVars
  <2>2. CASE tourAsked = {} /\ tourState # {}
    <3>1. PICK s \in tourState : tourState = {s} /\ Told(s)
      BY <2>2 DEF TourIInv, Answered
    <3>2. PICK w : w = NewVisit(m)
      OBVIOUS
    <3>3. PICK v : v = SettledVisit(w, s, user)
      OBVIOUS
    <3>4. visit' = {v}
      BY <2>1, <2>2, <3>1, <3>2, <3>3 DEF Settle, ResetVisit
    <3>5. VisitRow(v) /\ v.known /\ v.mode = m /\ v.for = user /\ VisitOf(v, s)
      BY <3>1, <3>2, <3>3, VisitsBegin, Settling DEF TourIInv
    <3> QED
      BY <2>1, <2>2, <3>1, <3>4, <3>5, TourShows DEF TourIInv
  <2>3. CASE ~(tourAsked = {} /\ tourState # {})
    <3>1. visit' = {NewVisit(m)}
      BY <2>1, <2>3 DEF ResetVisit
    <3> QED
      BY <2>1, <3>1, VisitsBegin, TourShows DEF TourIInv
  <2> QED
    BY <2>2, <2>3
<1>2. CASE LeaveTour
  BY <1>2, TourShows DEF LeaveTour, TourIInv
<1> QED
  BY <1>1, <1>2

\* What a visit may go on from: it is known, as it must be to show a chapter.
LEMMA ShowingKnown ==
  ASSUME TourIInv, NEW w \in visit, NEW s \in tourState, Showing(w, s)
  PROVE  /\ w.known /\ VisitRow(w) /\ w.mode = address /\ w.for = user /\ VisitOf(w, s) /\ Told(s)
         /\ tourAsked = {} /\ ~w.finished
<1>1. VisitRow(w) /\ Told(s)
  BY DEF TourIInv, Answered
<1>2. w.known
  <2>1. SUFFICES ASSUME w.path = {} PROVE ChaptersOf(w, s) = <<>>
    BY <1>1 DEF VisitRow, Showing
  <2> QED
    BY <2>1 DEF ChaptersOf, InOrder, Only
<1> QED
  BY <1>1, <1>2 DEF TourIInv, Showing

LEMMA Advancing ==
  ASSUME NEW w, VisitRow(w), w.known, NEW s, Told(s), w.saving = {}, w.stamp <= s.stamp, Passed(w, s), ~w.finished,
         w.stamp = grants => Seen(Current(w, s), s),
         NEW v, v = Advance(w, s)
  PROVE  /\ VisitRow(v) /\ v.known /\ v.saving = {} /\ v.mode = w.mode /\ v.for = w.for /\ v.stamp = w.stamp
         /\ Passed(v, s)
         /\ Within(w, s) => Within(v, s)
<1>1. PICK m, f, t, p, i, e :
        /\ w = [mode |-> m, for |-> f, stamp |-> t, known |-> TRUE, path |-> p, index |-> i, finished |-> FALSE, saving |-> {}, saveError |-> e]
        /\ i \in Nat \ {0} /\ t \in Nat
  BY DEF VisitRow
<1>w. w.mode = m /\ w.for = f /\ w.stamp = t /\ w.path = p /\ w.index = i
  BY <1>1
<1>2. PICK q : q = ChaptersOf(w, s)
  OBVIOUS
<1>3. /\ q = InOrder(p \cap DOMAIN s.seen) /\ Len(q) \in Nat
      /\ \A c \in p \cap DOMAIN s.seen : \E j \in 1 .. Len(q) : q[j] = c
  BY <1>w, <1>2, PathListed
<1>4. t = grants =>
        /\ OpenTo(rights) = DOMAIN s.seen
        /\ \A c \in OpenTo(rights) \ p : Seen(c, s)
        /\ \A j \in 1 .. Len(q) : j < i => Seen(q[j], s)
        /\ Seen(q[i], s)
  <2>1. s.stamp \in Nat /\ s.stamp <= grants /\ t <= s.stamp
    BY <1>w DEF Told
  <2>2. t = grants => s.stamp = grants
    BY <1>1, <2>1
  <2>3. t = grants => OpenTo(rights) = DOMAIN s.seen
    BY <2>2 DEF Told
  <2> QED
    BY <1>2, <1>w, <2>3 DEF Passed, Current
<1>5. CASE i < Len(q)
  <2>1. v = [w EXCEPT !.index = i + 1]
    BY <1>1, <1>2, <1>5 DEF Advance
  <2>2. v = [mode |-> m, for |-> f, stamp |-> t, known |-> TRUE, path |-> p, index |-> i + 1, finished |-> FALSE, saving |-> {}, saveError |-> e]
    BY <1>1, <2>1
  <2>3. ChaptersOf(v, s) = q
    BY <1>3, <2>2 DEF ChaptersOf
  <2>4. t = grants => \A j \in 1 .. Len(q) : j < i + 1 => Seen(q[j], s)
    <3>1. \A j \in 1 .. Len(q) : j < i + 1 => j < i \/ j = i
      BY <1>1, <1>3
    <3> QED
      BY <1>4, <3>1
  <2>v. /\ v.mode = m /\ v.for = f /\ v.stamp = t /\ v.known /\ v.path = p /\ v.index = i + 1
        /\ ~v.finished /\ v.saving = {}
    BY <2>2
  <2>5. Passed(v, s)
    BY <1>4, <2>v, <2>3, <2>4 DEF Passed
  <2>6. Within(v, s)
    BY <1>1, <1>3, <1>5, <2>v, <2>3 DEF Within
  <2>7. VisitRow(v)
    <3>1. i + 1 \in Nat \ {0}
      BY <1>1
    <3> QED
      BY <1>1, <2>2, <2>v, <3>1 DEF VisitRow
  <2> QED
    BY <1>w, <2>v, <2>5, <2>6, <2>7
<1>6. CASE ~(i < Len(q))
  <2>1. v = [w EXCEPT !.finished = TRUE]
    BY <1>1, <1>2, <1>6 DEF Advance
  <2>2. v = [mode |-> m, for |-> f, stamp |-> t, known |-> TRUE, path |-> p, index |-> i, finished |-> TRUE, saving |-> {}, saveError |-> e]
    BY <1>1, <2>1
  <2>3. t = grants => \A c \in OpenTo(rights) : Seen(c, s)
    <3>1. \A j \in 1 .. Len(q) : j < i \/ j = i
      BY <1>1, <1>3, <1>6
    <3>2. t = grants => \A c \in p \cap DOMAIN s.seen : Seen(c, s)
      BY <1>3, <1>4, <3>1
    <3> QED
      BY <1>4, <3>2
  <2>v. /\ v.mode = m /\ v.for = f /\ v.stamp = t /\ v.known /\ v.path = p /\ v.index = i
        /\ v.finished /\ v.saving = {}
    BY <2>2
  <2>4. Passed(v, s)
    BY <1>4, <2>v, <2>3 DEF Passed
  <2>5. Within(w, s) => Within(v, s)
    BY <1>w, <2>v DEF Within, ChaptersOf
  <2>6. VisitRow(v)
    BY <1>1, <2>2, <2>v DEF VisitRow
  <2> QED
    BY <1>w, <2>v, <2>4, <2>5, <2>6
<1> QED
  BY <1>5, <1>6

LEMMA ChapterSteps ==
  ASSUME TourIInv, PreviousChapter \/ NextChapter
  PROVE  TourIInv'
<1>a. PICK u \in visit, s \in tourState :
        /\ Showing(u, s) /\ u.saving = {}
        /\ \/ u.index > 1 /\ visit' = {[u EXCEPT !.index = @ - 1, !.saveError = FALSE]}
           \/ Current(u, s) \notin Pending(s) /\ visit' = {Advance([u EXCEPT !.saveError = FALSE], s)}
           \/ visit' = {[[u EXCEPT !.saveError = FALSE] EXCEPT
                          !.saving = {[step |-> Current(u, s), version |-> s.version,
                                       revision |-> Revision(s.version, Current(u, s)), answer |-> {}]}]}
        /\ UNCHANGED <<tourServerVars, user, tourAsked, tourState, address>>
  BY DEF PreviousChapter, NextChapter, MayGoBack, VisitStep, sessionVars
<1>b. /\ u.known /\ VisitRow(u) /\ u.mode = address /\ u.for = user /\ VisitOf(u, s) /\ Told(s)
      /\ tourAsked = {} /\ ~u.finished /\ tourState = {s} /\ ChaptersOf(u, s) # <<>>
  BY <1>a, ShowingKnown DEF Showing
<1>c. PICK m, f, t, p, i, e :
        /\ u = [mode |-> m, for |-> f, stamp |-> t, known |-> TRUE, path |-> p, index |-> i, finished |-> FALSE, saving |-> {}, saveError |-> e]
        /\ i \in Nat \ {0} /\ t \in Nat
  BY <1>a, <1>b DEF VisitRow
<1>d. PICK w : w = [u EXCEPT !.saveError = FALSE]
  OBVIOUS
<1>3. w = [mode |-> m, for |-> f, stamp |-> t, known |-> TRUE, path |-> p, index |-> i, finished |-> FALSE, saving |-> {}, saveError |-> FALSE]
  BY <1>c, <1>d
<1>w. /\ w.mode = m /\ w.for = f /\ w.stamp = t /\ w.path = p /\ w.index = i /\ w.known /\ ~w.finished /\ w.saving = {}
      /\ u.mode = m /\ u.for = f /\ u.stamp = t /\ u.path = p /\ u.index = i
  BY <1>c, <1>3
<1>f. ChaptersOf(w, s) = ChaptersOf(u, s) /\ Current(w, s) = Current(u, s)
  BY <1>w DEF ChaptersOf, Current
<1>1. /\ \/ w.index > 1 /\ visit' = {[w EXCEPT !.index = i - 1]}
         \/ Current(w, s) \notin Pending(s) /\ visit' = {Advance(w, s)}
         \/ visit' = {[w EXCEPT !.saving = {[step |-> Current(w, s), version |-> s.version,
                                             revision |-> Revision(s.version, Current(w, s)), answer |-> {}]}]}
      /\ UNCHANGED <<tourServerVars, user, tourAsked, tourState, address>>
  <2>1. [u EXCEPT !.index = @ - 1, !.saveError = FALSE] = [w EXCEPT !.index = i - 1]
    <3>1. PICK j : j = i - 1
      OBVIOUS
    <3>2. PICK x : x = [u EXCEPT !.index = j, !.saveError = FALSE]
      OBVIOUS
    <3>3. PICK y : y = [w EXCEPT !.index = j]
      OBVIOUS
    <3>4. x = [mode |-> m, for |-> f, stamp |-> t, known |-> TRUE, path |-> p, index |-> j, finished |-> FALSE,
               saving |-> {}, saveError |-> FALSE]
      <4>1. u = [mode |-> m, for |-> f, stamp |-> t, known |-> TRUE, path |-> p, index |-> i, finished |-> FALSE,
                 saving |-> {}, saveError |-> e]
        BY <1>c
      <4> QED
        BY <3>2, <4>1
    <3>5. y = [mode |-> m, for |-> f, stamp |-> t, known |-> TRUE, path |-> p, index |-> j, finished |-> FALSE,
               saving |-> {}, saveError |-> FALSE]
      BY <1>3, <3>3
    <3>6. [u EXCEPT !.index = @ - 1, !.saveError = FALSE] = x
      BY <1>w, <3>1, <3>2
    <3> QED
      BY <3>1, <3>3, <3>4, <3>5, <3>6
  <2> QED
    BY <1>a, <1>d, <1>w, <1>f, <2>1
<1>2. /\ w.known /\ VisitRow(w) /\ w.mode = address /\ w.for = user /\ VisitOf(w, s) /\ Told(s)
      /\ tourAsked = {} /\ ~w.finished /\ w.saving = {} /\ tourState = {s} /\ ChaptersOf(w, s) # <<>>
  <2>1. VisitRow(w)
    BY <1>c, <1>3, <1>w DEF VisitRow
  <2>2. VisitOf(w, s)
    BY <1>a, <1>b, <1>w, <1>f DEF VisitOf, Passed, Saves, Within
  <2> QED
    BY <1>b, <1>w, <1>f, <2>1, <2>2
<1>4. PICK q : q = ChaptersOf(w, s)
  OBVIOUS
<1>5. /\ q = InOrder(p \cap DOMAIN s.seen) /\ q \in Seq(p \cap DOMAIN s.seen) /\ Len(q) \in Nat /\ q # <<>>
  <2>1. q = InOrder(p \cap DOMAIN s.seen) /\ q \in Seq(p \cap DOMAIN s.seen) /\ Len(q) \in Nat
    BY <1>2, <1>w, <1>4, PathListed
  <2> QED
    BY <1>2, <1>4, <2>1
<1>6. i \in 1 .. Len(q)
  BY <1>2, <1>c, <1>w, <1>4, <1>5 DEF VisitOf, Within
<1>7. SUFFICES ASSUME NEW v, visit' = {v}
               PROVE  VisitRow(v) /\ v.mode = address /\ v.known /\ v.for = user /\ VisitOf(v, s)
  BY <1>1, <1>2, TourShows DEF TourIInv
<1>8. CASE v = [w EXCEPT !.index = i - 1] /\ i > 1
  <2>1. v = [mode |-> m, for |-> f, stamp |-> t, known |-> TRUE, path |-> p, index |-> i - 1, finished |-> FALSE, saving |-> {}, saveError |-> FALSE]
    BY <1>3, <1>8
  <2>2. ChaptersOf(v, s) = q
    BY <1>5, <2>1 DEF ChaptersOf
  <2>v. /\ v.mode = m /\ v.for = f /\ v.stamp = t /\ v.known /\ v.path = p /\ v.index = i - 1
        /\ ~v.finished /\ v.saving = {}
    BY <2>1
  <2>3. Passed(v, s)
    <3>1. \A j \in 1 .. Len(q) : j < i - 1 => j < i
      BY <1>c, <1>5
    <3>2. Passed(w, s)
      BY <1>2 DEF VisitOf
    <3> QED
      BY <1>2, <1>4, <1>w, <2>v, <2>2, <3>1, <3>2 DEF Passed
  <2>4. Within(v, s)
    BY <1>5, <1>6, <2>v, <2>2 DEF Within
  <2>5. VisitRow(v)
    <3>1. i - 1 \in Nat \ {0}
      BY <1>c, <1>8
    <3> QED
      BY <1>c, <2>1, <2>v, <3>1 DEF VisitRow
  <2>6. Saves(v, s)
    BY <2>v DEF Saves
  <2> QED
    BY <1>2, <1>w, <2>v, <2>3, <2>4, <2>5, <2>6 DEF VisitOf
<1>9. CASE Current(w, s) \notin Pending(s) /\ v = Advance(w, s)
  <2>1. q[i] \in DOMAIN s.seen /\ Current(w, s) = q[i]
    BY <1>3, <1>4, <1>5, <1>6 DEF Current
  <2>2. Seen(q[i], s)
    <3>1. s.seen[q[i]] \in Int /\ s.seen[q[i]] <= progress[q[i]] /\ ~(s.seen[q[i]] < Revision(s.version, q[i]))
      BY <1>2, <1>9, <2>1 DEF Told, Pending
    <3>2. progress[q[i]] \in 0 .. 2 /\ Revision(s.version, q[i]) \in 1 .. 2
      BY <1>2, <2>1 DEF Told, TourIInv, ProgressTyped, Revision
    <3> QED
      BY <3>1, <3>2 DEF Seen
  <2>3. Saves(v, s)
    BY <1>1, <1>2, <1>9, <2>1, <2>2, Advancing DEF VisitOf, Saves
  <2> QED
    BY <1>1, <1>2, <1>9, <2>1, <2>2, <2>3, Advancing DEF VisitOf
<1>10. CASE v = [w EXCEPT !.saving = {[step |-> Current(w, s), version |-> s.version,
                                      revision |-> Revision(s.version, Current(w, s)), answer |-> {}]}]
  <2>1. PICK r : r = [step |-> q[i], version |-> s.version, revision |-> Revision(s.version, q[i]), answer |-> {}]
    OBVIOUS
  <2>2. v = [w EXCEPT !.saving = {r}]
    BY <1>3, <1>4, <1>10, <2>1 DEF Current
  <2>3. v = [mode |-> m, for |-> f, stamp |-> t, known |-> TRUE, path |-> p, index |-> i, finished |-> FALSE, saving |-> {r}, saveError |-> FALSE]
    BY <1>3, <2>2
  <2>4. ChaptersOf(v, s) = q
    BY <1>5, <2>3 DEF ChaptersOf
  <2>v. /\ v.mode = m /\ v.for = f /\ v.stamp = t /\ v.known /\ v.path = p /\ v.index = i
        /\ ~v.finished /\ v.saving = {r}
    BY <2>3
  <2>5. Passed(v, s)
    <3>1. Passed(w, s)
      BY <1>2 DEF VisitOf
    <3> QED
      BY <1>2, <1>4, <1>w, <2>v, <2>4, <3>1 DEF Passed
  <2>6. Saves(v, s)
    <3>1. r.step = q[i] /\ r.version = s.version /\ r.revision = Revision(s.version, q[i]) /\ r.answer = {}
      BY <2>1
    <3>2. r = [step |-> r.step, version |-> r.version, revision |-> r.revision, answer |-> r.answer]
      BY <2>1
    <3>3. Current(v, s) = r.step /\ v.index <= Len(ChaptersOf(v, s))
      BY <1>6, <2>v, <2>4, <3>1 DEF Current
    <3> QED
      BY <2>v, <3>1, <3>2, <3>3 DEF Saves, Answered
  <2>7. Within(v, s)
    BY <1>6, <2>v, <2>4 DEF Within
  <2>8. VisitRow(v)
    BY <1>c, <2>3, <2>v DEF VisitRow
  <2> QED
    BY <1>2, <1>w, <2>v, <2>5, <2>6, <2>7, <2>8 DEF VisitOf
<1> QED
  BY <1>1, <1>3, <1>7, <1>8, <1>9, <1>10

\* The answer that is heard, or its loss: the page goes on from the state it brings, or stays.
LEMMA HearSeenStep ==
  ASSUME TourIInv, HearSeen
  PROVE  TourIInv'
<1>0. PICK w \in visit, s \in tourState : \E r \in w.saving, heard \in BOOLEAN :
        /\ heard => r.answer # {}
        /\ tourState' = IF heard THEN r.answer ELSE tourState
        /\ visit' = UNION {Settle({AfterSeen([w EXCEPT !.saving = {}], t, heard)}, t) : t \in tourState'}
        /\ UNCHANGED <<tourServerVars, user, tourAsked, address>>
  BY DEF HearSeen, VisitStep, sessionVars
<1>1. PICK r \in w.saving, heard \in BOOLEAN :
        /\ heard => r.answer # {}
        /\ tourState' = IF heard THEN r.answer ELSE tourState
        /\ visit' = UNION {Settle({AfterSeen([w EXCEPT !.saving = {}], t, heard)}, t) : t \in tourState'}
        /\ UNCHANGED <<tourServerVars, user, tourAsked, address>>
  BY <1>0
<1>2. /\ w.known /\ VisitRow(w) /\ w.mode = address /\ w.for = user /\ VisitOf(w, s) /\ Told(s)
      /\ tourAsked = {} /\ tourState = {s}
  BY <1>1 DEF TourIInv, Answered, VisitRow
<1>3. /\ ~w.finished /\ w.index <= Len(ChaptersOf(w, s)) /\ Current(w, s) = r.step
      /\ r.version = s.version /\ r.revision = Revision(s.version, r.step) /\ Answered(r.answer)
      /\ \A a \in r.answer : /\ a.version = r.version /\ a.stamp >= w.stamp
                             /\ r.step \in DOMAIN a.seen /\ a.seen[r.step] >= r.revision
  BY <1>2 DEF VisitOf, Saves
<1>4. PICK m, f, n, p, i, q, e :
        /\ w = [mode |-> m, for |-> f, stamp |-> n, known |-> TRUE, path |-> p, index |-> i, finished |-> FALSE, saving |-> q, saveError |-> e]
        /\ i \in Nat \ {0} /\ n \in Nat
  BY <1>2, <1>3 DEF VisitRow
<1>5. PICK v : v = [w EXCEPT !.saving = {}]
  OBVIOUS
<1>6. v = [mode |-> m, for |-> f, stamp |-> n, known |-> TRUE, path |-> p, index |-> i, finished |-> FALSE, saving |-> {}, saveError |-> e]
  BY <1>4, <1>5
<1>7. /\ v.mode = m /\ v.for = f /\ v.stamp = n /\ v.known /\ v.path = p /\ v.index = i /\ ~v.finished /\ v.saving = {}
      /\ w.mode = m /\ w.for = f /\ w.stamp = n /\ w.path = p /\ w.index = i
  BY <1>4, <1>6
<1>8. VisitRow(v)
  BY <1>4, <1>6, <1>7 DEF VisitRow
<1>9. PICK t : /\ tourState' = {t} /\ Told(t) /\ w.stamp <= t.stamp
              /\ \/ t = s /\ ~heard
                 \/ t \in r.answer /\ heard
  BY <1>1, <1>2, <1>3 DEF Answered, VisitOf
<1>10. t.version = s.version
  BY <1>3, <1>9
<1>11. w.stamp = grants => DOMAIN t.seen = OpenTo(rights) /\ DOMAIN s.seen = OpenTo(rights)
  <2>1. \A a : Told(a) /\ w.stamp <= a.stamp /\ w.stamp = grants => DOMAIN a.seen = OpenTo(rights)
    BY <1>4, <1>7 DEF Told, TourIInv
  <2> QED
    BY <1>2, <1>9, <2>1 DEF VisitOf
<1>12. w.stamp = grants => ChaptersOf(v, t) = ChaptersOf(w, s)
  BY <1>7, <1>11 DEF ChaptersOf
<1>13. Passed(v, t)
  BY <1>2, <1>3, <1>7, <1>10, <1>12 DEF VisitOf, Passed, Seen
<1>14. PICK x : x = AfterSeen(v, t, heard)
  OBVIOUS
<1>15. visit' = {SettledVisit(x, t, user)}
  BY <1>1, <1>5, <1>9, <1>14 DEF Settle
<1>16. heard /\ w.stamp = grants => Seen(Current(v, t), t)
  <2>1. SUFFICES ASSUME heard, w.stamp = grants PROVE Seen(Current(v, t), t)
    OBVIOUS
  <2>2. Current(v, t) = r.step
    BY <1>3, <1>7, <1>12, <2>1 DEF Current
  <2>3. /\ t.seen[r.step] >= Revision(t.version, r.step) /\ r.step \in DOMAIN t.seen
    BY <1>3, <1>9, <2>1
  <2>4. t.seen[r.step] \in Int /\ t.seen[r.step] <= progress[r.step] /\ progress[r.step] \in 0 .. 2
    BY <1>9, <2>3 DEF Told, TourIInv, ProgressTyped
  <2>5. Revision(t.version, r.step) \in 1 .. 2
    BY DEF Revision
  <2> QED
    BY <2>2, <2>3, <2>4, <2>5 DEF Seen
<1>17. /\ VisitRow(x) /\ x.known /\ x.saving = {} /\ x.mode = m /\ x.for = f /\ x.stamp = n /\ Passed(x, t)
  <2>1. CASE heard
    <3>1. x = Advance(v, t)
      BY <1>14, <2>1 DEF AfterSeen
    <3>2. v.stamp = grants => Seen(Current(v, t), t)
      BY <1>7, <1>16, <2>1
    <3> QED
      BY <1>7, <1>8, <1>9, <1>13, <3>1, <3>2, Advancing
  <2>2. CASE ~heard
    <3>1. x = [v EXCEPT !.saveError = TRUE]
      BY <1>14, <2>2 DEF AfterSeen
    <3>2. x = [mode |-> m, for |-> f, stamp |-> n, known |-> TRUE, path |-> p, index |-> i, finished |-> FALSE, saving |-> {}, saveError |-> TRUE]
      BY <1>6, <3>1
    <3>3. /\ x.mode = m /\ x.for = f /\ x.stamp = n /\ x.known /\ x.path = p /\ x.index = i
          /\ ~x.finished /\ x.saving = {} /\ x.saveError
      BY <3>2
    <3>4. VisitRow(x)
      BY <1>4, <3>2, <3>3 DEF VisitRow
    <3>5. Passed(x, t)
      BY <1>7, <1>13, <3>3 DEF Passed, ChaptersOf
    <3> QED
      BY <3>3, <3>4, <3>5
  <2> QED
    BY <2>1, <2>2
<1>18. PICK z : z = SettledVisit(x, t, user)
  OBVIOUS
<1>19. VisitRow(z) /\ z.known /\ z.mode = address /\ z.for = user /\ VisitOf(z, t)
  BY <1>2, <1>7, <1>9, <1>17, <1>18, Settling DEF TourIInv
<1>20. visit' = {z}
  BY <1>15, <1>18
<1> QED
  BY <1>1, <1>2, <1>9, <1>19, <1>20, TourShows DEF TourIInv, Answered

\* A step of the server, and of the session: the rights are not changed but by counting it.
LEMMA ServerSteps ==
  ASSUME TourIInv, ChangeRights \/ Deploy \/ OtherTabMarks
  PROVE  TourIInv'
<1>1. ProgressTyped' /\ ProgressGrows
  BY TourKeeps DEF TourIInv, TourNext
<1>2. grants' \in Nat /\ grants' >= grants /\ (grants' = grants => rights' = rights)
  BY DEF TourIInv, ChangeRights, Deploy, OtherTabMarks
<1>3. UNCHANGED <<tourAsked, tourState, address, visit, user>>
  BY DEF ChangeRights, Deploy, OtherTabMarks, tourPageVars, sessionVars
<1> QED
  BY <1>1, <1>2, <1>3, TourRests DEF ServerMoves

LEMMA ServeSeenStep ==
  ASSUME TourIInv, ServeSeen
  PROVE  TourIInv'
<1>1. PICK w \in visit, v \in running : \E r \in w.saving :
        /\ v = r.version /\ MarkSeen(v, r.step, r.revision)
        /\ visit' = {[w EXCEPT !.saving = {[r EXCEPT !.answer = {StateFor(v, progress')}]}]}
        /\ UNCHANGED <<running, rights, grants, user, tourAsked, tourState, address>>
  BY DEF ServeSeen, sessionVars
<1>2. PICK r \in w.saving :
        /\ v = r.version /\ MarkSeen(v, r.step, r.revision)
        /\ visit' = {[w EXCEPT !.saving = {[r EXCEPT !.answer = {StateFor(v, progress')}]}]}
        /\ UNCHANGED <<running, rights, grants, user, tourAsked, tourState, address>>
  BY <1>1
<1>3. ServerMoves
  <2>1. ProgressTyped' /\ ProgressGrows
    BY TourKeeps DEF TourIInv, TourNext
  <2> QED
    BY <1>2, <2>1 DEF ServerMoves, TourIInv
<1>4. /\ w.known /\ VisitRow(w) /\ w.mode = address /\ w.for = user /\ tourAsked = {} /\ tourState # {}
      /\ \A s \in tourState : VisitOf(w, s) /\ Told(s) /\ VisitOf(w, s)'
  <2>1. w.known /\ \A s \in tourState : VisitOf(w, s) /\ Told(s)
    BY <1>2 DEF TourIInv, Answered, VisitRow
  <2> QED
    BY <1>2, <1>3, <2>1, VisitLasts DEF TourIInv
<1>5. \A s \in tourState :
        /\ r = [step |-> r.step, version |-> r.version, revision |-> r.revision, answer |-> r.answer]
        /\ ~w.finished /\ w.index <= Len(ChaptersOf(w, s)) /\ Current(w, s) = r.step
        /\ r.version = s.version /\ r.revision = Revision(s.version, r.step)
        /\ w.stamp <= s.stamp /\ s.stamp <= grants
  BY <1>2, <1>4 DEF VisitOf, Saves, Told
<1>6. PICK m, f, n, p, i, q, e :
        /\ w = [mode |-> m, for |-> f, stamp |-> n, known |-> TRUE, path |-> p, index |-> i, finished |-> FALSE, saving |-> q, saveError |-> e]
        /\ i \in Nat \ {0} /\ n \in Nat
  BY <1>4, <1>5 DEF VisitRow
<1>7. PICK a : a = StateFor(v, progress')
  OBVIOUS
<1>8. PICK t : t = [r EXCEPT !.answer = {a}]
  OBVIOUS
<1>9. PICK z : z = [w EXCEPT !.saving = {t}]
  OBVIOUS
<1>10. z = [mode |-> m, for |-> f, stamp |-> n, known |-> TRUE, path |-> p, index |-> i, finished |-> FALSE, saving |-> {t}, saveError |-> e]
  BY <1>6, <1>9
<1>11. /\ z.mode = m /\ z.for = f /\ z.stamp = n /\ z.known /\ z.path = p /\ z.index = i /\ ~z.finished /\ z.saving = {t}
       /\ w.mode = m /\ w.for = f /\ w.stamp = n /\ w.path = p /\ w.index = i /\ ~w.finished
  BY <1>6, <1>10
<1>12. t = [step |-> r.step, version |-> v, revision |-> r.revision, answer |-> {a}]
  BY <1>2, <1>4, <1>5, <1>8
<1>13. t.step = r.step /\ t.version = v /\ t.revision = r.revision /\ t.answer = {a}
  BY <1>12
<1>14. a = [version |-> v, seen |-> [c \in OpenTo(rights) |-> progress'[c]], stamp |-> grants]
  BY <1>7 DEF StateFor
<1>15. a.version = v /\ a.stamp = grants /\ a.seen = [c \in OpenTo(rights) |-> progress'[c]]
  BY <1>14
<1>16. Told(a)'
  <2>1. OpenTo(rights) \subseteq Chapters /\ \A c \in Chapters : progress'[c] \in 0 .. 2
    BY <1>3 DEF OpenTo, Chapters, ServerMoves, ProgressTyped
  <2> QED
    BY <1>2, <1>14, <1>15, <2>1 DEF Told, TourIInv, ProgressTyped, OpenTo
<1>17. r.step \in DOMAIN a.seen /\ a.seen[r.step] >= r.revision
  <2>1. r.step \in OpenTo(rights) /\ r.revision \in 1 .. 2 /\ OpenTo(rights) \subseteq Chapters
    BY <1>2 DEF MarkSeen, Revision, OpenTo
  <2>2. progress'[r.step] = IF progress[r.step] < r.revision THEN r.revision ELSE progress[r.step]
    BY <1>2, <2>1 DEF MarkSeen, TourIInv, ProgressTyped
  <2>3. progress[r.step] \in 0 .. 2
    BY <2>1 DEF TourIInv, ProgressTyped
  <2> QED
    BY <1>15, <2>1, <2>2, <2>3
<1>18. ASSUME NEW s \in tourState PROVE VisitOf(z, s)'
  <2>1. ChaptersOf(z, s) = ChaptersOf(w, s)
    BY <1>11 DEF ChaptersOf
  <2>2. Passed(z, s)' /\ Within(z, s)'
    BY <1>4, <1>11, <2>1 DEF VisitOf, Passed, Within, Seen, ChaptersOf
  <2>3. Saves(z, s)'
    <3>1. Answered({a})'
      BY <1>16 DEF Answered
    <3>2. t = [step |-> t.step, version |-> t.version, revision |-> t.revision, answer |-> t.answer]
      BY <1>12, <1>13
    <3>3. z.index <= Len(ChaptersOf(z, s)) /\ Current(z, s) = t.step
      BY <1>5, <1>11, <1>13, <2>1 DEF Current
    <3>4. t.version = s.version /\ t.revision = Revision(s.version, t.step)
      BY <1>2, <1>5, <1>13
    <3>5. a.version = t.version /\ a.stamp >= z.stamp /\ t.step \in DOMAIN a.seen /\ a.seen[t.step] >= t.revision
      <4>1. n <= s.stamp /\ s.stamp <= grants /\ s.stamp \in Nat /\ grants \in Nat
        BY <1>4, <1>5, <1>11 DEF Told, TourIInv
      <4> QED
        BY <1>6, <1>11, <1>13, <1>15, <1>17, <4>1
    <3>6. \A y \in z.saving : y = t
      BY <1>11
    <3>7. Answered(t.answer)' /\ \A b \in t.answer : b = a
      BY <1>13, <3>1
    <3> HIDE DEF Answered, ChaptersOf, Current, Revision
    <3>8. ChaptersOf(z, s)' = ChaptersOf(z, s) /\ Current(z, s)' = Current(z, s)
      BY DEF ChaptersOf, Current
    <3> QED
      BY <1>11, <3>2, <3>3, <3>4, <3>5, <3>6, <3>7, <3>8 DEF Saves, Revision
  <2> QED
    BY <1>5, <1>11, <2>2, <2>3 DEF VisitOf
<1>19. VisitRow(z)
  BY <1>6, <1>10, <1>11 DEF VisitRow
<1>20. visit' = {z}
  BY <1>2, <1>7, <1>8, <1>9
<1>21. Answered(tourState)'
  BY <1>2, <1>3, ToldLasts DEF TourIInv, Answered
<1> QED
  BY <1>2, <1>3, <1>4, <1>11, <1>18, <1>19, <1>20, <1>21 DEF TourIInv, ServerMoves, VisitRow

LEMMA TourStep ==
  ASSUME TourIInv, TourNext \/ UNCHANGED tourVars
  PROVE  TourIInv'
<1>1. CASE UNCHANGED tourVars
  BY <1>1, TourShows DEF tourVars, sessionVars, tourPageVars, TourIInv
<1> QED
  BY <1>1, ServerSteps, SessionSteps, LoadSteps, OpeningSteps, ChapterSteps, HearSeenStep, ServeSeenStep DEF TourNext

LEMMA TourInvariant == TourSpec => []TourIInv
<1> HIDE DEF TourNext
<1> QED
  BY TourStarts, TourStep, PTL DEF TourSpec

\* The page of the tour shows a path of the rights and the mode it has, it saves the chapter it
\* shows, and a visit that is finished has left every chapter seen on the server
\* (tour.component.ts:54, tour.go:118), for any chapters revised, changes of rights, tabs and
\* versions.
THEOREM TourStaysCurrent == TourSpec => []TourIsCurrent
  BY TourInvariant, TourHolds, PTL

\* "La progression n'abaisse jamais une révision déjà acquise" (docs/visite-guidee.md:43), for
\* any chapters revised, any changes of rights and any tabs.
THEOREM TourKeepsProgress == TourSpec => ProgressIsKept
<1>1. ASSUME ProgressTyped, [TourNext]_tourVars PROVE [ProgressGrows]_<<progress, seenVersion>>
  BY <1>1, TourKeeps
<1>2. TourIInv => ProgressTyped
  BY DEF TourIInv
<1>3. [][ProgressGrows]_<<progress, seenVersion>> => ProgressIsKept
  BY PTL DEF ProgressIsKept, ProgressGrows
<1> HIDE DEF TourNext, ProgressTyped
<1> QED
  BY <1>1, <1>2, <1>3, TourInvariant, PTL DEF TourSpec

------------------------------------------------------------------------------
(* Mailing lists *)


MailingSpec == MailingInit /\ [][MailingNext]_mailingVars

\* What is left to read of the lists.
Ends ==
  {<<>>, <<<<"subscribers", "bureau">>>>,
   <<<<"tasks", "bureau">>, <<"subscribers", "bureau">>>>,
   <<<<"subscribers", "membres">>, <<"tasks", "bureau">>, <<"subscribers", "bureau">>>>,
   Reads}

ReaderRows ==
  [wanted : [ListNames -> SUBSET Addresses], incomplete : BOOLEAN,
   tasks : [ListNames -> SUBSET Calls], subscribers : [ListNames -> SUBSET Addresses], left : Ends]

SyncRows ==
  [stage : {"before", "calls", "after"}, by : {"page", "other"}, token : SUBSET ReaderRows, reader : ReaderRows,
   additions : SUBSET Calls, removals : SUBSET Calls, failed : BOOLEAN, doubt : BOOLEAN]

ListsTyped ==
  /\ directory \in [Addresses -> {"none", "member", "bureau"}]
  /\ incomplete \in BOOLEAN
  /\ subscribers \in [ListNames -> SUBSET Addresses]
  /\ tasks \subseteq Calls /\ late \subseteq Calls
  /\ sync \in SyncRows \cup {NoSync}
  /\ plan \subseteq ReaderRows /\ preview \subseteq ReaderRows

TasksRead(r, l) == \A i \in DOMAIN r.left : r.left[i] # <<"tasks", l>>
SubscribersRead(r, l) == \A i \in DOMAIN r.left : r.left[i] # <<"subscribers", l>>

\* A list that had no task when it was read has none now, and has not changed since.
ReadIsTrue ==
  sync.stage \in {"before", "after"} /\ ~sync.doubt =>
    /\ late = {}
    /\ \A l \in ListNames : TasksRead(sync.reader, l) /\ sync.reader.tasks[l] = {} =>
         /\ \A c \in tasks : c.list # l
         /\ SubscribersRead(sync.reader, l) => subscribers[l] = sync.reader.subscribers[l]

\* The calls that are left are confirmed, and the tasks there are come from those made.
CallsKnown ==
  sync.stage = "calls" =>
    /\ sync.token \subseteq {sync.reader}
    /\ sync.additions \subseteq Additions(sync.reader)
    /\ sync.removals \subseteq Removals(sync.reader)
    /\ ~sync.doubt /\ ~sync.failed => late = {} /\ tasks \subseteq CallsMade

MailingIInv == ListsTyped /\ ReadIsTrue /\ CallsKnown

------------------------------------------------------------------------------
(* Readers *)

LEMMA NewReaderRow ==
  ASSUME ListsTyped
  PROVE  /\ NewReader \in ReaderRows
         /\ \A l \in ListNames : ~TasksRead(NewReader, l)
<1>1. NewReader \in ReaderRows
  BY DEF ListsTyped, NewReader, ReaderRows, Wanted, Ends
<1>2. ASSUME NEW l \in ListNames PROVE ~TasksRead(NewReader, l)
  <2>1. NewReader.left = Reads
    BY DEF NewReader
  <2>2. 1 \in DOMAIN Reads /\ 3 \in DOMAIN Reads /\ Reads[1] = <<"tasks", "membres">> /\ Reads[3] = <<"tasks", "bureau">>
    BY DEF Reads
  <2> QED
    BY <2>1, <2>2 DEF TasksRead, ListNames
<1> QED
  BY <1>1, <1>2

\* One read of a list.
LEMMA ReadOneEffect ==
  ASSUME ListsTyped, NEW r \in ReaderRows, NEW k \in {"tasks", "subscribers"}, NEW l \in ListNames,
         Head(r.left) = <<k, l>>, Tail(r.left) \in Ends
  PROVE  /\ ReadOne(r) \in ReaderRows
         /\ ReadOne(r).left = Tail(r.left)
         /\ ReadOne(r).tasks = IF k = "tasks" THEN [r.tasks EXCEPT ![l] = {c \in tasks : c.list = l}] ELSE r.tasks
         /\ ReadOne(r).subscribers = IF k = "tasks" THEN r.subscribers ELSE [r.subscribers EXCEPT ![l] = subscribers[l]]
<1> DEFINE rest == [r EXCEPT !.left = Tail(@)]
<1>1. /\ rest \in ReaderRows /\ rest.left = Tail(r.left)
      /\ rest.tasks = r.tasks /\ rest.subscribers = r.subscribers
  BY DEF ReaderRows
<1>2. ReadOne(r) = IF k = "tasks" THEN [rest EXCEPT !.tasks[l] = {c \in tasks : c.list = l}]
                                  ELSE [rest EXCEPT !.subscribers[l] = subscribers[l]]
  <2>1. Head(r.left)[1] = k /\ Head(r.left)[2] = l
    OBVIOUS
  <2> QED
    BY <2>1 DEF ReadOne
<1>3. {c \in tasks : c.list = l} \in SUBSET Calls /\ subscribers[l] \in SUBSET Addresses
  BY DEF ListsTyped
<1> HIDE DEF rest
<1>4. CASE k = "tasks"
  BY <1>1, <1>2, <1>3, <1>4 DEF ReaderRows
<1>5. CASE k = "subscribers"
  BY <1>1, <1>2, <1>3, <1>5 DEF ReaderRows
<1> QED
  BY <1>4, <1>5

\* What is left names the tasks of a list before its subscribers, each once.
LEMMA NextRead ==
  ASSUME NEW r \in ReaderRows, r.left # <<>>
  PROVE  \E k \in {"tasks", "subscribers"}, l \in ListNames, t \in Ends :
           /\ Head(r.left) = <<k, l>> /\ Tail(r.left) = t
           /\ \A q \in ReaderRows : q.left = t =>
                /\ \A m \in ListNames : m # l =>
                     /\ TasksRead(q, m) <=> TasksRead(r, m)
                     /\ SubscribersRead(q, m) <=> SubscribersRead(r, m)
                /\ k = "tasks" => ~SubscribersRead(q, l)
                /\ k = "subscribers" => TasksRead(q, l) /\ TasksRead(r, l)
<1> DEFINE sb == <<"subscribers", "bureau">>
           tb == <<"tasks", "bureau">>
           sm == <<"subscribers", "membres">>
           tm == <<"tasks", "membres">>
<1>1. r.left \in {<<sb>>, <<tb, sb>>, <<sm, tb, sb>>, <<tm, sm, tb, sb>>}
  BY DEF ReaderRows, Ends, Reads
<1>2. CASE r.left = <<sb>>
  <2>1. Head(r.left) = sb /\ Tail(r.left) = <<>> /\ <<>> \in Ends
    BY <1>2 DEF Ends
  <2> QED
    BY <1>2, <2>1 DEF TasksRead, SubscribersRead, ListNames
<1>3. CASE r.left = <<tb, sb>>
  <2>1. Head(r.left) = tb /\ Tail(r.left) = <<sb>> /\ <<sb>> \in Ends
    BY <1>3 DEF Ends
  <2> QED
    BY <1>3, <2>1 DEF TasksRead, SubscribersRead, ListNames
<1>4. CASE r.left = <<sm, tb, sb>>
  <2>1. Head(r.left) = sm /\ Tail(r.left) = <<tb, sb>> /\ <<tb, sb>> \in Ends
    BY <1>4 DEF Ends
  <2> QED
    BY <1>4, <2>1 DEF TasksRead, SubscribersRead, ListNames
<1>5. CASE r.left = <<tm, sm, tb, sb>>
  <2>1. Head(r.left) = tm /\ Tail(r.left) = <<sm, tb, sb>> /\ <<sm, tb, sb>> \in Ends
    BY <1>5 DEF Ends
  <2> QED
    BY <1>5, <2>1 DEF TasksRead, SubscribersRead, ListNames
<1> QED
  BY <1>1, <1>2, <1>3, <1>4, <1>5

\* A read keeps what is known of the lists: what it reads is true, and a list whose tasks are
\* read has its subscribers still to be read.
LEMMA ReadOneRow ==
  ASSUME ListsTyped, NEW r \in ReaderRows, r.left # <<>>
  PROVE  /\ ReadOne(r) \in ReaderRows
         /\ \A l \in ListNames : TasksRead(ReadOne(r), l) /\ ReadOne(r).tasks[l] = {} =>
              \/ TasksRead(r, l) /\ r.tasks[l] = {}
              \/ ~SubscribersRead(ReadOne(r), l) /\ \A c \in tasks : c.list # l
         /\ \A l \in ListNames : SubscribersRead(ReadOne(r), l) =>
              \/ ReadOne(r).subscribers[l] = subscribers[l]
              \/ SubscribersRead(r, l) /\ ReadOne(r).subscribers[l] = r.subscribers[l]
<1>1. PICK k \in {"tasks", "subscribers"}, l \in ListNames, t \in Ends :
           /\ Head(r.left) = <<k, l>> /\ Tail(r.left) = t
           /\ \A q \in ReaderRows : q.left = t =>
                /\ \A m \in ListNames : m # l =>
                     /\ TasksRead(q, m) <=> TasksRead(r, m)
                     /\ SubscribersRead(q, m) <=> SubscribersRead(r, m)
                /\ k = "tasks" => ~SubscribersRead(q, l)
                /\ k = "subscribers" => TasksRead(q, l) /\ TasksRead(r, l)
  BY NextRead
<1> DEFINE q == ReadOne(r)
<1>a. Head(r.left) = <<k, l>> /\ Tail(r.left) = t /\ Tail(r.left) \in Ends
  BY <1>1
<1>2. /\ q \in ReaderRows
      /\ q.left = Tail(r.left)
      /\ q.tasks = IF k = "tasks" THEN [r.tasks EXCEPT ![l] = {c \in tasks : c.list = l}] ELSE r.tasks
      /\ q.subscribers = IF k = "tasks" THEN r.subscribers ELSE [r.subscribers EXCEPT ![l] = subscribers[l]]
  BY <1>a, ReadOneEffect
<1>3. r.tasks \in [ListNames -> SUBSET Calls] /\ r.subscribers \in [ListNames -> SUBSET Addresses]
  BY DEF ReaderRows
<1>4. /\ \A m \in ListNames : m # l => /\ q.tasks[m] = r.tasks[m] /\ q.subscribers[m] = r.subscribers[m]
                                       /\ TasksRead(q, m) <=> TasksRead(r, m)
                                       /\ SubscribersRead(q, m) <=> SubscribersRead(r, m)
      /\ k = "tasks" => ~SubscribersRead(q, l) /\ q.tasks[l] = {c \in tasks : c.list = l}
      /\ k = "subscribers" => TasksRead(r, l) /\ q.tasks[l] = r.tasks[l] /\ q.subscribers[l] = subscribers[l]
  BY <1>1, <1>a, <1>2, <1>3
<1> HIDE DEF q
<1>5. \A m \in ListNames : TasksRead(q, m) /\ q.tasks[m] = {} =>
              \/ TasksRead(r, m) /\ r.tasks[m] = {}
              \/ ~SubscribersRead(q, m) /\ \A c \in tasks : c.list # m
  BY <1>4
<1>6. \A m \in ListNames : SubscribersRead(q, m) =>
              \/ q.subscribers[m] = subscribers[m]
              \/ SubscribersRead(r, m) /\ q.subscribers[m] = r.subscribers[m]
  BY <1>4
<1> QED
  BY <1>2, <1>5, <1>6 DEF q

------------------------------------------------------------------------------
LEMMA MailingStarts == MailingInit => MailingIInv
<1> SUFFICES ASSUME MailingInit PROVE MailingIInv
  OBVIOUS
<1>1. Wanted("membres") \subseteq Addresses /\ Wanted("bureau") \subseteq Addresses
  BY DEF Wanted
<1>2. NewReader \in ReaderRows
  BY DEF MailingInit, NewReader, ReaderRows, Wanted, Ends
<1>3. ListsTyped
  BY <1>2 DEF MailingInit, ListsTyped
<1>4. sync.stage = "none"
  BY DEF MailingInit, NoSync
<1> QED
  BY <1>3, <1>4 DEF MailingIInv, ReadIsTrue, CallsKnown

\* A step that calls nobody and leaves the synchronization alone.
LEMMA PageStep ==
  ASSUME MailingIInv, UNCHANGED <<sync, tasks, late, subscribers>>, ListsTyped'
  PROVE  MailingIInv'
  BY DEF MailingIInv, ReadIsTrue, CallsKnown, CallsMade, Additions, Removals, TasksRead, SubscribersRead

LEMMA DirectoryAndPageKeep ==
  ASSUME MailingIInv,
         \/ EditMember \/ RefreshPlan \/ ChangeAccess \/ ReadPreview \/ ShowPlan
         \/ AskToSync \/ SendSync \/ DropSync \/ SyncRefused
  PROVE  MailingIInv'
<1> USE DEF mailingVars, directoryVars, providerVars, serverVars, mailingPageVars
<1>1. ListsTyped /\ NewReader \in ReaderRows
  BY NewReaderRow DEF MailingIInv
<1>2. CASE EditMember
  <2>1. ListsTyped'
    BY <1>1, <1>2 DEF EditMember, ListsTyped
  <2> QED
    BY <1>2, <2>1, PageStep DEF EditMember
<1>3. CASE RefreshPlan
  <2>1. ListsTyped'
    BY <1>1, <1>3 DEF RefreshPlan, StartPreview, ListsTyped
  <2> QED
    BY <1>3, <2>1, PageStep DEF RefreshPlan
<1>4. CASE ChangeAccess
  <2>1. ListsTyped'
    BY <1>1, <1>4 DEF ChangeAccess, StartPreview, ListsTyped
  <2> QED
    BY <1>4, <2>1, PageStep DEF ChangeAccess
<1>5. CASE ReadPreview
  <2>1. PICK r \in preview : r.left # <<>> /\ preview' = {ReadOne(r)}
    BY <1>5 DEF ReadPreview
  <2>2. r \in ReaderRows
    BY <1>1 DEF ListsTyped
  <2>3. ReadOne(r) \in ReaderRows
    BY <1>1, <2>1, <2>2, ReadOneRow
  <2>4. ListsTyped'
    BY <1>1, <1>5, <2>1, <2>3 DEF ReadPreview, ListsTyped
  <2> QED
    BY <1>5, <2>4, PageStep DEF ReadPreview
<1>6. CASE ShowPlan
  <2>1. ListsTyped'
    BY <1>1, <1>6 DEF ShowPlan, ListsTyped
  <2> QED
    BY <1>6, <2>1, PageStep DEF ShowPlan
<1>7. CASE AskToSync \/ SendSync \/ DropSync \/ SyncRefused
  <2>1. ListsTyped'
    BY <1>1, <1>7 DEF AskToSync, SendSync, DropSync, SyncRefused, ListsTyped
  <2> QED
    BY <1>7, <2>1, PageStep DEF AskToSync, SendSync, DropSync, SyncRefused
<1> QED
  BY <1>2, <1>3, <1>4, <1>5, <1>6, <1>7

\* A task that ends changes a list that had a task.
LEMMA EndTaskKeeps == ASSUME MailingIInv, EndTask PROVE MailingIInv'
<1> USE DEF directoryVars, serverVars, mailingPageVars
<1> PICK c \in tasks, done \in BOOLEAN :
      /\ tasks' = tasks \ {c}
      /\ subscribers' = IF ~done THEN subscribers
                        ELSE [subscribers EXCEPT ![c.list] = IF c.op = "add" THEN @ \cup {c.address} ELSE @ \ {c.address}]
      /\ UNCHANGED <<late, directoryVars, serverVars, mailingPageVars>>
  BY DEF EndTask
<1>1. c.list \in ListNames /\ c.address \in Addresses
  BY DEF MailingIInv, ListsTyped, Calls
<1>2. subscribers' \in [ListNames -> SUBSET Addresses] /\ \A l \in ListNames : l # c.list => subscribers'[l] = subscribers[l]
  BY <1>1 DEF MailingIInv, ListsTyped
<1>3. ListsTyped'
  BY <1>2 DEF MailingIInv, ListsTyped
<1>4. ReadIsTrue'
  BY <1>2 DEF MailingIInv, ReadIsTrue, TasksRead, SubscribersRead
<1>5. CallsKnown'
  BY DEF MailingIInv, CallsKnown, CallsMade, Additions, Removals
<1> QED
  BY <1>3, <1>4, <1>5 DEF MailingIInv

\* A call whose answer was not heard becomes a task.
LEMMA AcceptLateKeeps == ASSUME MailingIInv, AcceptLate PROVE MailingIInv'
<1> USE DEF directoryVars, serverVars, mailingPageVars
<1>1. late # {} /\ UNCHANGED <<sync, subscribers>> /\ late' \cup tasks' = late \cup tasks /\ late' \subseteq late
  BY DEF AcceptLate
<1>2. ListsTyped'
  BY <1>1 DEF MailingIInv, ListsTyped, AcceptLate
<1>3. ReadIsTrue'
  BY <1>1 DEF MailingIInv, ReadIsTrue
<1>4. CallsKnown'
  BY <1>1 DEF MailingIInv, CallsKnown, Additions, Removals
<1> QED
  BY <1>2, <1>3, <1>4 DEF MailingIInv

\* A synchronization that begins, or starts to read again, knows nothing of the lists.
LEMMA ReaderAnew ==
  ASSUME MailingIInv, sync' \in SyncRows, sync'.stage \in {"before", "after"}, sync'.reader = NewReader,
         sync'.doubt = (late # {}), UNCHANGED <<tasks, late, subscribers, directory, incomplete, plan, preview>>
  PROVE  MailingIInv'
<1>1. ListsTyped'
  BY DEF MailingIInv, ListsTyped
<1>2. \A l \in ListNames : ~TasksRead(NewReader, l)
  BY NewReaderRow DEF MailingIInv
<1> DEFINE r == sync'.reader
<1>3. \A l \in ListNames : ~TasksRead(r, l)
  BY <1>2
<1>4. ReadIsTrue'
  BY <1>3 DEF ReadIsTrue, TasksRead
<1>5. CallsKnown'
  BY DEF CallsKnown
<1> QED
  BY <1>1, <1>4, <1>5 DEF MailingIInv

LEMMA BeginKeeps == ASSUME MailingIInv, PageBegins \/ OtherBegins PROVE MailingIInv'
<1> USE DEF directoryVars, providerVars, serverVars, mailingPageVars
<1> DEFINE row(by, token) ==
      [stage |-> "before", by |-> by, token |-> token, reader |-> NewReader,
       additions |-> {}, removals |-> {}, failed |-> FALSE, doubt |-> late # {}]
<1>1. PICK by \in {"page", "other"}, token \in SUBSET ReaderRows : sync' = row(by, token)
  BY DEF PageBegins, OtherBegins, Begin, MailingIInv, ListsTyped
<1>2. NewReader \in ReaderRows
  BY NewReaderRow DEF MailingIInv
<1>3. sync' \in SyncRows /\ sync'.stage = "before" /\ sync'.reader = NewReader /\ sync'.doubt = (late # {})
  BY <1>1, <1>2 DEF SyncRows
<1>4. UNCHANGED <<tasks, late, subscribers, directory, incomplete, plan, preview>>
  BY DEF PageBegins, OtherBegins
<1> QED
  BY <1>3, <1>4, ReaderAnew

LEMMA ReadAgainKeeps == ASSUME MailingIInv, ReadAgain PROVE MailingIInv'
<1> USE DEF directoryVars, providerVars, mailingPageVars
<1>1. sync \in SyncRows /\ NewReader \in ReaderRows
  BY NewReaderRow DEF ReadAgain, MailingIInv, ListsTyped, NoSync
<1>2. sync' = [sync EXCEPT !.stage = "after", !.reader = NewReader, !.doubt = late # {}]
  BY DEF ReadAgain
<1>3. sync' \in SyncRows /\ sync'.stage = "after" /\ sync'.reader = NewReader /\ sync'.doubt = (late # {})
  BY <1>1, <1>2 DEF SyncRows
<1> QED
  BY <1>3, ReaderAnew DEF ReadAgain

LEMMA SyncReadsKeeps == ASSUME MailingIInv, SyncReads PROVE MailingIInv'
<1> USE DEF directoryVars, providerVars, mailingPageVars
<1> PICK old : old = sync.reader
  OBVIOUS
<1> PICK new : new = ReadOne(old)
  OBVIOUS
<1>1. /\ sync \in SyncRows /\ sync.stage \in {"before", "after"}
      /\ old.left # <<>> /\ sync' = [sync EXCEPT !.reader = new]
      /\ UNCHANGED <<tasks, late, subscribers>>
  BY DEF SyncReads, MailingIInv, ListsTyped, NoSync
<1>2. old \in ReaderRows
  BY <1>1 DEF SyncRows
<1>3. ListsTyped
  BY DEF MailingIInv
<1>4. /\ new \in ReaderRows
      /\ \A l \in ListNames : TasksRead(new, l) /\ new.tasks[l] = {} =>
           \/ TasksRead(old, l) /\ old.tasks[l] = {}
           \/ ~SubscribersRead(new, l) /\ \A c \in tasks : c.list # l
      /\ \A l \in ListNames : SubscribersRead(new, l) =>
           \/ new.subscribers[l] = subscribers[l]
           \/ SubscribersRead(old, l) /\ new.subscribers[l] = old.subscribers[l]
  BY <1>1, <1>2, <1>3, ReadOneRow
<1>5. /\ sync' \in SyncRows /\ sync'.stage = sync.stage /\ sync'.doubt = sync.doubt
      /\ sync'.reader = new
  BY <1>1, <1>4 DEF SyncRows
<1>6. ListsTyped'
  BY <1>3, <1>5 DEF ListsTyped, SyncReads
<1>7. ReadIsTrue'
  <2>1. ASSUME ~sync.doubt
        PROVE  /\ late = {}
               /\ \A l \in ListNames : TasksRead(old, l) /\ old.tasks[l] = {} =>
                    /\ \A c \in tasks : c.list # l
                    /\ SubscribersRead(old, l) => subscribers[l] = old.subscribers[l]
    BY <1>1, <2>1 DEF MailingIInv, ReadIsTrue
  <2>2. ASSUME ~sync.doubt, NEW l \in ListNames, TasksRead(new, l), new.tasks[l] = {}
        PROVE  /\ \A c \in tasks : c.list # l
               /\ SubscribersRead(new, l) => subscribers[l] = new.subscribers[l]
    BY <1>4, <2>1, <2>2
  <2>3. ASSUME NEW l \in ListNames
        PROVE  /\ TasksRead(sync.reader, l)' <=> TasksRead(new, l)
               /\ SubscribersRead(sync.reader, l)' <=> SubscribersRead(new, l)
    BY <1>5 DEF TasksRead, SubscribersRead
  <2> QED
    BY <1>1, <1>5, <2>1, <2>2, <2>3 DEF ReadIsTrue
<1>8. CallsKnown'
  BY <1>1, <1>5 DEF CallsKnown
<1> QED
  BY <1>6, <1>7, <1>8 DEF MailingIInv

\* Calls begin on lists that were read without a task, and are those of the plan.
LEMMA ApplyKeeps == ASSUME MailingIInv, Apply PROVE MailingIInv'
<1> USE DEF directoryVars, providerVars, mailingPageVars
<1> PICK r : r = sync.reader
  OBVIOUS
<1>1. /\ sync \in SyncRows /\ sync.stage = "before" /\ r.left = <<>>
      /\ Fits(sync.token, r) /\ CanApply(r)
      /\ sync' = [sync EXCEPT !.stage = "calls", !.additions = Additions(r), !.removals = Removals(r)]
      /\ UNCHANGED <<tasks, late, subscribers>>
  BY DEF Apply, MailingIInv, ListsTyped, NoSync
<1>2. Additions(r) \subseteq Calls /\ Removals(r) \subseteq Calls
  BY DEF Additions, Removals
<1>3. /\ sync' \in SyncRows /\ sync'.stage = "calls" /\ sync'.reader = r
      /\ sync'.token = sync.token /\ sync'.doubt = sync.doubt
      /\ sync'.additions = Additions(r) /\ sync'.removals = Removals(r)
  BY <1>1, <1>2 DEF SyncRows
<1>4. ListsTyped'
  BY <1>3 DEF MailingIInv, ListsTyped, Apply
<1>5. ReadIsTrue'
  BY <1>3 DEF ReadIsTrue
<1>6. ~sync.doubt => late = {} /\ tasks = {}
  <2> SUFFICES ASSUME ~sync.doubt PROVE late = {} /\ tasks = {}
    OBVIOUS
  <2>1. \A l \in ListNames : TasksRead(r, l) /\ r.tasks[l] = {}
    BY <1>1 DEF CanApply, TasksRead
  <2>2. late = {} /\ \A l \in ListNames : \A c \in tasks : c.list # l
    BY <1>1, <2>1 DEF MailingIInv, ReadIsTrue
  <2>3. \A c \in tasks : c.list \in ListNames
    BY DEF MailingIInv, ListsTyped, Calls
  <2> QED
    BY <2>2, <2>3
<1>7. Additions(r)' = Additions(r) /\ Removals(r)' = Removals(r)
  BY DEF Additions, Removals
<1>8. CallsKnown'
  BY <1>1, <1>3, <1>6, <1>7 DEF CallsKnown, Fits, Additions, Removals
<1> QED
  BY <1>4, <1>5, <1>8 DEF MailingIInv

\* What a step of the calls does: one call that is left, heard or not.
LEMMA OneCall ==
  ASSUME MailingIInv, CallProvider
  PROVE  \E c \in sync.additions \cup sync.removals :
           /\ c \in NextCalls
           /\ tasks' \cup late' \subseteq tasks \cup late \cup {c}
           /\ sync' \in {[sync EXCEPT !.additions = @ \ {c}, !.removals = @ \ {c}], [sync EXCEPT !.failed = TRUE]}
           /\ ~sync'.failed =>
                late' = late /\ sync'.additions = sync.additions \ {c} /\ sync'.removals = sync.removals \ {c}
<1>1. sync \in SyncRows
  BY DEF CallProvider, MailingIInv, ListsTyped, NoSync
<1> PICK c \in NextCalls :
      \/ tasks' = tasks \cup {c} /\ UNCHANGED late /\ sync' = [sync EXCEPT !.additions = @ \ {c}, !.removals = @ \ {c}]
      \/ /\ sync' = [sync EXCEPT !.failed = TRUE]
         /\ \/ tasks' = tasks \cup {c} /\ UNCHANGED late
            \/ late' = late \cup {c} /\ UNCHANGED tasks
            \/ UNCHANGED <<tasks, late>>
  BY DEF CallProvider
<1>2. c \in sync.additions \cup sync.removals
  BY DEF NextCalls
<1>3. /\ sync' = [sync EXCEPT !.failed = TRUE] => sync'.failed
      /\ sync' = [sync EXCEPT !.additions = @ \ {c}, !.removals = @ \ {c}] =>
           sync'.additions = sync.additions \ {c} /\ sync'.removals = sync.removals \ {c}
  BY <1>1 DEF SyncRows
<1> QED
  BY <1>2, <1>3

LEMMA CallProviderKeeps == ASSUME MailingIInv, CallProvider PROVE MailingIInv'
<1> USE DEF directoryVars, mailingPageVars
<1> PICK r : r = sync.reader
  OBVIOUS
<1>1. /\ sync \in SyncRows /\ sync.stage = "calls" /\ ~sync.failed
      /\ UNCHANGED <<subscribers, directoryVars, syncs, mailingPageVars>>
  BY DEF CallProvider, MailingIInv, ListsTyped, NoSync
<1>2. PICK c \in sync.additions \cup sync.removals :
        /\ tasks' \cup late' \subseteq tasks \cup late \cup {c}
        /\ sync' \in {[sync EXCEPT !.additions = @ \ {c}, !.removals = @ \ {c}], [sync EXCEPT !.failed = TRUE]}
        /\ ~sync'.failed =>
             late' = late /\ sync'.additions = sync.additions \ {c} /\ sync'.removals = sync.removals \ {c}
  BY OneCall
<1>3. /\ sync' \in SyncRows /\ sync'.stage = "calls" /\ sync'.reader = r /\ sync'.token = sync.token
      /\ sync'.additions \subseteq sync.additions /\ sync'.removals \subseteq sync.removals
      /\ sync'.doubt = sync.doubt
      /\ ~sync'.failed => late' = late
  BY <1>1, <1>2, ZenonT(60) DEF SyncRows
<1>4. c \in Calls
  BY <1>1, <1>2 DEF SyncRows
<1>5. ListsTyped'
  BY <1>1, <1>2, <1>3, <1>4 DEF MailingIInv, ListsTyped
<1>6. ReadIsTrue'
  BY <1>3 DEF ReadIsTrue
<1>7. /\ sync.token \subseteq {r}
      /\ sync.additions \subseteq Additions(r) /\ sync.removals \subseteq Removals(r)
      /\ ~sync.doubt => late = {} /\ tasks \subseteq (Additions(r) \cup Removals(r)) \ (sync.additions \cup sync.removals)
  BY <1>1 DEF MailingIInv, CallsKnown, CallsMade
<1>8. CallsKnown'
  <2>1. /\ sync'.token \subseteq {r}
        /\ sync'.additions \subseteq Additions(r) /\ sync'.removals \subseteq Removals(r)
        /\ ~sync'.doubt /\ ~sync'.failed => late' = {}
        /\ ~sync'.doubt /\ ~sync'.failed =>
             tasks' \subseteq (Additions(r) \cup Removals(r)) \ (sync'.additions \cup sync'.removals)
    BY <1>2, <1>3, <1>7
  <2> QED
    BY <1>3, <2>1 DEF CallsKnown, CallsMade, Additions, Removals
<1> QED
  BY <1>5, <1>6, <1>8 DEF MailingIInv

\* The page hears a plan that was read, or nothing.
LEMMA EndKeeps == ASSUME MailingIInv, Finish \/ Abandon PROVE MailingIInv'
<1> USE DEF directoryVars, providerVars
<1>1. sync' = NoSync /\ UNCHANGED <<tasks, late, subscribers, directory, incomplete, preview>>
  BY DEF Finish, Abandon
<1>2. plan' \subseteq ReaderRows
  <2>1. CASE Finish
    <3>1. sync.reader \in ReaderRows
      BY <2>1 DEF Finish, MailingIInv, ListsTyped, NoSync, SyncRows
    <3> QED
      BY <2>1, <3>1 DEF Finish, PageHears, MailingIInv, ListsTyped
  <2>2. CASE Abandon
    BY <2>2 DEF Abandon, PageHears, MailingIInv, ListsTyped
  <2> QED
    BY <2>1, <2>2
<1>3. ListsTyped'
  BY <1>1, <1>2 DEF MailingIInv, ListsTyped
<1>4. sync'.stage = "none"
  BY <1>1 DEF NoSync
<1> QED
  BY <1>3, <1>4 DEF MailingIInv, ReadIsTrue, CallsKnown

------------------------------------------------------------------------------
LEMMA MailingStepKeeps == ASSUME MailingIInv, [MailingNext]_mailingVars PROVE MailingIInv'
<1>1. CASE UNCHANGED mailingVars
  <2> USE DEF mailingVars, directoryVars, providerVars, serverVars, mailingPageVars
  <2>1. ListsTyped'
    BY <1>1 DEF MailingIInv, ListsTyped
  <2> QED
    BY <1>1, <2>1, PageStep
<1>2. CASE MailingNext
  BY <1>2, DirectoryAndPageKeep, EndTaskKeeps, AcceptLateKeeps, BeginKeeps, SyncReadsKeeps, ApplyKeeps,
     CallProviderKeeps, ReadAgainKeeps, EndKeeps
  DEF MailingNext
<1> QED
  BY <1>1, <1>2

\* Lists that were read without a difference and without a task are what the members want.
LEMMA ReadIsVerified == MailingIInv => VerifiedIsTrue
<1> SUFFICES ASSUME MailingIInv, sync.stage = "after", sync.reader.left = <<>>, UpToDate(sync.reader), ~sync.doubt
             PROVE  tasks = {} /\ subscribers = sync.reader.wanted
  BY DEF VerifiedIsTrue
<1> PICK r : r = sync.reader
  OBVIOUS
<1>1. r \in ReaderRows
  BY DEF MailingIInv, ListsTyped, NoSync, SyncRows
<1>2. \A l \in ListNames : TasksRead(r, l) /\ SubscribersRead(r, l) /\ r.tasks[l] = {}
  BY DEF TasksRead, SubscribersRead, UpToDate
<1>3. \A l \in ListNames : (\A c \in tasks : c.list # l) /\ subscribers[l] = r.subscribers[l]
  BY <1>2 DEF MailingIInv, ReadIsTrue
<1>4. tasks = {}
  BY <1>3 DEF MailingIInv, ListsTyped, Calls
<1>5. ASSUME NEW l \in ListNames PROVE r.wanted[l] = r.subscribers[l]
  <2>1. r.wanted[l] \subseteq Addresses /\ r.subscribers[l] \subseteq Addresses
    BY <1>1 DEF ReaderRows
  <2>2. Additions(r) = {} /\ Removals(r) = {}
    BY DEF UpToDate
  <2>3. ASSUME NEW a \in r.wanted[l] \ r.subscribers[l] PROVE FALSE
    <3>1. [op |-> "add", list |-> l, address |-> a] \in Calls
      BY <2>1 DEF Calls
    <3>2. [op |-> "add", list |-> l, address |-> a] \in Additions(r)
      BY <3>1 DEF Additions
    <3> QED
      BY <2>2, <3>2
  <2>4. ASSUME NEW a \in r.subscribers[l] \ r.wanted[l] PROVE FALSE
    <3>1. [op |-> "remove", list |-> l, address |-> a] \in Calls
      BY <2>1 DEF Calls
    <3>2. [op |-> "remove", list |-> l, address |-> a] \in Removals(r)
      BY <3>1 DEF Removals
    <3> QED
      BY <2>2, <3>2
  <2> QED
    BY <2>3, <2>4
<1>6. subscribers = r.wanted
  <2>1. subscribers \in [ListNames -> SUBSET Addresses] /\ r.wanted \in [ListNames -> SUBSET Addresses]
    BY <1>1 DEF MailingIInv, ListsTyped, ReaderRows
  <2> QED
    BY <1>3, <1>5, <2>1
<1> QED
  BY <1>4, <1>6

\* Every call is one that was confirmed, on lists nobody else was changing.
LEMMA StepCallsConfirmed == ASSUME MailingIInv, [MailingNext]_mailingVars PROVE CallsAreConfirmed
<1>1. sync.stage = "calls" /\ ~sync.doubt /\ ~sync.failed => tasks \subseteq CallsMade
  BY DEF MailingIInv, CallsKnown
<1> SUFFICES ASSUME sync.stage = "calls", NEW c \in (tasks' \cup late') \ (tasks \cup late)
             PROVE  /\ \A p \in sync.token : c \in Additions(p) \cup Removals(p)
                    /\ c.op = "remove" => sync.additions = {}
  BY <1>1 DEF CallsAreConfirmed
<1>2. CallProvider
  BY DEF MailingNext, mailingVars, directoryVars, providerVars, serverVars, mailingPageVars,
     EditMember, EndTask, AcceptLate, PageBegins, OtherBegins, SyncReads, Apply, ReadAgain, Finish, Abandon,
     RefreshPlan, ChangeAccess, ReadPreview, ShowPlan, AskToSync, SendSync, DropSync, SyncRefused
<1>3. c \in NextCalls
  BY <1>2, OneCall
<1>4. /\ sync.token \subseteq {sync.reader}
      /\ sync.additions \subseteq Additions(sync.reader)
      /\ sync.removals \subseteq Removals(sync.reader)
  BY DEF MailingIInv, CallsKnown
<1>5. \A b \in sync.additions : b.op = "add"
  BY <1>4 DEF Additions
<1> QED
  BY <1>3, <1>4, <1>5 DEF NextCalls

THEOREM MailingInvariant == MailingSpec => []MailingIInv
  BY MailingStarts, MailingStepKeeps, PTL DEF MailingSpec

\* "un succès vérifié n’est annoncé qu’après relecture des deux listes sans tâches en attente"
\* (docs/fiche-validation.md:54): what SyncMailingLists announces is so, for any lists.
THEOREM VerifiedStaysTrue == MailingSpec => []VerifiedIsTrue
  BY MailingInvariant, ReadIsVerified, PTL

\* No call leaves that was not confirmed, none while the task of an earlier one is there
\* (pkg/mailings/client.go:47), and no removal before the additions are over
\* (controllers/mailings.go:102), for any lists, addresses and tasks to begin with.
THEOREM CallsStayConfirmed == MailingSpec => [][CallsAreConfirmed]_mailingVars
<1>1. ASSUME MailingIInv, [MailingNext]_mailingVars PROVE [CallsAreConfirmed]_mailingVars
  BY <1>1, StepCallsConfirmed
<1> QED
  BY <1>1, MailingInvariant, PTL DEF MailingSpec

------------------------------------------------------------------------------
(* The directory *)

\* The two requests of a load end together, and units that were heard are an answer or an error.
LoadIsPaired ==
  /\ unitsLeg \in {"none", "asked", "answered"}
  /\ membersLeg \in {"none", "asked", "overtaken", "current", "outdated"}
  /\ membersHeld \in {"nothing", "current", "outdated"}
  /\ membersLeg = "none" <=> unitsLeg = "none"
  /\ unitsLeg = "answered" => unitsHeld = "answer" \/ unitsError
  /\ unitsLeg = "none" => membersError \/ unitsHeld = "answer" \/ unitsError
  /\ unitsLeg = "none" => membersError \/ membersHeld # "nothing"

\* The requests under way turn the units of the member into those that were chosen.
LeadsToChoice ==
  /\ \A r \in pending : r.linked <=> r.unit \in chosen
  /\ \A u : (u \in links <=> u \in chosen) \/ \E r \in pending : r.unit = u

\* What a form has done, when it has heard of everything it asked for.
FormIsExact ==
  /\ created <= 1 /\ (saved \/ created = 0)
  /\ lateLinks = {}
  /\ form = "linking" => LeadsToChoice
  /\ form \in {"checking", "done"} => links = chosen

\* What the server may have written for the form, the form knows or could not hear.
FormHasWritten ==
  /\ form \in {"reading", "linking", "checking", "done"} => persisted
  /\ lateLinks # {} => form # "closed" /\ unheard

\* The list is, or will be, one that was read before a write.
Behind == IF membersLeg = "none" THEN membersHeld = "outdated" ELSE membersLeg \in {"overtaken", "outdated"}

\* The page will ask for the list when it hears of the deletion, or when the form is closed.
LoadIsOwed == ~unshown /\ Behind => deletion = "deleted" \/ (form # "closed" /\ (persisted \/ unheard))

DirectoryIInv ==
  /\ SelectionFollowsAddress
  /\ LoadIsPaired
  /\ FormHasWritten /\ LoadIsOwed
  /\ created \in Nat
  /\ ~unheard => FormIsExact

LEMMA DirectoryHolds == DirectoryIInv => DirectoryIsCoherent
<1>1. DirectoryIInv => ListFollowsWrites
  BY DEF DirectoryIInv, LoadIsPaired, LoadIsOwed, Behind, ListFollowsWrites, DirectoryLoading
<1> QED
  BY <1>1 DEF DirectoryIInv, DirectoryIsCoherent, LoadIsPaired, FormIsExact, UnitsAreAnswered, DirectoryLoading,
         OneMemberPerForm, SavedAsEntered

LEMMA DirectoryStarts == MemberInit => DirectoryIInv
  BY DEF MemberInit, DirectoryIInv, SelectionFollowsAddress, LoadIsPaired, FormIsExact, FormHasWritten, LoadIsOwed, Behind

\* Steps that do not touch a part of the page.
LEMMA SelectionRests == ASSUME SelectionFollowsAddress, UNCHANGED selectionVars PROVE SelectionFollowsAddress'
  BY DEF SelectionFollowsAddress, selectionVars, WantsDetails

LEMMA LoadRests ==
  ASSUME LoadIsPaired, UNCHANGED directorySourceVars \/ Outdates \/ RefreshDirectory
  PROVE  LoadIsPaired'
  BY DEF LoadIsPaired, directorySourceVars, Outdates, RefreshDirectory, LoadDirectory

LEMMA FormRests ==
  ASSUME created \in Nat, ~unheard => FormIsExact, UNCHANGED memberFormVars
  PROVE  created' \in Nat /\ (~unheard' => FormIsExact')
  BY DEF FormIsExact, LeadsToChoice, memberFormVars

LEMMA SelectionStep ==
  ASSUME SelectionFollowsAddress,
         SetDirectoryView \/ SelectTarget \/ Search \/ CloseDetails \/ NavigationEnds \/ Travel
  PROVE  /\ SelectionFollowsAddress'
         /\ UNCHANGED <<directorySourceVars, memberFormVars>>
<1>1. ASSUME NEW p, Show(p) PROVE SelectionFollowsAddress' /\ UNCHANGED <<directorySourceVars, memberFormVars>>
  BY <1>1 DEF Show, SelectionFollowsAddress, WantsDetails
<1>2. CASE NavigationEnds
  BY <1>2 DEF NavigationEnds, ArriveAt, SelectionFollowsAddress, WantsDetails
<1>3. CASE Travel
  BY <1>3 DEF Travel, SelectionFollowsAddress, WantsDetails
<1> QED
  BY <1>1, <1>2, <1>3 DEF SetDirectoryView, SelectTarget, Search, CloseDetails

LEMMA LoadStep ==
  ASSUME LoadIsPaired, UserRefreshes \/ RetryUnits \/ RetryEnds \/ UnitsEnd \/ MembersArrive \/ MembersFail
  PROVE  LoadIsPaired' /\ UNCHANGED <<selectionVars, memberFormVars>>
  BY DEF LoadIsPaired, UserRefreshes, LoadDirectory, RetryUnits, RetryEnds, UnitsEnd, MembersArrive, MembersFail,
         HearUnits, Complete, SourceStep

LEMMA DeletionStep ==
  ASSUME \/ AskToDeleteMember \/ AnswerDeletion \/ ServerDeletesMember \/ HearMemberDeleted \/ MemberDeletionFails
  PROVE  /\ UNCHANGED <<selectionVars, memberFormVars>>
         /\ UNCHANGED directorySourceVars \/ Outdates \/ RefreshDirectory
  BY DEF AskToDeleteMember, AnswerDeletion, ServerDeletesMember, HearMemberDeleted, MemberDeletionFails

FormAction ==
  \/ OpenMember \/ ChooseUnits \/ SubmitMember \/ HearWritten \/ WriteFails \/ HearMember \/ HearLinked
  \/ LinkFails \/ ServeLate \/ HearChecked \/ ReadFails \/ CloseMember

LEMMA FormTouches ==
  ASSUME FormAction
  PROVE  /\ UNCHANGED selectionVars
         /\ UNCHANGED directorySourceVars \/ Outdates \/ RefreshDirectory
  BY DEF FormAction, OpenMember, ChooseUnits, SubmitMember, HearWritten, WriteFails, HearMember, HearLinked,
         LinkFails, ServeLate, HearChecked, ReadFails, CloseMember, FormStep, WriteStep

LEMMA FormMoves ==
  ASSUME created \in Nat, ~unheard => FormIsExact, FormAction
  PROVE  created' \in Nat /\ (~unheard' => FormIsExact')
<1>1. CASE OpenMember \/ CloseMember
  BY <1>1 DEF OpenMember, CloseMember, FormIsExact
<1>2. CASE ChooseUnits \/ SubmitMember \/ ReadFails
  BY <1>2 DEF ChooseUnits, SubmitMember, ReadFails, FormIsExact
<1>3. CASE HearChecked
  BY <1>3 DEF HearChecked, FormIsExact
<1>4. CASE HearWritten
  BY <1>4 DEF HearWritten, ServerWrites, Remember, FormIsExact
<1>5. CASE WriteFails
  BY <1>5 DEF WriteFails, ServerWrites, FormIsExact
<1>6. CASE HearMember
  <2>1. /\ pending' = {[unit |-> u, linked |-> u \in chosen] : u \in (chosen \ links) \cup (links \ chosen)}
        /\ form' = IF pending' = {} THEN "done" ELSE "linking"
        /\ UNCHANGED <<saved, chosen, created, links, lateLinks, unheard>>
    BY <1>6 DEF HearMember
  <2>2. ASSUME NEW r \in pending' PROVE r.linked <=> r.unit \in chosen
    <3>1. PICK u : r = [unit |-> u, linked |-> u \in chosen]
      BY <2>1
    <3> QED
      BY <3>1
  <2>3. ASSUME NEW u, ~(u \in links <=> u \in chosen) PROVE \E r \in pending' : r.unit = u
    <3>1. PICK r : r = [unit |-> u, linked |-> u \in chosen]
      OBVIOUS
    <3>2. r \in pending' /\ r.unit = u
      BY <2>1, <2>3, <3>1
    <3> QED
      BY <3>2
  <2>4. \A u : (u \in links <=> u \in chosen) \/ \E r \in pending' : r.unit = u
    BY <2>3
  <2>5. pending' = {} => links = chosen
    BY <2>4
  <2> QED
    BY <2>1, <2>2, <2>4, <2>5 DEF FormIsExact, LeadsToChoice
<1>7. CASE HearLinked
  <2>1. PICK r \in pending :
          /\ form = "linking" /\ ServerLinks(r)
          /\ pending' = pending \ {r}
          /\ form' = IF pending' = {} THEN "checking" ELSE "linking"
          /\ UNCHANGED <<saved, chosen, created, lateLinks, unheard>>
    BY <1>7 DEF HearLinked
  <2>2. CASE unheard
    BY <2>1, <2>2
  <2>3. CASE ~unheard
    <3>1. FormIsExact /\ LeadsToChoice
      BY <2>1, <2>3 DEF FormIsExact
    <3>2. r.unit \in links' <=> r.unit \in chosen
      BY <2>1, <3>1 DEF ServerLinks, LeadsToChoice
    <3>3. \A u : u # r.unit => (u \in links' <=> u \in links)
      BY <2>1 DEF ServerLinks
    <3>4. \A u : (u \in links' <=> u \in chosen) \/ \E t \in pending' : t.unit = u
      BY <2>1, <3>1, <3>2, <3>3 DEF LeadsToChoice
    <3>5. LeadsToChoice'
      BY <2>1, <3>1, <3>4 DEF LeadsToChoice
    <3>6. pending' = {} => links' = chosen'
      <4>1. pending' = {} => \A u : u \in links' <=> u \in chosen
        BY <3>4
      <4>2. links' = links \cup {r.unit} \/ links' = links \ {r.unit}
        BY <2>1 DEF ServerLinks
      <4> QED
        BY <2>1, <4>1, <4>2
    <3> QED
      BY <2>1, <3>1, <3>5, <3>6 DEF FormIsExact
  <2> QED
    BY <2>2, <2>3
<1>8. CASE LinkFails
  <2>1. form' = "edited" /\ UNCHANGED <<saved, created>> /\ (~unheard' => ~unheard /\ lateLinks' = {})
    BY <1>8 DEF LinkFails
  <2> QED
    BY <2>1 DEF FormIsExact
<1>9. CASE ServeLate
  <2>1. lateLinks # {} /\ UNCHANGED <<created, unheard>>
    BY <1>9 DEF ServeLate
  <2> QED
    BY <2>1 DEF FormIsExact
<1> QED
  BY <1>1, <1>2, <1>3, <1>4, <1>5, <1>6, <1>7, <1>8, <1>9 DEF FormAction

\* Only a write leaves the list behind; a load that begins makes up for it.
LEMMA LoadsCatchUp ==
  ASSUME LoadIsPaired
  PROVE  /\ UNCHANGED directorySourceVars => Behind' = Behind
         /\ RefreshDirectory /\ MayRefresh => ~Behind'
         /\ UserRefreshes \/ RetryUnits \/ RetryEnds \/ UnitsEnd \/ MembersArrive \/ MembersFail =>
              (Behind' => Behind) /\ UNCHANGED <<deletionVars, memberFormVars>>
<1>1. UNCHANGED directorySourceVars => Behind' = Behind
  BY DEF Behind, directorySourceVars
<1>2. LoadDirectory => ~Behind'
  BY DEF Behind, LoadDirectory
<1>3. ASSUME UserRefreshes \/ RetryUnits \/ RetryEnds \/ UnitsEnd \/ MembersArrive \/ MembersFail
      PROVE  Behind' => Behind
  <2>1. CASE UserRefreshes
    BY <1>2, <2>1 DEF UserRefreshes
  <2>2. CASE RetryUnits \/ RetryEnds
    BY <2>2 DEF RetryUnits, RetryEnds, Behind
  <2>3. CASE UnitsEnd
    BY <2>3 DEF UnitsEnd, Complete, Behind, LoadIsPaired
  <2>4. CASE MembersArrive
    BY <2>4 DEF MembersArrive, Complete, Behind, LoadIsPaired
  <2>5. CASE MembersFail
    BY <2>5 DEF MembersFail, Behind
  <2> QED
    BY <1>3, <2>1, <2>2, <2>3, <2>4, <2>5
<1>4. UserRefreshes \/ RetryUnits \/ RetryEnds \/ UnitsEnd \/ MembersArrive \/ MembersFail =>
        UNCHANGED <<deletionVars, memberFormVars>>
  BY DEF UserRefreshes, RetryUnits, RetryEnds, UnitsEnd, MembersArrive, MembersFail, SourceStep
<1> QED
  BY <1>1, <1>2, <1>3, <1>4 DEF RefreshDirectory

LEMMA WritesStep ==
  ASSUME DirectoryIInv, MemberNext \/ UNCHANGED memberVars
  PROVE  FormHasWritten' /\ LoadIsOwed'
<1> USE DEF DirectoryIInv
<1>1. CASE UNCHANGED directorySourceVars /\ UNCHANGED <<deletionVars, memberFormVars>>
  BY <1>1, LoadsCatchUp DEF FormHasWritten, LoadIsOwed, deletionVars, memberFormVars
<1>2. CASE SetDirectoryView \/ SelectTarget \/ Search \/ CloseDetails \/ NavigationEnds \/ Travel
  <2>1. UNCHANGED <<directorySourceVars, deletionVars, memberFormVars>>
    BY <1>2 DEF SetDirectoryView, SelectTarget, Search, CloseDetails, NavigationEnds, Travel, Show
  <2> QED
    BY <1>1, <2>1
<1>3. CASE UserRefreshes \/ RetryUnits \/ RetryEnds \/ UnitsEnd \/ MembersArrive \/ MembersFail
  BY <1>3, LoadsCatchUp DEF FormHasWritten, LoadIsOwed, deletionVars, memberFormVars
<1>4. CASE AskToDeleteMember \/ AnswerDeletion \/ ServerDeletesMember \/ HearMemberDeleted \/ MemberDeletionFails
  <2>1. FormHasWritten'
    BY <1>4, DeletionStep DEF FormHasWritten, memberFormVars
  <2>2. UNCHANGED <<form, persisted, unheard>>
    BY <1>4, DeletionStep DEF memberFormVars
  <2>3. CASE AskToDeleteMember \/ AnswerDeletion \/ MemberDeletionFails
    <3>1. (~unshown' => ~unshown) /\ (Behind' => Behind) /\ (deletion = "deleted" => deletion' = "deleted" \/ unshown')
      <4>1. UNCHANGED directorySourceVars
        BY <2>3 DEF AskToDeleteMember, AnswerDeletion, MemberDeletionFails
      <4>2. CASE AskToDeleteMember \/ AnswerDeletion
        BY <4>1, <4>2, LoadsCatchUp DEF AskToDeleteMember, AnswerDeletion
      <4>3. CASE MemberDeletionFails
        <5>1. Behind' = Behind
          BY <4>1, LoadsCatchUp
        <5>2. unshown' = (unshown \/ deletion = "deleted")
          BY <4>3 DEF MemberDeletionFails
        <5>3. ~unshown' => ~unshown /\ deletion # "deleted"
          BY <5>2
        <5> QED
          BY <5>1, <5>3
      <4> QED
        BY <2>3, <4>2, <4>3
    <3> QED
      BY <2>1, <2>2, <3>1 DEF LoadIsOwed
  <2>4. CASE ServerDeletesMember
    BY <2>1, <2>4 DEF ServerDeletesMember, LoadIsOwed
  <2>5. CASE HearMemberDeleted
    <3>1. ~unshown' => MayRefresh
      BY <2>5 DEF HearMemberDeleted
    <3>2. ~unshown' => ~Behind'
      BY <2>5, <3>1, LoadsCatchUp DEF HearMemberDeleted
    <3> QED
      BY <2>1, <3>2 DEF LoadIsOwed
  <2> QED
    BY <1>4, <2>1, <2>3, <2>4, <2>5
<1>5. CASE FormAction
  <2>1. CASE OpenMember
    <3>1. UNCHANGED directorySourceVars /\ UNCHANGED deletionVars /\ form = "closed" /\ deletion = "none"
      BY <2>1 DEF OpenMember, FormStep, Free
    <3> QED
      BY <2>1, <3>1, LoadsCatchUp DEF OpenMember, FormHasWritten, LoadIsOwed, deletionVars
  <2>2. CASE ChooseUnits \/ SubmitMember \/ HearMember \/ HearChecked \/ ReadFails
    BY <2>2, LoadsCatchUp DEF ChooseUnits, SubmitMember, HearMember, HearChecked, ReadFails, FormStep,
                              FormHasWritten, LoadIsOwed, deletionVars
  <2>3. CASE HearWritten
    BY <2>3 DEF HearWritten, WriteStep, Remember, FormHasWritten, LoadIsOwed, deletionVars
  <2>4. CASE WriteFails
    BY <2>4, LoadsCatchUp DEF WriteFails, FormStep, WriteStep, FormHasWritten, LoadIsOwed, deletionVars
  <2>5. CASE HearLinked
    BY <2>5 DEF HearLinked, WriteStep, FormHasWritten, LoadIsOwed, deletionVars
  <2>6. CASE LinkFails
    <3>1. /\ form = "linking" /\ form' = "edited"
          /\ UNCHANGED <<directorySourceVars, deletion, unshown, persisted>>
          /\ (unheard => unheard') /\ (lateLinks' # {} => unheard')
      BY <2>6 DEF LinkFails, FormStep, deletionVars
    <3> QED
      BY <3>1, LoadsCatchUp DEF FormHasWritten, LoadIsOwed
  <2>7. CASE ServeLate
    BY <2>7 DEF ServeLate, WriteStep, FormHasWritten, LoadIsOwed, deletionVars
  <2>8. CASE CloseMember
    <3>1. /\ form' = "closed" /\ lateLinks' = {} /\ UNCHANGED deletion
          /\ IF HasWritten THEN RefreshDirectory ELSE UNCHANGED directorySourceVars
      BY <2>8 DEF CloseMember
    <3>2. ~unshown' => ~unshown /\ ~unheard /\ (HasWritten => MayRefresh)
      BY <2>8 DEF CloseMember
    <3>3. ~HasWritten => ~persisted
      BY DEF HasWritten
    <3>4. ~unshown' /\ Behind' => Behind /\ ~HasWritten
      BY <3>1, <3>2, LoadsCatchUp
    <3> QED
      BY <3>1, <3>2, <3>3, <3>4 DEF FormHasWritten, LoadIsOwed
  <2> QED
    BY <1>5, <2>1, <2>2, <2>3, <2>4, <2>5, <2>6, <2>7, <2>8 DEF FormAction
<1>6. CASE UNCHANGED memberVars
  BY <1>1, <1>6 DEF memberVars
<1> QED
  BY <1>2, <1>3, <1>4, <1>5, <1>6 DEF MemberNext, FormAction

LEMMA DirectoryStep ==
  ASSUME DirectoryIInv, MemberNext \/ UNCHANGED memberVars
  PROVE  DirectoryIInv'
<1>w. FormHasWritten' /\ LoadIsOwed'
  BY WritesStep
<1> USE <1>w DEF DirectoryIInv
<1>1. CASE SetDirectoryView \/ SelectTarget \/ Search \/ CloseDetails \/ NavigationEnds \/ Travel
  BY <1>1, SelectionStep, LoadRests, FormRests
<1>2. CASE UserRefreshes \/ RetryUnits \/ RetryEnds \/ UnitsEnd \/ MembersArrive \/ MembersFail
  BY <1>2, SelectionRests, LoadStep, FormRests
<1>3. CASE AskToDeleteMember \/ AnswerDeletion \/ ServerDeletesMember \/ HearMemberDeleted \/ MemberDeletionFails
  BY <1>3, DeletionStep, SelectionRests, LoadRests, FormRests
<1>4. CASE FormAction
  BY <1>4, FormTouches, SelectionRests, LoadRests, FormMoves
<1>5. CASE UNCHANGED memberVars
  BY <1>5, SelectionRests, LoadRests, FormRests DEF memberVars
<1> QED
  BY <1>1, <1>2, <1>3, <1>4, <1>5 DEF MemberNext, FormAction

------------------------------------------------------------------------------
(* The list of accounts *)

\* Every load under way was asked with the filter of the page.
AskedAsFiltered == UsersMatchFilter /\ \A r \in usersAsked : r.filter = filter

LEMMA FilterStarts == AccountInit => AskedAsFiltered
  BY DEF AccountInit, AskedAsFiltered, UsersMatchFilter, NewUsersLoad

LEMMA FilterStep ==
  ASSUME AskedAsFiltered, AccountNext \/ UNCHANGED accountVars
  PROVE  AskedAsFiltered'
<1> USE DEF AskedAsFiltered, UsersMatchFilter
<1>1. CASE LoadUsers(filter')
  BY <1>1 DEF LoadUsers, NewUsersLoad
<1>2. CASE UNCHANGED <<filter, usersAsked, usersLoading, usersError, usersShown>>
  BY <1>2
<1>3. CASE ServerListsUsers
  BY <1>3 DEF ServerListsUsers
<1>4. CASE HearUsers \/ UsersFail
  BY <1>4 DEF HearUsers, UsersFail
<1>5. CASE FilterUsers
  BY <1>1, <1>5 DEF FilterUsers
<1> QED
  BY <1>1, <1>2, <1>3, <1>4, <1>5
     DEF AccountNext, accountVars, Decide, HearAccount, AccountFails, Confirm, Renounce, Update, UpdateRefused,
         EditRights, SubmitRights, SaveRights, RightsRefused, CancelRights, OthersDecide, DecisionStep, RightsStep

------------------------------------------------------------------------------
(* What the pages know *)

\* Of an account that was read earlier: a version is never given to another state.
Snapshot(a) ==
  /\ a.version \in Nat /\ a.version <= account.version
  /\ a.version = account.version => a = account

Listed(r) == \A row \in r.found : Snapshot(row)

Decided(d) == d = [stage |-> d.stage, decision |-> d.decision, account |-> d.account] /\ Snapshot(d.account)

Edited(r) == r = [account |-> r.account, saving |-> r.saving] /\ Snapshot(r.account)

\* What the page of accounts holds was read, and there is one form at the most.
AccountsKnown ==
  /\ account = [state |-> account.state, version |-> account.version] /\ account.version \in Nat
  /\ \A r \in usersAsked : r.rows = "read" => Listed(r)
  /\ \A r \in usersShown : Listed(r)
  /\ decision.stage \in {"asking", "updating"} => Decided(decision)
  /\ \A r \in rightsForm : Edited(r)
  /\ \A r, t \in rightsForm : r = t

PreviewRow(p) == p = [current |-> p.current, message |-> p.message, recipients |-> p.recipients]

\* A preview that is current is one of the form as it is.
PreviewsCurrent ==
  /\ recipientsAsked # {} => ~ready
  /\ \A p \in previewing \cup previewed :
       PreviewRow(p) /\ (p.current => ready /\ p.message = message /\ p.recipients = Recipients)

------------------------------------------------------------------------------
(* The e-mails of a budget *)

\* A new revision, or no preview at all.
LEMMA OutdatedPreviews ==
  ASSUME PreviewsCurrent, recipientsAsked' # {} => ~ready',
         NewRevision \/ (previewing' = {} /\ previewed' = {})
  PROVE  PreviewsCurrent'
<1>1. CASE NewRevision
  <2>1. \A p \in previewing' \cup previewed' : PreviewRow(p) /\ p.current = FALSE
    <3>1. \A p \in previewing \cup previewed : PreviewRow(p)
      BY DEF PreviewsCurrent
    <3> QED
      BY <1>1, <3>1 DEF NewRevision, PreviewRow
  <2> QED
    BY <2>1 DEF PreviewsCurrent, PreviewRow
<1>2. CASE previewing' = {} /\ previewed' = {}
  BY <1>2 DEF PreviewsCurrent
<1> QED
  BY <1>1, <1>2

\* A step that shows no other message and no other recipients.
LEMMA PreviewsKept ==
  ASSUME PreviewsCurrent, UNCHANGED <<held, ready, message>>, recipientsAsked' # {} => ~ready',
         previewing' \cup previewed' \subseteq previewing \cup previewed
  PROVE  PreviewsCurrent'
  BY DEF PreviewsCurrent, PreviewRow, Recipients

LEMMA EmailStep == ASSUME PreviewsCurrent, EmailFormNext PROVE PreviewsCurrent'
<1>1. CASE LoadRecipients
  BY <1>1, OutdatedPreviews DEF LoadRecipients, LoadAnew
<1>2. CASE ServerLists
  <2>1. ready = FALSE \/ ~ready
    BY <1>2 DEF ServerLists, PreviewsCurrent
  <2> QED
    BY <1>2, PreviewsKept DEF ServerLists, PreviewsCurrent
<1>3. CASE HearRecipients
  <2>1. recipientsAsked # {} /\ recipientsAsked' = {} /\ UNCHANGED <<previewing, previewed>>
    BY <1>3 DEF HearRecipients
  <2>2. \A p \in previewing \cup previewed : PreviewRow(p) /\ ~p.current
    BY <2>1 DEF PreviewsCurrent
  <2> QED
    BY <2>1, <2>2 DEF PreviewsCurrent, PreviewRow
<1>4. CASE RecipientsFail \/ Prepare \/ PrepareFails \/ Pay
  <2>1. UNCHANGED <<held, ready, message, previewing, previewed>>
    BY <1>4 DEF RecipientsFail, Prepare, PrepareFails, Pay
  <2>2. recipientsAsked' = recipientsAsked \/ recipientsAsked' = {}
    BY <1>4 DEF RecipientsFail, Prepare, PrepareFails, Pay
  <2>3. recipientsAsked' # {} => ~ready'
    BY <2>1, <2>2 DEF PreviewsCurrent
  <2> QED
    BY <2>1, <2>3, PreviewsKept
<1>5. CASE EditMessage
  <2>1. recipientsAsked' = recipientsAsked /\ ready' = ready
    BY <1>5 DEF EditMessage
  <2>2. recipientsAsked' # {} => ~ready'
    BY <2>1 DEF PreviewsCurrent
  <2> QED
    BY <1>5, <2>2, OutdatedPreviews DEF EditMessage
<1>6. CASE PreviewMessage
  <2>1. PICK p : p = [current |-> TRUE, message |-> message, recipients |-> Recipients]
    OBVIOUS
  <2>2. /\ ready /\ UNCHANGED <<held, ready, message, recipientsAsked>>
        /\ previewing' = {p} /\ previewed' = {[q EXCEPT !.current = FALSE] : q \in previewed}
    BY <1>6, <2>1 DEF PreviewMessage, CanPreview
  <2>3. Recipients' = Recipients
    BY <2>2 DEF Recipients
  <2>4. \A q \in previewed' : PreviewRow(q) /\ ~q.current
    <3>1. \A q \in previewed : PreviewRow(q)
      BY DEF PreviewsCurrent
    <3> QED
      BY <2>2, <3>1 DEF PreviewRow
  <2>5. PreviewRow(p) /\ p.message = message' /\ p.recipients = Recipients'
    BY <2>1, <2>2, <2>3 DEF PreviewRow
  <2>6. recipientsAsked' # {} => ~ready'
    BY <2>2 DEF PreviewsCurrent
  <2>7. \A q \in previewing' \cup previewed' :
          PreviewRow(q) /\ (q.current => ready' /\ q.message = message' /\ q.recipients = Recipients')
    BY <2>2, <2>4, <2>5
  <2> QED
    BY <2>6, <2>7 DEF PreviewsCurrent, PreviewRow
<1>7. CASE HearMessage
  <2>1. UNCHANGED <<held, ready, message, recipientsAsked>>
    BY <1>7 DEF HearMessage
  <2>2. previewing' \cup previewed' \subseteq previewing \cup previewed
    BY <1>7 DEF HearMessage, Shown
  <2>3. recipientsAsked' # {} => ~ready'
    BY <2>1 DEF PreviewsCurrent
  <2> QED
    BY <2>1, <2>2, <2>3, PreviewsKept
<1>8. CASE Reopen
  <2>1. previewing' = {} /\ previewed' = {} /\ ready' = FALSE
    BY <1>8 DEF Reopen
  <2> QED
    BY <2>1, OutdatedPreviews
<1> QED
  BY <1>1, <1>2, <1>3, <1>4, <1>5, <1>6, <1>7, <1>8 DEF EmailFormNext

LEMMA EmailPrepares ==
  ASSUME PreviewsCurrent, EmailFormNext \/ UNCHANGED emailFormVars
  PROVE  PreparedAsPreviewed
<1>1. CASE Prepare
  <2>1. PICK p \in previewed : p.current
    BY <1>1 DEF Prepare, CanPrepare
  <2>2. p.message = message /\ p.recipients = Recipients
    BY <2>1 DEF PreviewsCurrent
  <2>3. \A r \in creating' : r.message = message /\ r.recipients = Recipients
    BY <1>1 DEF Prepare
  <2> QED
    BY <2>2, <2>3 DEF PreparedAsPreviewed
<1>2. CASE ~Prepare
  <2>1. creating' = creating \/ creating' = {}
    BY <1>2 DEF EmailFormNext, emailFormVars, LoadRecipients, ServerLists, HearRecipients, RecipientsFail,
                EditMessage, PreviewMessage, HearMessage, PrepareFails, Reopen, Pay
  <2> QED
    BY <2>1 DEF PreparedAsPreviewed
<1> QED
  BY <1>1, <1>2

------------------------------------------------------------------------------
(* The accounts *)

\* What was read before a write was read before the present version.
LEMMA SnapshotsLast ==
  ASSUME account.version \in Nat,
         account' = account \/ account'.version = account.version + 1,
         NEW a, Snapshot(a)
  PROVE  /\ a.version \in Nat /\ a.version <= account'.version
         /\ a.version = account'.version => a = account'
  BY DEF Snapshot

\* A step that reads nothing new, and decides on nothing new.
LEMMA KnownLasts ==
  ASSUME AccountsKnown, account' = [state |-> account'.state, version |-> account'.version],
         account' = account \/ account'.version = account.version + 1,
         \A r \in usersAsked' : r \in usersAsked \/ r.rows = "unread",
         usersShown' \subseteq usersShown,
         decision' = decision \/ decision' = NoDecision \/ decision'.stage = "reading",
         rightsForm' \subseteq rightsForm
  PROVE  AccountsKnown'
<1> DEFINE Last(a) == /\ a.version \in Nat /\ a.version <= account'.version
                      /\ a.version = account'.version => a = account'
<1>1. \A a : Snapshot(a) => Last(a)
  BY SnapshotsLast DEF AccountsKnown
<1>2. account'.version \in Nat
  BY DEF AccountsKnown
<1>3. \A r \in usersAsked' : r.rows = "read" => \A row \in r.found : Last(row)
  BY <1>1 DEF AccountsKnown, Listed
<1>4. \A r \in usersShown' : \A row \in r.found : Last(row)
  BY <1>1 DEF AccountsKnown, Listed
<1>5. decision'.stage \in {"asking", "updating"} =>
        /\ decision' = [stage |-> decision'.stage, decision |-> decision'.decision, account |-> decision'.account]
        /\ Last(decision'.account)
  BY <1>1 DEF AccountsKnown, Decided, NoDecision
<1>6. \A r \in rightsForm' : r = [account |-> r.account, saving |-> r.saving] /\ Last(r.account)
  BY <1>1 DEF AccountsKnown, Edited
<1>7. \A r, t \in rightsForm' : r = t
  BY DEF AccountsKnown
<1> QED
  BY <1>2, <1>3, <1>4, <1>5, <1>6, <1>7 DEF AccountsKnown, Listed, Decided, Edited, Snapshot

LEMMA ListStep ==
  ASSUME AccountsKnown,
         \/ FilterUsers \/ ServerListsUsers \/ HearUsers \/ UsersFail \/ OthersDecide
         \/ UNCHANGED accountVars
  PROVE  AccountsKnown'
<1> USE DEF accountVars
<1>1. CASE FilterUsers \/ UsersFail \/ UNCHANGED accountVars
  <2>1. /\ account' = account /\ usersShown' \subseteq usersShown /\ rightsForm' \subseteq rightsForm
        /\ decision' = decision \/ decision' = NoDecision
    BY <1>1 DEF FilterUsers, UsersFail
  <2>2. \A r \in usersAsked' : r \in usersAsked \/ r.rows = "unread"
    BY <1>1 DEF FilterUsers, LoadUsers, NewUsersLoad, UsersFail
  <2>3. account' = [state |-> account'.state, version |-> account'.version]
    BY <2>1 DEF AccountsKnown
  <2> QED
    BY <2>1, <2>2, <2>3, KnownLasts
<1>2. CASE OthersDecide
  <2>1. PICK t \in AccessStates :
          /\ account' = [state |-> t, version |-> account.version + 1]
          /\ UNCHANGED <<usersAsked, usersShown, decision, rightsForm>>
    BY <1>2 DEF OthersDecide
  <2>2. account'.version = account.version + 1 /\ account'.state = t
    BY <2>1
  <2>3. account' = [state |-> account'.state, version |-> account'.version]
    BY <2>1, <2>2
  <2> QED
    BY <2>1, <2>2, <2>3, KnownLasts
<1>3. CASE ServerListsUsers
  <2>1. PICK r \in usersAsked :
          /\ usersAsked' = (usersAsked \ {r}) \cup {[filter |-> r.filter, rows |-> "read", found |-> Visible(r.filter)]}
          /\ UNCHANGED <<account, usersShown, decision, rightsForm>>
    BY <1>3 DEF ServerListsUsers
  <2>2. PICK n : n = [filter |-> r.filter, rows |-> "read", found |-> Visible(r.filter)]
    OBVIOUS
  <2>3. usersAsked' = (usersAsked \ {r}) \cup {n} /\ n.found \subseteq {account}
    BY <2>1, <2>2 DEF Visible
  <2> QED
    BY <2>1, <2>3 DEF AccountsKnown, Listed, Snapshot, Decided, Edited
<1>4. CASE HearUsers
  <2>1. PICK r \in usersAsked :
          /\ r.rows = "read" /\ usersAsked' = usersAsked \ {r}
          /\ usersShown' = {[filter |-> r.filter, found |-> r.found]}
          /\ UNCHANGED <<account, decision, rightsForm>>
    BY <1>4 DEF HearUsers
  <2>2. Listed(r) /\ \A t \in usersShown' : t.found = r.found
    BY <2>1 DEF AccountsKnown
  <2> QED
    BY <2>1, <2>2 DEF AccountsKnown, Listed, Snapshot, Decided, Edited
<1> QED
  BY <1>1, <1>2, <1>3, <1>4

LEMMA DecisionKeepsKnown ==
  ASSUME AccountsKnown,
         Decide \/ HearAccount \/ AccountFails \/ Confirm \/ Renounce \/ Update \/ UpdateRefused
  PROVE  AccountsKnown'
<1>1. usersShown' = usersShown /\ rightsForm' = rightsForm
  BY DEF Decide, HearAccount, AccountFails, Confirm, Renounce, Update, UpdateRefused, DecisionStep
<1>2. \A r \in usersAsked' : r \in usersAsked \/ r.rows = "unread"
  BY DEF Decide, HearAccount, AccountFails, Confirm, Renounce, Update, UpdateRefused, DecisionStep,
         LoadUsers, NewUsersLoad
<1>3. CASE Decide \/ AccountFails \/ Renounce \/ UpdateRefused
  <2>1. account' = account
    BY <1>3 DEF Decide, AccountFails, Renounce, UpdateRefused, DecisionStep
  <2>2. decision' = NoDecision \/ decision'.stage = "reading"
    BY <1>3 DEF Decide, AccountFails, Renounce, UpdateRefused, DecisionStep
  <2>3. account' = [state |-> account'.state, version |-> account'.version]
    BY <2>1 DEF AccountsKnown
  <2> QED
    BY <1>1, <1>2, <2>1, <2>2, <2>3, KnownLasts
<1>4. CASE HearAccount
  <2>1. account' = account
    BY <1>4 DEF HearAccount, DecisionStep
  <2>2. CASE decision' = NoDecision
    BY <1>1, <1>2, <2>1, <2>2, KnownLasts DEF AccountsKnown
  <2>3. CASE decision' = [stage |-> "asking", decision |-> decision.decision, account |-> account]
    <3>1. decision'.account = account /\ decision'.decision = decision.decision /\ decision'.stage = "asking"
      BY <2>3
    <3>2. usersAsked' = usersAsked \/ \A r \in usersAsked' : r.rows = "unread"
      BY <1>4 DEF HearAccount, DecisionStep, LoadUsers, NewUsersLoad
    <3> QED
      BY <1>1, <2>1, <2>3, <3>1, <3>2 DEF AccountsKnown, Listed, Snapshot, Decided, Edited
  <2> QED
    BY <1>4, <2>2, <2>3 DEF HearAccount, DecisionStep
<1>5. CASE Confirm
  <2>1. Decided(decision) /\ decision' = [decision EXCEPT !.stage = "updating"] /\ UNCHANGED <<account, usersAsked>>
    BY <1>5 DEF Confirm, DecisionStep, AccountsKnown
  <2>2. decision' = [stage |-> "updating", decision |-> decision.decision, account |-> decision.account]
    BY <2>1 DEF Decided
  <2>3. decision'.account = decision.account /\ decision'.decision = decision.decision /\ decision'.stage = "updating"
    BY <2>2
  <2> QED
    BY <1>1, <2>1, <2>2, <2>3 DEF AccountsKnown, Listed, Snapshot, Decided, Edited
<1>6. CASE Update
  <2>1. /\ account' = [state |-> Outcome(decision.decision), version |-> account.version + 1]
        /\ decision' = NoDecision
    BY <1>6 DEF Update
  <2>2. account'.version = account.version + 1 /\ account'.state = Outcome(decision.decision)
    BY <2>1
  <2>3. account' = [state |-> account'.state, version |-> account'.version]
    BY <2>1, <2>2
  <2> QED
    BY <1>1, <1>2, <2>1, <2>2, <2>3, KnownLasts
<1> QED
  BY <1>3, <1>4, <1>5, <1>6

LEMMA RightsKeepKnown ==
  ASSUME AccountsKnown, EditRights \/ SubmitRights \/ SaveRights \/ RightsRefused \/ CancelRights
  PROVE  AccountsKnown'
<1>1. UNCHANGED <<usersShown, decision>>
  BY DEF EditRights, SubmitRights, SaveRights, RightsRefused, CancelRights, RightsStep
<1>2. \A r \in usersAsked' : r \in usersAsked \/ r.rows = "unread"
  BY DEF EditRights, SubmitRights, SaveRights, RightsRefused, CancelRights, RightsStep, LoadUsers, NewUsersLoad
<1>3. CASE EditRights
  <2>1. PICK s \in usersShown : \E row \in s.found : rightsForm' = {[account |-> row, saving |-> FALSE]}
    BY <1>3 DEF EditRights
  <2>2. PICK row \in s.found : rightsForm' = {[account |-> row, saving |-> FALSE]}
    BY <2>1
  <2>3. Snapshot(row) /\ UNCHANGED <<account, usersAsked>>
    BY <1>3 DEF EditRights, AccountsKnown, Listed
  <2> QED
    BY <1>1, <2>2, <2>3 DEF AccountsKnown, Listed, Snapshot, Decided, Edited
<1>4. CASE SubmitRights \/ RightsRefused
  <2>1. PICK r \in rightsForm, b \in BOOLEAN : rightsForm' = {[r EXCEPT !.saving = b]}
    BY <1>4 DEF SubmitRights, RightsRefused, RightsStep
  <2>2. UNCHANGED <<account, usersAsked>>
    BY <1>4 DEF SubmitRights, RightsRefused, RightsStep
  <2>3. rightsForm' = {[account |-> r.account, saving |-> b]}
    BY <2>1 DEF AccountsKnown, Edited
  <2>4. Snapshot(r.account)
    BY DEF AccountsKnown, Edited
  <2> QED
    BY <1>1, <2>2, <2>3, <2>4 DEF AccountsKnown, Listed, Snapshot, Decided, Edited
<1>5. CASE CancelRights
  <2>1. rightsForm' = {} /\ account' = account
    BY <1>5 DEF CancelRights
  <2> QED
    BY <1>1, <1>2, <2>1, KnownLasts DEF AccountsKnown
<1>6. CASE SaveRights
  <2>1. account' = [account EXCEPT !.version = @ + 1]
    BY <1>6 DEF SaveRights
  <2>2. account' = [state |-> account.state, version |-> account.version + 1]
    BY <2>1 DEF AccountsKnown
  <2>3. account'.version = account.version + 1 /\ account'.state = account.state
    BY <2>2
  <2>4. account' = [state |-> account'.state, version |-> account'.version]
    BY <2>2, <2>3
  <2>5. CASE rightsForm' = {}
    BY <1>1, <1>2, <2>3, <2>4, <2>5, KnownLasts
  <2>6. CASE rightsForm' # {}
    <3>1. PICK r \in rightsForm : rightsForm' = {[r EXCEPT !.saving = FALSE]} /\ usersAsked' = usersAsked
      BY <1>6, <2>6 DEF SaveRights
    <3>2. rightsForm' = {[account |-> r.account, saving |-> FALSE]} /\ Snapshot(r.account)
      BY <3>1 DEF AccountsKnown, Edited
    <3>3. /\ r.account.version \in Nat /\ r.account.version <= account'.version
          /\ r.account.version = account'.version => r.account = account'
      BY <2>3, <3>2, SnapshotsLast DEF AccountsKnown
    <3>4. \A a : Snapshot(a) => /\ a.version \in Nat /\ a.version <= account'.version
                                /\ a.version = account'.version => a = account'
      BY <2>3, SnapshotsLast DEF AccountsKnown
    <3>5. \A f \in usersAsked' : f.rows = "read" =>
            \A row \in f.found : /\ row.version \in Nat /\ row.version <= account'.version
                                 /\ row.version = account'.version => row = account'
      BY <3>1, <3>4 DEF AccountsKnown, Listed
    <3>6. \A f \in usersShown' :
            \A row \in f.found : /\ row.version \in Nat /\ row.version <= account'.version
                                 /\ row.version = account'.version => row = account'
      BY <1>1, <3>4 DEF AccountsKnown, Listed
    <3>7. decision'.stage \in {"asking", "updating"} =>
            /\ decision' = [stage |-> decision'.stage, decision |-> decision'.decision, account |-> decision'.account]
            /\ decision'.account.version \in Nat /\ decision'.account.version <= account'.version
            /\ decision'.account.version = account'.version => decision'.account = account'
      BY <1>1, <3>4 DEF AccountsKnown, Decided
    <3>8. /\ \A f \in rightsForm' : /\ f = [account |-> f.account, saving |-> f.saving]
                                    /\ f.account = r.account
          /\ \A f, t \in rightsForm' : f = t
      BY <3>2
    <3>9. account'.version \in Nat
      BY <2>3 DEF AccountsKnown
    <3> QED
      BY <2>4, <3>3, <3>5, <3>6, <3>7, <3>8, <3>9 DEF AccountsKnown, Listed, Snapshot, Decided, Edited
  <2> QED
    BY <2>5, <2>6
<1> QED
  BY <1>3, <1>4, <1>5, <1>6

LEMMA AccountStep ==
  ASSUME AccountsKnown, AccountNext \/ UNCHANGED accountVars
  PROVE  AccountsKnown'
  BY ListStep, DecisionKeepsKnown, RightsKeepKnown DEF AccountNext

\* The version that is compared tells that nothing was written since.
LEMMA AccountDecides ==
  ASSUME AccountsKnown, AccountNext \/ UNCHANGED accountVars
  PROVE  DecidedAsShown
<1> USE DEF accountVars
<1>1. CASE Update
  <2>1. decision.account = account /\ rightsForm' = rightsForm
    BY <1>1 DEF Update, SameVersion, AccountsKnown, Decided, Snapshot
  <2> QED
    BY <2>1 DEF DecidedAsShown
<1>2. CASE SaveRights
  <2>1. PICK r \in rightsForm : r.saving /\ SameVersion(r.account) /\ decision' = decision
    BY <1>2 DEF SaveRights
  <2>2. r.account = account /\ \A t \in rightsForm : t = r
    BY <2>1 DEF SameVersion, AccountsKnown, Edited, Snapshot
  <2>3. decision.stage = "updating" => decision' # NoDecision
    BY <2>1 DEF NoDecision
  <2> QED
    BY <2>2, <2>3 DEF DecidedAsShown
<1>3. CASE OthersDecide
  <2>1. decision' = decision /\ rightsForm' = rightsForm
    BY <1>3 DEF OthersDecide
  <2> QED
    BY <2>1 DEF DecidedAsShown, NoDecision
<1>4. CASE \/ FilterUsers \/ ServerListsUsers \/ HearUsers \/ UsersFail
           \/ Decide \/ HearAccount \/ AccountFails \/ Confirm \/ Renounce \/ UpdateRefused
           \/ EditRights \/ SubmitRights \/ RightsRefused \/ CancelRights
           \/ UNCHANGED accountVars
  <2>1. account' = account
    BY <1>4 DEF FilterUsers, ServerListsUsers, HearUsers, UsersFail, Decide, HearAccount, AccountFails,
                Confirm, Renounce, UpdateRefused, EditRights, SubmitRights, RightsRefused, CancelRights,
                DecisionStep, RightsStep
  <2> QED
    BY <2>1 DEF DecidedAsShown
<1> QED
  BY <1>1, <1>2, <1>3, <1>4 DEF AccountNext

------------------------------------------------------------------------------
(* The pages *)

LEMMA OfficeSignsIn == Spec => SignInSpec
<1>1. Init => SignInInit
  BY DEF Init
<1>2. [Next]_vars => [SignInNext]_signInVars
  BY DEF Next, vars, OnMembers, OnMailings, OnEmails, OnUsers, OnTour, OnLogin
<1> QED
  BY <1>1, <1>2, PTL DEF Spec, SignInSpec

LEMMA OfficeMails == Spec => MailingSpec
<1>1. Init => MailingInit
  BY DEF Init
<1>2. [Next]_vars => [MailingNext]_mailingVars
  BY DEF Next, vars, OnMembers, OnMailings, OnEmails, OnUsers, OnTour, OnLogin
<1> QED
  BY <1>1, <1>2, PTL DEF Spec, MailingSpec

LEMMA OfficeTours == Spec => TourSpec
<1>1. Init => TourInit
  BY DEF Init
<1>2. [Next]_vars => [TourNext]_tourVars
  BY DEF Next, vars, OnMembers, OnMailings, OnEmails, OnUsers, OnTour, OnLogin
<1> QED
  BY <1>1, <1>2, PTL DEF Spec, TourSpec

\* An attempt opens one session at the most, a subject leads to one account and accounts are
\* never joined by their address, for any number of requests (oidc_login.go, identity.go).
THEOREM OfficeSignInIsSound == Spec => []SignInIsSound
  BY OfficeSignsIn, SignInStaysSound

\* A synchronization that is announced as verified is one, for any lists and addresses
\* (mailings.go), in the application as on its page.
THEOREM OfficeVerifiedIsTrue == Spec => []VerifiedIsTrue
  BY OfficeMails, VerifiedStaysTrue

\* The guided tour belongs to the user it is shown to, and a visit that is finished has left
\* every chapter seen on the server (tour.component.ts, tour.go).
THEOREM OfficeTourIsCurrent == Spec => []TourIsCurrent
  BY OfficeTours, TourStaysCurrent

\* "La progression n'abaisse jamais une révision déjà acquise" (docs/visite-guidee.md:43), for
\* any chapters revised, any changes of rights and any tabs.
THEOREM OfficeKeepsProgress == Spec => ProgressIsKept
  BY OfficeTours, TourKeepsProgress

PagesIInv == DirectoryIInv /\ AskedAsFiltered

\* The directory agrees with its address, its source, its form and its writes
\* (member-list.component.ts, member.datasource.ts, member-form.component.ts), and the list of
\* accounts with its filter (user.datasource.ts), for any members, units, retries and attempts
\* to save.
THEOREM OfficePagesStayCoherent == Spec => []PagesAreCoherent
<1>1. Init => PagesIInv
  BY DirectoryStarts, FilterStarts DEF Init, PagesIInv
<1>2. ASSUME PagesIInv, [Next]_vars PROVE PagesIInv'
  <2>1. MemberNext \/ UNCHANGED memberVars
    BY <1>2 DEF Next, vars, OnMembers, OnMailings, OnEmails, OnUsers, OnTour, OnLogin
  <2>2. AccountNext \/ UNCHANGED accountVars
    BY <1>2 DEF Next, vars, OnMembers, OnMailings, OnEmails, OnUsers, OnTour, OnLogin
  <2> QED
    BY <1>2, <2>1, <2>2, DirectoryStep, FilterStep DEF PagesIInv
<1>3. PagesIInv => PagesAreCoherent
  BY DirectoryHolds DEF PagesIInv, PagesAreCoherent, AskedAsFiltered
<1> HIDE DEF PagesIInv, Next, vars, Init
<1> QED
  BY <1>1, <1>2, <1>3, PTL DEF Spec

------------------------------------------------------------------------------
(* What leaves a page *)

OfficeIInv == PreviewsCurrent /\ AccountsKnown /\ MailingIInv

LEMMA PageMoves ==
  ASSUME [Next]_vars
  PROVE  /\ EmailFormNext \/ UNCHANGED emailFormVars
         /\ AccountNext \/ UNCHANGED accountVars
         /\ [MailingNext]_mailingVars
  BY DEF Next, vars, OnMembers, OnMailings, OnEmails, OnUsers, OnTour, OnLogin

LEMMA OfficeStarts == Init => OfficeIInv
<1> SUFFICES ASSUME Init PROVE OfficeIInv
  OBVIOUS
<1>1. EmailFormInit /\ AccountInit /\ MailingInit
  BY DEF Init
<1>2. PreviewsCurrent
  BY <1>1 DEF EmailFormInit, PreviewsCurrent
<1>3. AccountsKnown
  BY <1>1 DEF AccountInit, AccountsKnown, NewUsersLoad, NoDecision
<1> QED
  BY <1>1, <1>2, <1>3, MailingStarts DEF OfficeIInv

LEMMA OfficeStep == ASSUME OfficeIInv, [Next]_vars PROVE OfficeIInv'
<1>1. MailingIInv'
  BY PageMoves, MailingStepKeeps DEF OfficeIInv
<1>2. CASE EmailFormNext
  BY <1>1, <1>2, PageMoves, EmailStep, AccountStep DEF OfficeIInv
<1>3. CASE UNCHANGED emailFormVars
  <2>1. PreviewsCurrent'
    BY <1>3, PreviewsKept DEF OfficeIInv, PreviewsCurrent, emailFormVars
  <2> QED
    BY <1>1, <2>1, PageMoves, AccountStep DEF OfficeIInv
<1> QED
  BY <1>2, <1>3, PageMoves

\* What leaves a page was shown there and confirmed, for any lists, addresses, members, values and
\* versions (mailings.component.ts, budget-email-form.component.ts, user-list.component.ts).
THEOREM OfficeActsAsConfirmed == Spec => ActsAsConfirmed
<1>1. ASSUME OfficeIInv, [Next]_vars PROVE CallsAreConfirmed /\ PreparedAsPreviewed /\ DecidedAsShown
  BY <1>1, PageMoves, StepCallsConfirmed, EmailPrepares, AccountDecides DEF OfficeIInv
<1> HIDE DEF CallsAreConfirmed, PreparedAsPreviewed, DecidedAsShown, vars, OfficeIInv
<1>2. ASSUME OfficeIInv, [Next]_vars PROVE [CallsAreConfirmed /\ PreparedAsPreviewed /\ DecidedAsShown]_vars
  BY <1>1, <1>2
<1> QED
  BY <1>2, OfficeStarts, OfficeStep, PTL DEF Spec, ActsAsConfirmed
==============================================================================
