---------------------------- MODULE EmailDelivery ----------------------------
(***************************************************************************)
(* Delivery of campaign e-mails: controllers/emails.go (SendEmail,         *)
(* sendClaimedEmail, MarkAsError, MarkAsRead, DeleteEmail), the SMTP       *)
(* exchange of pkg/smtp/smtp.go and the offline recovery script            *)
(* dev/recover-email.sql.                                                  *)
(*                                                                         *)
(* A worker is one run of sendClaimedEmail, in the request's goroutine     *)
(* (wait) or in one of its own; the workers of all the instances that      *)
(* share the database are in Workers.  Every UPDATE is one autocommit      *)
(* statement, atomic in PostgreSQL, so each is one action.  A message body *)
(* is the version of the template it was rendered from; version 0 is NULL. *)
(***************************************************************************)
EXTENDS Naturals

CONSTANTS
  Emails,      \* rows of table email
  Workers,     \* concurrent deliveries
  NoEmail,     \* the email of an idle worker
  MaxEdits     \* bound: template versions are 1..MaxEdits

ASSUME EmailDeliveryAssumption ==
  /\ NoEmail \notin Emails
  /\ MaxEdits \in Nat \ {0}

VARIABLES
  state,      \* email.state
  live,       \* email.deleted_at IS NULL
  content,    \* email.subject and email.message
  template,   \* the campaign's template, as a version number
  phase,      \* per worker: where it is in sendClaimedEmail
  email,      \* per worker: the email it delivers
  built,      \* per worker: the body it rendered
  outcome,    \* per worker: the state it will record
  accepted,   \* observation: copies the SMTP server accepted since the last authorisation
  received    \* observation: body of the last accepted copy

rowVars == <<state, live, content>>
observed == <<accepted, received>>
workerVars == <<phase, email, built, outcome>>
vars == <<state, live, content, template, phase, email, built, outcome, accepted, received>>

States == {"WAITING", "SENDING", "UNKNOWN", "SENT", "ERROR", "READ"}

\* States in which SendEmail may claim the row.
Claimable == {"WAITING", "ERROR"}

\* States MarkAsError resets: an outcome is recorded and may be a delivery.
Resettable == {"SENT", "READ", "UNKNOWN"}

\* load: getEmail and buildEmail; smtp: before the server has accepted anything;
\* wait: the server accepted, its reply is not read yet; save: outcome UPDATE;
\* fallback: second UPDATE.
Phases == {"idle", "load", "smtp", "wait", "save", "fallback"}

Versions == 0 .. MaxEdits

Outcomes == {"SENT", "ERROR", "UNKNOWN"}

Busy(w) == phase[w] # "idle"

\* The message may still reach the SMTP server through this worker.
Delivering(w) == phase[w] \in {"load", "smtp", "wait"}

TypeOK ==
  /\ state \in [Emails -> States]
  /\ live \in [Emails -> BOOLEAN]
  /\ content \in [Emails -> Versions]
  /\ template \in 1 .. MaxEdits
  /\ phase \in [Workers -> Phases]
  /\ email \in [Workers -> Emails \cup {NoEmail}]
  /\ built \in [Workers -> Versions]
  /\ outcome \in [Workers -> Outcomes]
  /\ accepted \in [Emails -> Nat]
  /\ received \in [Emails -> Versions]

Init ==
  /\ state = [e \in Emails |-> "WAITING"]
  /\ live = [e \in Emails |-> TRUE]
  /\ content = [e \in Emails |-> 0]
  /\ template = 1
  /\ phase = [w \in Workers |-> "idle"]
  /\ email = [w \in Workers |-> NoEmail]
  /\ built = [w \in Workers |-> 0]
  /\ outcome = [w \in Workers |-> "ERROR"]
  /\ accepted = [e \in Emails |-> 0]
  /\ received = [e \in Emails |-> 0]

------------------------------------------------------------------------------
(* Helpers *)

Goto(w, p) ==
  /\ phase' = [phase EXCEPT ![w] = p]
  /\ UNCHANGED <<email, built, outcome>>

\* mutant: the outcome variable keeps its zero value
FinishUnset(w, s, v) ==
  /\ phase' = [phase EXCEPT ![w] = "save"]
  /\ outcome' = [outcome EXCEPT ![w] = ""]
  /\ built' = [built EXCEPT ![w] = v]
  /\ UNCHANGED email

\* Ready to record state s with body v.
Finish(w, s, v) ==
  /\ phase' = [phase EXCEPT ![w] = "save"]
  /\ outcome' = [outcome EXCEPT ![w] = s]
  /\ built' = [built EXCEPT ![w] = v]
  /\ UNCHANGED email

\* sendClaimedEmail returns; its locals are gone.
Release(w) ==
  /\ phase' = [phase EXCEPT ![w] = "idle"]
  /\ email' = [email EXCEPT ![w] = NoEmail]
  /\ built' = [built EXCEPT ![w] = 0]
  /\ outcome' = [outcome EXCEPT ![w] = "ERROR"]

\* UPDATE email SET state = s, subject, message = v WHERE id = e (the row matched).
Write(e, s, v) ==
  /\ state' = [state EXCEPT ![e] = s]
  /\ content' = [content EXCEPT ![e] = v]
  /\ UNCHANGED live

------------------------------------------------------------------------------
(* SendEmail *)

\* mutant: SendEmail reads the state first and claims without testing it again
ClaimUnchecked(w, e) ==
  /\ ~Busy(w)
  /\ live[e]
  /\ state[e] \in Claimable \cup {"SENDING"}
  /\ state' = [state EXCEPT ![e] = "SENDING"]
  /\ phase' = [phase EXCEPT ![w] = "load"]
  /\ email' = [email EXCEPT ![w] = e]
  /\ UNCHANGED <<live, content, template, built, outcome, observed>>

\* SendEmail: UPDATE ... SET state = SENDING WHERE id AND state IN (WAITING, ERROR);
\* any other state refuses the request and changes nothing.
Claim(w, e) ==
  /\ ~Busy(w)
  /\ live[e]
  /\ state[e] \in Claimable
  /\ state' = [state EXCEPT ![e] = "SENDING"]
  /\ phase' = [phase EXCEPT ![w] = "load"]
  /\ email' = [email EXCEPT ![w] = e]
  /\ UNCHANGED <<live, content, template, built, outcome, observed>>

\* The claim commits but the request's context ends before its result is read:
\* SendEmail returns claim.Error and starts no delivery.
ClaimUnreported(e) ==
  /\ live[e]
  /\ state[e] \in Claimable
  /\ state' = [state EXCEPT ![e] = "SENDING"]
  /\ UNCHANGED <<live, content, template, workerVars, observed>>

------------------------------------------------------------------------------
(* sendClaimedEmail *)

\* getEmail and buildEmail succeed: the body is rendered from the template read now.
Load(w) ==
  /\ phase[w] = "load"
  /\ phase' = [phase EXCEPT ![w] = "smtp"]
  /\ built' = [built EXCEPT ![w] = template]
  /\ UNCHANGED <<rowVars, template, email, outcome, observed>>

\* Campaign or template deleted, attachments too large, rendering error, database
\* error or deadline: the outcome is ERROR and the stored body stays as it is.
LoadFails(w) ==
  /\ phase[w] = "load"
  /\ Finish(w, "ERROR", content[email[w]])
  /\ UNCHANGED <<rowVars, template, observed>>

\* Connection, TLS, AUTH, MAIL, RCPT or DATA error, or a final reply >= 400: the
\* server did not take the message and the client knows it.
SmtpRefused(w) ==
  /\ phase[w] = "smtp"
  /\ Finish(w, "ERROR", built[w])
  /\ UNCHANGED <<rowVars, template, observed>>

\* The server takes responsibility for the message; the client does not know yet.
SmtpAccepts(w) ==
  /\ phase[w] = "smtp"
  /\ Goto(w, "wait")
  /\ accepted' = [accepted EXCEPT ![email[w]] = @ + 1]
  /\ received' = [received EXCEPT ![email[w]] = built[w]]
  /\ UNCHANGED <<rowVars, template>>

\* The final acknowledgement is read.
SmtpAcknowledged(w) ==
  /\ phase[w] = "wait"
  /\ Finish(w, "SENT", built[w])
  /\ UNCHANGED <<rowVars, template, observed>>

\* mutant: every error of the exchange counts as a refusal
SmtpInterruptedIsError(w) ==
  /\ phase[w] \in {"smtp", "wait"}
  /\ Finish(w, "ERROR", built[w])
  /\ UNCHANGED <<rowVars, template, observed>>

\* mutant: the deadline covers the transmission but not the wait for the reply
SmtpInterruptedWhileWriting(w) ==
  /\ phase[w] = "smtp"
  /\ Finish(w, "UNKNOWN", built[w])
  /\ UNCHANGED <<rowVars, template, observed>>

\* Connection lost or deadline passed while writing the body or awaiting the final
\* reply (DeliveryError), whether or not the server took the message.
SmtpInterrupted(w) ==
  /\ phase[w] \in {"smtp", "wait"}
  /\ Finish(w, "UNKNOWN", built[w])
  /\ UNCHANGED <<rowVars, template, observed>>

\* The condition of both outcome UPDATEs.
StillSending(e) == live[e] /\ state[e] = "SENDING"

\* mutant: the outcome row keeps the body it had when the delivery was claimed
SaveStateOnly(w) ==
  /\ phase[w] = "save"
  /\ LET e == email[w] IN
     IF StillSending(e)
       THEN Write(e, outcome[w], content[e]) /\ Release(w)
       ELSE Goto(w, "fallback") /\ UNCHANGED rowVars
  /\ UNCHANGED <<template, observed>>

\* Persist the outcome; zero rows sends the worker to the fallback.
Save(w) ==
  /\ phase[w] = "save"
  /\ LET e == email[w] IN
     IF StillSending(e)
       THEN Write(e, outcome[w], built[w]) /\ Release(w)
       ELSE Goto(w, "fallback") /\ UNCHANGED rowVars
  /\ UNCHANGED <<template, observed>>

\* The outcome UPDATE is rolled back (database unreachable, deadline).
SaveFails(w) ==
  /\ phase[w] = "save"
  /\ Goto(w, "fallback")
  /\ UNCHANGED <<rowVars, template, observed>>

\* The outcome UPDATE commits but its result never reaches the worker.
SaveUnreported(w) ==
  /\ phase[w] = "save"
  /\ StillSending(email[w])
  /\ Write(email[w], outcome[w], built[w])
  /\ Goto(w, "fallback")
  /\ UNCHANGED <<template, observed>>

\* mutant: the fallback frees the message for another attempt
FallbackToError(w) ==
  /\ phase[w] = "fallback"
  /\ LET e == email[w] IN
     IF StillSending(e) THEN Write(e, "ERROR", built[w]) ELSE UNCHANGED rowVars
  /\ Release(w)
  /\ UNCHANGED <<template, observed>>

\* Second UPDATE: still SENDING becomes UNKNOWN; zero rows is not an error.
Fallback(w) ==
  /\ phase[w] = "fallback"
  /\ LET e == email[w] IN
     IF StillSending(e) THEN Write(e, "UNKNOWN", built[w]) ELSE UNCHANGED rowVars
  /\ Release(w)
  /\ UNCHANGED <<template, observed>>

\* The second UPDATE fails too: the row stays SENDING with nobody delivering it.
FallbackFails(w) ==
  /\ phase[w] = "fallback"
  /\ Release(w)
  /\ UNCHANGED <<rowVars, template, observed>>

\* The process that runs the worker stops at any point.
Crash(w) ==
  /\ Busy(w)
  /\ Release(w)
  /\ UNCHANGED <<rowVars, template, observed>>

------------------------------------------------------------------------------
(* Other requests *)

\* mutant: a message being sent can be reset as well
MarkAsErrorAlways(e) ==
  /\ live[e]
  /\ state[e] \in Resettable \cup {"SENDING"}
  /\ Write(e, "ERROR", 0)
  /\ accepted' = [accepted EXCEPT ![e] = 0]
  /\ UNCHANGED <<template, workerVars, received>>

\* MarkAsError: the operator's authorisation of another send.
MarkAsError(e) ==
  /\ live[e]
  /\ state[e] \in Resettable
  /\ Write(e, "ERROR", 0)
  /\ accepted' = [accepted EXCEPT ![e] = 0]
  /\ UNCHANGED <<template, workerVars, received>>

\* mutant: opening the tracker marks any message as read
MarkAsReadAlways(e) ==
  /\ live[e]
  /\ state' = [state EXCEPT ![e] = "READ"]
  /\ UNCHANGED <<live, content, template, workerVars, observed>>

\* MarkAsRead, from the public tracker: an update of SENT rows only.
MarkAsRead(e) ==
  /\ live[e]
  /\ state[e] = "SENT"
  /\ state' = [state EXCEPT ![e] = "READ"]
  /\ UNCHANGED <<live, content, template, workerVars, observed>>

\* DeleteEmail: soft delete, refused while SENDING.
DeleteEmail(e) ==
  /\ live[e]
  /\ state[e] # "SENDING"
  /\ live' = [live EXCEPT ![e] = FALSE]
  /\ UNCHANGED <<state, content, template, workerVars, observed>>

\* UpdateEmailTemplate, at any time, also while a message of the campaign is on its way.
UpdateEmailTemplate ==
  /\ template < MaxEdits
  /\ template' = template + 1
  /\ UNCHANGED <<rowVars, workerVars, observed>>

\* dev/recover-email.sql, run with every application instance stopped.
OfflineRecovery(e) ==
  /\ \A w \in Workers : ~Busy(w)
  /\ StillSending(e)
  /\ state' = [state EXCEPT ![e] = "UNKNOWN"]
  /\ UNCHANGED <<live, content, template, workerVars, observed>>

------------------------------------------------------------------------------
\* The steps of a worker.
Work(w) ==
  \/ Load(w) \/ LoadFails(w)
  \/ SmtpRefused(w) \/ SmtpAccepts(w) \/ SmtpAcknowledged(w) \/ SmtpInterrupted(w)
  \/ Save(w) \/ SaveFails(w)
  \/ Fallback(w) \/ FallbackFails(w)

Next ==
  \/ \E w \in Workers, e \in Emails : Claim(w, e)
  \/ \E w \in Workers : Work(w) \/ Crash(w)
  \/ \E e \in Emails :
       \/ ClaimUnreported(e)
       \/ MarkAsError(e) \/ MarkAsRead(e) \/ DeleteEmail(e) \/ OfflineRecovery(e)
  \/ UpdateEmailTemplate

Spec == Init /\ [][Next]_vars

\* No phase outlives its deadline: one minute for reading and SMTP (the SMTP
\* connection also has one of its own), five seconds for the two UPDATEs.  Nothing
\* is assumed of the SMTP server, of the database or of the users.
Deadline(w) == LoadFails(w) \/ SmtpInterrupted(w) \/ SaveFails(w) \/ FallbackFails(w)

FairSpec == Spec /\ \A w \in Workers : WF_vars(Deadline(w))

\* The same system when the connection to PostgreSQL may also break between the
\* commit of an outcome and its report.
SpecUnreported == Init /\ [][Next \/ \E w \in Workers : SaveUnreported(w)]_vars

------------------------------------------------------------------------------
(* Properties *)

\* No two deliveries of one message run at the same time: "Deux demandes
\* concurrentes ne peuvent pas obtenir la même réservation" (README.md:98).
ExclusiveReservation ==
  \A v, w \in Workers :
    Delivering(v) /\ Delivering(w) /\ email[v] = email[w] => v = w

\* While sendClaimedEmail runs, its message is SENDING and not deleted, so no reset,
\* deletion or second claim can reach it (README.md:106).
InFlightIsLocked ==
  \A w \in Workers : Busy(w) => StillSending(email[w])

\* A message that SendEmail would claim again has not been delivered since the last
\* authorisation, whatever failed: "Un échec de sauvegarde après SMTP ne réautorise
\* jamais silencieusement un envoi" (README.md:114).
ClaimableIsUndelivered ==
  \A e \in Emails : state[e] \in Claimable => accepted[e] = 0

\* The SMTP server accepts at most one copy of a message per authorisation.
OneDeliveryPerAuthorisation == \A e \in Emails : accepted[e] <= 1

\* SENT and READ are only shown for a message the server accepted, and the stored
\* body is the one it accepted although the template may have been edited since.
SentIsWhatWasDelivered ==
  \A e \in Emails :
    state[e] \in {"SENT", "READ"} => accepted[e] = 1 /\ content[e] = received[e]

\* The abstract promise.
Permit == INSTANCE AtMostOncePermit WITH
  permit <- [e \in Emails |->
               IF state[e] \in Claimable THEN "open"
               ELSE IF state[e] = "SENDING" THEN "taken" ELSE "spent"]

\* The delivery code implements the permit protocol.
ImplementsPermit == Permit!Spec

\* A message does not stay SENDING while somebody works on it: either its outcome is
\* recorded, or its worker is gone (crash, or both UPDATEs failed) and the message
\* waits for the offline recovery.
DeliveryEnds ==
  \A e \in Emails :
    StillSending(e) ~>
      ~StillSending(e) \/ \A w \in Workers : email[w] # e
==============================================================================
