------------------------ MODULE EmailDelivery_proofs ------------------------
(***************************************************************************)
(* Safety of e-mail delivery for any number of messages, workers and       *)
(* template versions, and its refinement of AtMostOncePermit.              *)
(***************************************************************************)
EXTENDS EmailDelivery, TLAPS

\* A busy worker holds a message that is SENDING and not deleted.
HolderIsLocked ==
  \A w \in Workers : Busy(w) => email[w] \in Emails /\ StillSending(email[w])

\* At most one worker holds a message, delivering it or recording its outcome.
OneHolder ==
  \A v, w \in Workers : Busy(v) /\ Busy(w) /\ email[v] = email[w] => v = w

\* Each worker's phase and outcome agree with what the server accepted.
WorkerKnows(w) ==
  /\ phase[w] \in {"load", "smtp"} => accepted[email[w]] = 0
  /\ phase[w] = "wait" => accepted[email[w]] = 1 /\ received[email[w]] = built[w]
  /\ phase[w] = "save" /\ outcome[w] = "ERROR" => accepted[email[w]] = 0
  /\ phase[w] = "save" /\ outcome[w] = "SENT" =>
       accepted[email[w]] = 1 /\ received[email[w]] = built[w]

WorkersKnow == \A w \in Workers : WorkerKnows(w)

\* The inductive invariant.
IInv ==
  /\ TypeOK
  /\ HolderIsLocked
  /\ OneHolder
  /\ WorkersKnow
  /\ ClaimableIsUndelivered
  /\ OneDeliveryPerAuthorisation
  /\ SentIsWhatWasDelivered

------------------------------------------------------------------------------

\* The initial state satisfies the inductive invariant.
LEMMA InitInvariant == Init => IInv
BY EmailDeliveryAssumption
DEF Init, IInv, TypeOK, HolderIsLocked, OneHolder, WorkersKnow, WorkerKnows, Busy,
    ClaimableIsUndelivered, OneDeliveryPerAuthorisation, SentIsWhatWasDelivered,
    States, Phases, Versions, Outcomes, Claimable

\* Every step preserves the types: an outcome record always names a real message.
LEMMA TypeStep == TypeOK /\ HolderIsLocked /\ [Next]_vars => TypeOK'
<1> SUFFICES ASSUME TypeOK, HolderIsLocked, [Next]_vars PROVE TypeOK'
  OBVIOUS
<1> USE EmailDeliveryAssumption
    DEF TypeOK, States, Versions, Claimable, Resettable, Phases, Outcomes, rowVars,
        observed, workerVars, Goto, Finish, Release, Write
<1>1. ASSUME NEW w \in Workers, NEW e \in Emails, Claim(w, e) PROVE TypeOK'
  BY <1>1 DEF Claim
<1>2. ASSUME NEW w \in Workers, Work(w) PROVE TypeOK'
  <2>0. Busy(w) => email[w] \in Emails
    BY DEF HolderIsLocked
  <2>1. CASE Load(w)
    BY <2>1 DEF Load
  <2>2. CASE LoadFails(w)
    BY <2>0, <2>2 DEF LoadFails, Busy
  <2>3. CASE SmtpRefused(w)
    BY <2>3 DEF SmtpRefused
  <2>4. CASE SmtpAccepts(w)
    BY <2>0, <2>4 DEF SmtpAccepts, Busy
  <2>5. CASE SmtpAcknowledged(w)
    BY <2>5 DEF SmtpAcknowledged
  <2>6. CASE SmtpInterrupted(w)
    BY <2>6 DEF SmtpInterrupted
  <2>7. CASE Save(w)
    BY <2>0, <2>7 DEF Save, Busy
  <2>8. CASE SaveFails(w)
    BY <2>8 DEF SaveFails
  <2>9. CASE Fallback(w)
    BY <2>0, <2>9 DEF Fallback, Busy
  <2>10. CASE FallbackFails(w)
    BY <2>10 DEF FallbackFails
  <2> QED
    BY <1>2, <2>1, <2>2, <2>3, <2>4, <2>5, <2>6, <2>7, <2>8, <2>9, <2>10 DEF Work
<1>3. ASSUME NEW w \in Workers, Crash(w) PROVE TypeOK'
  BY <1>3 DEF Crash
<1>4. ASSUME NEW e \in Emails, ClaimUnreported(e) PROVE TypeOK'
  BY <1>4 DEF ClaimUnreported
<1>5. ASSUME NEW e \in Emails, MarkAsError(e) PROVE TypeOK'
  BY <1>5 DEF MarkAsError
<1>6. ASSUME NEW e \in Emails, MarkAsRead(e) PROVE TypeOK'
  BY <1>6 DEF MarkAsRead
<1>7. ASSUME NEW e \in Emails, DeleteEmail(e) PROVE TypeOK'
  BY <1>7 DEF DeleteEmail
<1>8. ASSUME NEW e \in Emails, OfflineRecovery(e) PROVE TypeOK'
  BY <1>8 DEF OfflineRecovery
<1>9. CASE UpdateEmailTemplate
  BY <1>9 DEF UpdateEmailTemplate
<1>10. CASE UNCHANGED vars
  BY <1>10 DEF vars
<1> QED
  BY <1>1, <1>2, <1>3, <1>4, <1>5, <1>6, <1>7, <1>8, <1>9, <1>10 DEF Next

\* The locking part of the invariant: only the holder of a message can move it out of
\* SENDING, and a message that is SENDING is neither claimed, reset nor deleted.
LEMMA HolderStep ==
  TypeOK /\ HolderIsLocked /\ OneHolder /\ [Next]_vars => HolderIsLocked' /\ OneHolder'
<1> SUFFICES ASSUME TypeOK, HolderIsLocked, OneHolder, [Next]_vars
             PROVE  HolderIsLocked' /\ OneHolder'
  OBVIOUS
<1> DEFINE Goal == HolderIsLocked' /\ OneHolder'
<1> USE EmailDeliveryAssumption
    DEF TypeOK, HolderIsLocked, OneHolder, Busy, StillSending, Claimable, Resettable,
        rowVars, observed, workerVars, Goto, Finish, Release, Write
<1>1. ASSUME NEW w \in Workers, NEW e \in Emails, Claim(w, e) PROVE Goal
  BY <1>1 DEF Claim
<1>2. ASSUME NEW w \in Workers, Work(w) PROVE Goal
  <2>1. CASE Load(w)
    BY <2>1 DEF Load
  <2>2. CASE LoadFails(w)
    BY <2>2 DEF LoadFails
  <2>3. CASE SmtpRefused(w)
    BY <2>3 DEF SmtpRefused
  <2>4. CASE SmtpAccepts(w)
    BY <2>4 DEF SmtpAccepts
  <2>5. CASE SmtpAcknowledged(w)
    BY <2>5 DEF SmtpAcknowledged
  <2>6. CASE SmtpInterrupted(w)
    BY <2>6 DEF SmtpInterrupted
  <2>7. CASE Save(w)
    BY <2>7 DEF Save
  <2>8. CASE SaveFails(w)
    BY <2>8 DEF SaveFails
  <2>9. CASE Fallback(w)
    BY <2>9 DEF Fallback
  <2>10. CASE FallbackFails(w)
    BY <2>10 DEF FallbackFails
  <2> QED
    BY <1>2, <2>1, <2>2, <2>3, <2>4, <2>5, <2>6, <2>7, <2>8, <2>9, <2>10 DEF Work
<1>3. ASSUME NEW w \in Workers, Crash(w) PROVE Goal
  BY <1>3 DEF Crash
<1>4. ASSUME NEW e \in Emails, ClaimUnreported(e) PROVE Goal
  BY <1>4 DEF ClaimUnreported
<1>5. ASSUME NEW e \in Emails, MarkAsError(e) PROVE Goal
  BY <1>5 DEF MarkAsError
<1>6. ASSUME NEW e \in Emails, MarkAsRead(e) PROVE Goal
  BY <1>6 DEF MarkAsRead
<1>7. ASSUME NEW e \in Emails, DeleteEmail(e) PROVE Goal
  BY <1>7 DEF DeleteEmail
<1>8. ASSUME NEW e \in Emails, OfflineRecovery(e) PROVE Goal
  BY <1>8 DEF OfflineRecovery
<1>9. CASE UpdateEmailTemplate
  BY <1>9 DEF UpdateEmailTemplate
<1>10. CASE UNCHANGED vars
  BY <1>10 DEF vars
<1> QED
  BY <1>1, <1>2, <1>3, <1>4, <1>5, <1>6, <1>7, <1>8, <1>9, <1>10 DEF Next

\* The delivery part: what the workers know and what the rows say of the deliveries.
DeliveryFacts ==
  /\ WorkersKnow
  /\ ClaimableIsUndelivered
  /\ OneDeliveryPerAuthorisation
  /\ SentIsWhatWasDelivered

\* Given the locking part, every step keeps rows and workers true to the deliveries.
LEMMA DeliveryStep == IInv /\ [Next]_vars => DeliveryFacts'
<1> SUFFICES ASSUME IInv, [Next]_vars PROVE DeliveryFacts'
  OBVIOUS
<1> USE EmailDeliveryAssumption
    DEF IInv, TypeOK, HolderIsLocked, OneHolder, DeliveryFacts, WorkersKnow, WorkerKnows,
        ClaimableIsUndelivered, OneDeliveryPerAuthorisation, SentIsWhatWasDelivered,
        Busy, StillSending, Claimable, Resettable, rowVars, observed, workerVars,
        Goto, Finish, Release, Write
<1>1. ASSUME NEW w \in Workers, NEW e \in Emails, Claim(w, e) PROVE DeliveryFacts'
  BY <1>1 DEF Claim
<1>2. ASSUME NEW w \in Workers, Work(w) PROVE DeliveryFacts'
  <2>1. CASE Load(w)
    BY <2>1 DEF Load
  <2>2. CASE LoadFails(w)
    BY <2>2 DEF LoadFails
  <2>3. CASE SmtpRefused(w)
    BY <2>3 DEF SmtpRefused
  <2>4. CASE SmtpAccepts(w)
    BY <2>4 DEF SmtpAccepts
  <2>5. CASE SmtpAcknowledged(w)
    BY <2>5 DEF SmtpAcknowledged
  <2>6. CASE SmtpInterrupted(w)
    BY <2>6 DEF SmtpInterrupted
  <2>7. CASE Save(w)
    <3> DEFINE e == email[w]
    <3>1. /\ phase[w] = "save" /\ e \in Emails /\ StillSending(e)
          /\ state' = [state EXCEPT ![e] = outcome[w]]
          /\ content' = [content EXCEPT ![e] = built[w]]
          /\ Release(w) /\ UNCHANGED observed
      BY <2>7 DEF Save
    <3>2. \A v \in Workers : v # w /\ phase'[v] # "idle" => email[v] # e
      BY <3>1
    <3>3. WorkersKnow'
      BY <3>1, <3>2
    <3>4. /\ outcome[w] # "WAITING" /\ outcome[w] # "READ"
          /\ outcome[w] = "ERROR" => accepted[e] = 0
          /\ outcome[w] = "SENT" => accepted[e] = 1 /\ received[e] = built[w]
      BY <3>1 DEF Outcomes
    <3>5. ASSUME NEW d \in Emails
          PROVE  /\ state'[d] \in Claimable => accepted'[d] = 0
                 /\ state'[d] \in {"SENT", "READ"} =>
                      accepted'[d] = 1 /\ content'[d] = received'[d]
      <4>1. CASE d = e
        BY <3>1, <3>4, <4>1
      <4>2. CASE d # e
        BY <3>1, <4>2
      <4> QED
        BY <4>1, <4>2
    <3> QED
      BY <3>1, <3>3, <3>5
  <2>8. CASE SaveFails(w)
    BY <2>8 DEF SaveFails
  <2>9. CASE Fallback(w)
    BY <2>9 DEF Fallback
  <2>10. CASE FallbackFails(w)
    BY <2>10 DEF FallbackFails
  <2> QED
    BY <1>2, <2>1, <2>2, <2>3, <2>4, <2>5, <2>6, <2>7, <2>8, <2>9, <2>10 DEF Work
<1>3. ASSUME NEW w \in Workers, Crash(w) PROVE DeliveryFacts'
  BY <1>3 DEF Crash
<1>4. ASSUME NEW e \in Emails, ClaimUnreported(e) PROVE DeliveryFacts'
  BY <1>4 DEF ClaimUnreported
<1>5. ASSUME NEW e \in Emails, MarkAsError(e) PROVE DeliveryFacts'
  BY <1>5 DEF MarkAsError
<1>6. ASSUME NEW e \in Emails, MarkAsRead(e) PROVE DeliveryFacts'
  BY <1>6 DEF MarkAsRead
<1>7. ASSUME NEW e \in Emails, DeleteEmail(e) PROVE DeliveryFacts'
  BY <1>7 DEF DeleteEmail
<1>8. ASSUME NEW e \in Emails, OfflineRecovery(e) PROVE DeliveryFacts'
  BY <1>8 DEF OfflineRecovery
<1>9. CASE UpdateEmailTemplate
  BY <1>9 DEF UpdateEmailTemplate
<1>10. CASE UNCHANGED vars
  BY <1>10 DEF vars
<1> QED
  BY <1>1, <1>2, <1>3, <1>4, <1>5, <1>6, <1>7, <1>8, <1>9, <1>10 DEF Next

------------------------------------------------------------------------------

\* The inductive invariant holds in every reachable state.
THEOREM InvariantHolds == Spec => []IInv
<1>1. Init => IInv
  BY InitInvariant
<1>2. IInv /\ [Next]_vars => IInv'
  BY TypeStep, HolderStep, DeliveryStep DEF IInv, DeliveryFacts
<1> QED
  BY <1>1, <1>2, PTL DEF Spec

\* Type correctness of the rows, the workers and the observations.
THEOREM TypeCorrect == Spec => []TypeOK
<1>1. IInv => TypeOK
  BY DEF IInv
<1> QED
  BY <1>1, InvariantHolds, PTL

\* sendClaimedEmail's message stays SENDING and undeleted until its outcome is recorded,
\* so no reset, deletion or claim reaches a message in flight.
THEOREM InFlightLocked == Spec => []InFlightIsLocked
<1>1. IInv => InFlightIsLocked
  BY DEF IInv, HolderIsLocked, InFlightIsLocked
<1> QED
  BY <1>1, InvariantHolds, PTL

\* Two deliveries of one message never overlap.
THEOREM ReservationExclusive == Spec => []ExclusiveReservation
<1>1. IInv => ExclusiveReservation
  BY DEF IInv, OneHolder, ExclusiveReservation, Delivering, Busy
<1> QED
  BY <1>1, InvariantHolds, PTL

\* No failure makes a message claimable again after the server has accepted it.
THEOREM NoSilentReauthorisation == Spec => []ClaimableIsUndelivered
<1>1. IInv => ClaimableIsUndelivered
  BY DEF IInv
<1> QED
  BY <1>1, InvariantHolds, PTL

\* At most one accepted copy per authorisation.
THEOREM AtMostOneDelivery == Spec => []OneDeliveryPerAuthorisation
<1>1. IInv => OneDeliveryPerAuthorisation
  BY DEF IInv
<1> QED
  BY <1>1, InvariantHolds, PTL

\* A message shown as sent was accepted with exactly the stored body.
THEOREM SentIsTrue == Spec => []SentIsWhatWasDelivered
<1>1. IInv => SentIsWhatWasDelivered
  BY DEF IInv
<1> QED
  BY <1>1, InvariantHolds, PTL

------------------------------------------------------------------------------

\* The permit a message's state stands for, as in the instance Permit.
PermitOf(e) ==
  IF state[e] \in Claimable THEN "open"
  ELSE IF state[e] = "SENDING" THEN "taken" ELSE "spent"

\* A step that leaves states and deliveries alone is invisible to the abstraction.
LEMMA Stutter ==
  UNCHANGED <<state, accepted>> => UNCHANGED Permit!vars
BY DEF Permit!vars

\* A step that only changes the state of e changes only the permit of e.
LEMMA PermitUpdate ==
  ASSUME TypeOK, NEW e \in Emails, NEW s \in States, state' = [state EXCEPT ![e] = s],
         NEW p, p = IF s \in Claimable THEN "open"
                    ELSE IF s = "SENDING" THEN "taken" ELSE "spent"
  PROVE  [d \in Emails |-> PermitOf(d)]' =
           [[d \in Emails |-> PermitOf(d)] EXCEPT ![e] = p]
BY DEF PermitOf, TypeOK

\* Every step of the code is a step of the permit protocol or invisible to it.
LEMMA PermitStep == IInv /\ [Next]_vars => [Permit!Next]_(Permit!vars)
<1> SUFFICES ASSUME IInv, [Next]_vars PROVE [Permit!Next]_(Permit!vars)
  OBVIOUS
<1> DEFINE Goal == [Permit!Next]_(Permit!vars)
<1> USE DEF IInv
<1>0. ASSUME NEW e \in Emails,
             \/ Permit!Take(e) \/ Permit!Accept(e) \/ Permit!GiveBack(e)
             \/ Permit!Spend(e) \/ Permit!Reauthorise(e)
      PROVE  Goal
  BY <1>0 DEF Permit!Next
<1>1. ASSUME NEW e \in Emails, live[e], state[e] \in Claimable,
             state' = [state EXCEPT ![e] = "SENDING"], UNCHANGED accepted
      PROVE  Goal
  <2>1. Permit!Take(e)
    BY <1>1, PermitUpdate DEF Permit!Take, PermitOf, States, Claimable
  <2> QED
    BY <2>1, <1>0
<1>2. ASSUME NEW e \in Emails, state[e] = "SENDING", NEW s \in {"UNKNOWN", "SENT"},
             state' = [state EXCEPT ![e] = s], UNCHANGED accepted
      PROVE  Goal
  <2>1. Permit!Spend(e)
    BY <1>2, PermitUpdate DEF Permit!Spend, PermitOf, States, Claimable
  <2> QED
    BY <2>1, <1>0
<1>3. ASSUME NEW e \in Emails, state[e] = "SENDING", accepted[e] = 0,
             state' = [state EXCEPT ![e] = "ERROR"], UNCHANGED accepted
      PROVE  Goal
  <2>1. Permit!GiveBack(e)
    BY <1>3, PermitUpdate DEF Permit!GiveBack, PermitOf, States, Claimable
  <2> QED
    BY <2>1, <1>0
<1>4. ASSUME NEW w \in Workers, Work(w) PROVE Goal
  <2> DEFINE e == email[w]
  <2>1. CASE UNCHANGED <<state, accepted>>
    BY <2>1, Stutter
  <2>2. CASE SmtpAccepts(w)
    <3>1. e \in Emails /\ state[e] = "SENDING" /\ accepted[e] = 0
      BY <2>2 DEF SmtpAccepts, HolderIsLocked, Busy, StillSending, WorkersKnow, WorkerKnows
    <3>2. accepted' = [accepted EXCEPT ![e] = 1] /\ UNCHANGED state
      BY <2>2, <3>1 DEF SmtpAccepts, rowVars, TypeOK
    <3>3. Permit!Accept(e)
      BY <3>1, <3>2 DEF Permit!Accept, Claimable
    <3> QED
      BY <3>1, <3>3, <1>0
  <2>3. CASE Save(w)
    <3>1. /\ e \in Emails /\ state[e] = "SENDING"
          /\ state' = [state EXCEPT ![e] = outcome[w]] /\ UNCHANGED accepted
          /\ outcome[w] = "ERROR" => accepted[e] = 0
      BY <2>3 DEF Save, HolderIsLocked, Busy, StillSending, Write, observed,
                  WorkersKnow, WorkerKnows
    <3>2. CASE outcome[w] = "ERROR"
      BY <3>1, <3>2, <1>3
    <3>3. CASE outcome[w] \in {"UNKNOWN", "SENT"}
      BY <3>1, <3>3, <1>2
    <3> QED
      BY <3>2, <3>3 DEF TypeOK, Outcomes
  <2>4. CASE Fallback(w)
    <3>1. e \in Emails /\ state[e] = "SENDING"
      BY <2>4 DEF Fallback, HolderIsLocked, Busy, StillSending
    <3>2. state' = [state EXCEPT ![e] = "UNKNOWN"] /\ UNCHANGED accepted
      BY <2>4 DEF Fallback, HolderIsLocked, Busy, StillSending, Write, observed
    <3> QED
      BY <3>1, <3>2, <1>2
  <2> QED
    BY <1>4, <2>1, <2>2, <2>3, <2>4
    DEF Work, Load, LoadFails, SmtpRefused, SmtpAcknowledged, SmtpInterrupted, SaveFails,
        FallbackFails, rowVars, observed
<1>5. ASSUME NEW e \in Emails, MarkAsError(e) PROVE Goal
  <2>1. Permit!Reauthorise(e)
    BY <1>5, PermitUpdate
    DEF Permit!Reauthorise, PermitOf, MarkAsError, Write, Resettable, Claimable, States
  <2> QED
    BY <2>1, <1>0
<1>6. ASSUME NEW e \in Emails, MarkAsRead(e) PROVE Goal
  <2>1. UNCHANGED [d \in Emails |-> PermitOf(d)]
    <3>1. ASSUME NEW d \in Emails PROVE PermitOf(d)' = PermitOf(d)
      BY <1>6 DEF MarkAsRead, PermitOf, Claimable, TypeOK
    <3> QED
      BY <3>1
  <2> QED
    BY <1>6, <2>1 DEF MarkAsRead, observed, PermitOf, Permit!vars
<1>7. ASSUME NEW e \in Emails, OfflineRecovery(e) PROVE Goal
  BY <1>2, <1>7 DEF OfflineRecovery, StillSending, observed
<1> QED
  <2>1. ASSUME NEW w \in Workers, NEW e \in Emails, Claim(w, e) PROVE Goal
    BY <1>1, <2>1 DEF Claim, observed
  <2>2. ASSUME NEW e \in Emails, ClaimUnreported(e) PROVE Goal
    BY <1>1, <2>2 DEF ClaimUnreported, observed
  <2>3. CASE UNCHANGED <<state, accepted>>
    BY <2>3, Stutter
  <2>4. ASSUME NEW w \in Workers, Crash(w) PROVE Goal
    BY <2>3, <2>4 DEF Crash, rowVars, observed
  <2>5. ASSUME NEW e \in Emails, DeleteEmail(e) PROVE Goal
    BY <2>3, <2>5 DEF DeleteEmail, observed
  <2>6. CASE UpdateEmailTemplate
    BY <2>3, <2>6 DEF UpdateEmailTemplate, rowVars, observed
  <2>7. CASE UNCHANGED vars
    BY <2>3, <2>7 DEF vars
  <2> QED
    BY <1>4, <1>5, <1>6, <1>7, <2>1, <2>2, <2>4, <2>5, <2>6, <2>7 DEF Next

\* The delivery code implements the permit protocol of README.md's promise.
THEOREM DeliveryImplementsPermit == Spec => ImplementsPermit
<1>1. Init => Permit!Init
  BY DEF Init, Permit!Init, Claimable
<1>2. IInv /\ [Next]_vars => [Permit!Next]_(Permit!vars)
  BY PermitStep
<1> QED
  BY <1>1, <1>2, InvariantHolds, PTL DEF Spec, ImplementsPermit, Permit!Spec
=============================================================================
