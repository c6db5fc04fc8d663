-------------------------- MODULE AtMostOncePermit --------------------------
(***************************************************************************)
(* What the e-mail subsystem promises of one message (README.md of the     *)
(* repository, "Fiabilité des e-mails"): sending needs a permit, a permit  *)
(* is held by at most one attempt, the SMTP server accepts at most one     *)
(* copy per permit, and only an operator who resets the message issues a   *)
(* new permit once the outcome may have been a delivery.                   *)
(***************************************************************************)
EXTENDS Naturals

CONSTANT Emails

VARIABLES
  permit,     \* "open": may be taken; "taken": an attempt holds it; "spent": outcome recorded
  accepted    \* copies accepted by the SMTP server under the current permit

vars == <<permit, accepted>>

Init ==
  /\ permit = [e \in Emails |-> "open"]
  /\ accepted = [e \in Emails |-> 0]

\* An attempt reserves the message.
Take(e) ==
  /\ permit[e] = "open"
  /\ permit' = [permit EXCEPT ![e] = "taken"]
  /\ UNCHANGED accepted

\* The SMTP server accepts the one copy this permit allows.
Accept(e) ==
  /\ permit[e] = "taken"
  /\ accepted[e] = 0
  /\ accepted' = [accepted EXCEPT ![e] = 1]
  /\ UNCHANGED permit

\* The attempt certainly delivered nothing: the permit may be used again.
GiveBack(e) ==
  /\ permit[e] = "taken"
  /\ accepted[e] = 0
  /\ permit' = [permit EXCEPT ![e] = "open"]
  /\ UNCHANGED accepted

\* A delivery happened or may have happened: the permit is used up.
Spend(e) ==
  /\ permit[e] = "taken"
  /\ permit' = [permit EXCEPT ![e] = "spent"]
  /\ UNCHANGED accepted

\* An operator authorises another send.
Reauthorise(e) ==
  /\ permit[e] = "spent"
  /\ permit' = [permit EXCEPT ![e] = "open"]
  /\ accepted' = [accepted EXCEPT ![e] = 0]

Next ==
  \E e \in Emails :
    Take(e) \/ Accept(e) \/ GiveBack(e) \/ Spend(e) \/ Reauthorise(e)

Spec == Init /\ [][Next]_vars
=============================================================================
