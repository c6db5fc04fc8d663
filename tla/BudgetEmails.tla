----------------------------- MODULE BudgetEmails -----------------------------
(***************************************************************************)
(* The form that prepares the e-mails of a budget                          *)
(* (budget-email-form.component.ts): it loads the recipients, previews one *)
(* message and creates the e-mails.  Its revision is only compared with    *)
(* the one that a preview began at, so a flag on the preview, which a new  *)
(* revision clears, stands for the counter.                                *)
(***************************************************************************)
EXTENDS Integers

CONSTANTS
  Members,     \* members with an address
  NoMember,
  Templates,   \* each stands for a template with the values entered for it
  MaxPayments  \* bound: cotisations that change on the server

VARIABLES
  owed,        \* server: "unpaid", "doing" or "paid" for each member
  payments,
  held,        \* cotisations: {} or the one function that was loaded
  ready, recipientsError,
  recipientsAsked,  \* the load in flight: {} or one record
  message,     \* the values of the form
  previewing,  \* the preview in flight: {} or one record
  previewed,   \* previewResult: {} or one record
  creating     \* the request that creates the e-mails: {} or one record

emailFormVars == <<owed, payments, held, ready, recipientsError, recipientsAsked, message, previewing, previewed, creating>>

NoMessage == [template |-> "", doing |-> FALSE, paid |-> FALSE, member |-> NoMember]

Due(c, m) == {a \in Members : \/ c[a] = "unpaid"
                              \/ c[a] = "doing" /\ m.doing
                              \/ c[a] = "paid" /\ m.paid}

Recipients == {a \in Members : \E c \in held : a \in Due(c, message)}

\* updateRecipients: a member who is not a recipient gives way to one who is.
Settled(c, m) == {[m EXCEPT !.member = a] :
  a \in IF m.member \in Due(c, m) THEN {m.member} ELSE IF Due(c, m) = {} THEN {NoMember} ELSE Due(c, m)}

\* revision++
NewRevision ==
  /\ previewing' = {[p EXCEPT !.current = FALSE] : p \in previewing}
  /\ previewed' = {[p EXCEPT !.current = FALSE] : p \in previewed}

(***************************************************************************)
(* Loading                                                                 *)
(***************************************************************************)
\* Mutant: the recipients are loaded again under a preview.
LoadUnder == UNCHANGED <<previewing, previewed>>

LoadAnew == NewRevision

LoadRecipients ==
  /\ recipientsAsked = {} /\ creating = {} /\ previewing = {}
  /\ recipientsAsked' = {[cotisations |-> {}]}
  /\ ready' = FALSE /\ recipientsError' = FALSE
  /\ LoadAnew
  /\ UNCHANGED <<owed, payments, held, message, creating>>

ServerLists ==
  \E r \in recipientsAsked :
    /\ r.cotisations = {}
    /\ recipientsAsked' = {[cotisations |-> {owed}]}
    /\ UNCHANGED <<owed, payments, held, ready, recipientsError, message, previewing, previewed, creating>>

HearRecipients ==
  \E r \in recipientsAsked : \E c \in r.cotisations :
    /\ recipientsAsked' = {}
    /\ held' = {c} /\ ready' = TRUE
    /\ message' \in Settled(c, message)
    /\ UNCHANGED <<owed, payments, recipientsError, previewing, previewed, creating>>

RecipientsFail ==
  /\ recipientsAsked # {}
  /\ recipientsAsked' = {} /\ recipientsError' = TRUE
  /\ UNCHANGED <<owed, payments, held, ready, message, previewing, previewed, creating>>

(***************************************************************************)
(* Editing, previewing and creating                                        *)
(***************************************************************************)
\* valueChanges, also while a preview is in flight.
EditMessage ==
  /\ ready /\ creating = {}
  /\ \E t \in Templates, doing, paid \in BOOLEAN, a \in Members :
       LET m == [template |-> t, doing |-> doing, paid |-> paid, member |-> a]
       IN  /\ m # message
           /\ \E c \in held : message' \in Settled(c, m)
  /\ NewRevision
  /\ UNCHANGED <<owed, payments, held, ready, recipientsError, recipientsAsked, creating>>

CanPreview == ready /\ message.template # "" /\ message.member \in Recipients /\ previewing = {} /\ creating = {}

PreviewMessage ==
  /\ CanPreview
  /\ previewing' = {[current |-> TRUE, message |-> message, recipients |-> Recipients]}
  /\ previewed' = {[p EXCEPT !.current = FALSE] : p \in previewed}
  /\ UNCHANGED <<owed, payments, held, ready, recipientsError, recipientsAsked, message, creating>>

\* Mutant: a preview is shown whatever has changed since it was asked for.
ShownAlways(p) == [p EXCEPT !.current = TRUE]

Shown(p) == p

\* The preview of an earlier revision is not shown; an error leaves the earlier one, outdated.
HearMessage ==
  \E p \in previewing :
    /\ previewing' = {}
    /\ \/ Shown(p).current /\ previewed' = {Shown(p)}
       \/ UNCHANGED previewed
    /\ UNCHANGED <<owed, payments, held, ready, recipientsError, recipientsAsked, message, creating>>

CanPrepare == CanPreview /\ \E p \in previewed : p.current

Prepare ==
  /\ CanPrepare
  /\ creating' = {[message |-> message, recipients |-> Recipients]}
  /\ UNCHANGED <<owed, payments, held, ready, recipientsError, recipientsAsked, message, previewing, previewed>>

\* An error, or a lost answer, leaves the form as it is.
PrepareFails ==
  /\ creating # {}
  /\ creating' = {}
  /\ UNCHANGED <<owed, payments, held, ready, recipientsError, recipientsAsked, message, previewing, previewed>>

\* Prepared, or cancelled: the form closes, and another one opens.
Reopen ==
  /\ held' = {} /\ ready' = FALSE /\ recipientsError' = FALSE
  /\ recipientsAsked' = {[cotisations |-> {}]}
  /\ message' = NoMessage /\ previewing' = {} /\ previewed' = {} /\ creating' = {}
  /\ UNCHANGED <<owed, payments>>

Pay ==
  /\ payments < MaxPayments
  /\ payments' = payments + 1
  /\ \E a \in Members, s \in {"unpaid", "doing", "paid"} : owed' = [owed EXCEPT ![a] = s]
  /\ UNCHANGED <<held, ready, recipientsError, recipientsAsked, message, previewing, previewed, creating>>

EmailFormInit ==
  /\ owed \in [Members -> {"unpaid", "doing", "paid"}] /\ payments = 0
  /\ held = {} /\ ready = FALSE /\ recipientsError = FALSE
  /\ recipientsAsked = {[cotisations |-> {}]}
  /\ message = NoMessage /\ previewing = {} /\ previewed = {} /\ creating = {}

EmailFormNext ==
  \/ LoadRecipients \/ ServerLists \/ HearRecipients \/ RecipientsFail
  \/ EditMessage \/ PreviewMessage \/ HearMessage \/ Prepare \/ PrepareFails \/ Reopen \/ Pay

(***************************************************************************)
(* Property                                                                *)
(***************************************************************************)
\* E-mails are created only from a message that was previewed with the values the form
\* still has, among the recipients it still shows: "Les informations ont changé pendant le
\* calcul. Relance l’aperçu." (budget-email-form.component.ts:273).
PreparedAsPreviewed ==
  \A r \in creating' \ creating :
    \E p \in previewed : p.message = r.message /\ p.recipients = r.recipients
==============================================================================
