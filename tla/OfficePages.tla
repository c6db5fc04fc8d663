------------------------------ MODULE OfficePages ------------------------------
(***************************************************************************)
(* Pages of the application, of which one is open: the directory, the      *)
(* mailing lists, the e-mails of a budget, the accounts, the guided tour   *)
(* and the sign-in.  They share the tables of the server and nothing in    *)
(* the browser (the router destroys the page it leaves), and each module   *)
(* has the other users of its own tables; so a behaviour stays on the page *)
(* it begins with, and the others rest.                                    *)
(***************************************************************************)
EXTENDS MemberDirectory, MailingLists, BudgetEmails, AccountDecisions, GuidedTour, SignIn

VARIABLE page

Pages == {"members", "mailings", "emails", "users", "tour", "login"}

vars == <<page, memberVars, mailingVars, emailFormVars, accountVars, tourVars, signInVars>>

\* A page that is not open rests in one of its initial states.
Init ==
  /\ page \in Pages
  /\ MemberInit /\ (page # "members" => shown = [view |-> "list", target |-> NoTarget])
  /\ MailingInit /\ (page # "mailings" => tasks = {} /\ \A a \in Addresses : directory[a] = "none" /\ \A l \in ListNames : a \notin subscribers[l])
  /\ EmailFormInit /\ (page # "emails" => \A m \in Members : owed[m] = "unpaid")
  /\ AccountInit /\ (page # "users" => account.state = "pending" /\ filter = "")
  /\ TourInit /\ (page # "tour" => rights = "plain" /\ alive /\ provider = "oidc")
  /\ SignInInit /\ (page # "login" => issuerMode = "oidc" /\ users = {})

OnMembers ==
  /\ page = "members" /\ MemberNext
  /\ UNCHANGED <<page, mailingVars, emailFormVars, accountVars, tourVars, signInVars>>

OnMailings ==
  /\ page = "mailings" /\ MailingNext
  /\ UNCHANGED <<page, memberVars, emailFormVars, accountVars, tourVars, signInVars>>

OnEmails ==
  /\ page = "emails" /\ EmailFormNext
  /\ UNCHANGED <<page, memberVars, mailingVars, accountVars, tourVars, signInVars>>

OnUsers ==
  /\ page = "users" /\ AccountNext
  /\ UNCHANGED <<page, memberVars, mailingVars, emailFormVars, tourVars, signInVars>>

OnTour ==
  /\ page = "tour" /\ TourNext
  /\ UNCHANGED <<page, memberVars, mailingVars, emailFormVars, accountVars, signInVars>>

OnLogin ==
  /\ page = "login" /\ SignInNext
  /\ UNCHANGED <<page, memberVars, mailingVars, emailFormVars, accountVars, tourVars>>

Next == OnMembers \/ OnMailings \/ OnEmails \/ OnUsers \/ OnTour \/ OnLogin

Spec == Init /\ [][Next]_vars

(***************************************************************************)
(* Properties                                                              *)
(***************************************************************************)
\* Each page agrees with what it knows: the directory with its address, its source, its
\* form and the writes it has heard of, the accounts with their filter.
PagesAreCoherent == DirectoryIsCoherent /\ UsersMatchFilter

\* What leaves a page is what was shown there and confirmed: the calls to the provider of the
\* mailing lists, the e-mails of a budget, and the decisions on an account, though each
\* takes several steps between which the page or the server may change.
ActsAsConfirmed == [][CallsAreConfirmed /\ PreparedAsPreviewed /\ DecidedAsShown]_vars
==============================================================================
