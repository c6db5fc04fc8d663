----------------------------- MODULE MCEmailPage -----------------------------
(* An instance of EmailPage for TLC: two messages of one campaign, and an empty campaign. *)
EXTENDS EmailPage

MCCampaignOf(e) == "c1"
MCMatches(q, e) == q = "" \/ e = 1

\* Bound: a dialog that is open while another campaign is on its way was opened on the page
\* as it was first loaded.
MCBound == opening /\ confirm # NoDialog => Settings(controls) = 0
==============================================================================
