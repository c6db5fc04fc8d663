----------------------------- MODULE LatestAnswer -----------------------------
(***************************************************************************)
(* What a view of server data promises its reader: once a question has     *)
(* been asked nothing older counts.  Until its own answer arrives the view *)
(* shows that it is waiting, and then what answers the latest question, or *)
(* that the question failed, and never the answer to an earlier one.       *)
(* Grants(q) are the questions an answer to q may turn out to answer: a    *)
(* server that finds the page asked for empty answers with an earlier one. *)
(***************************************************************************)

CONSTANTS Questions, Grants(_), Waiting, Failed

VARIABLES asked, shown

Init == asked \in Questions /\ shown = Waiting

Ask == asked' \in Questions /\ shown' = Waiting

Answer == shown = Waiting /\ asked' \in Grants(asked) /\ shown' = asked'

Fail == asked' = asked /\ shown = Waiting /\ shown' = Failed

Next == Ask \/ Answer \/ Fail

Spec == Init /\ [][Next]_<<asked, shown>>
==============================================================================
