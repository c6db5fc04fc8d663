---------------------------- MODULE MCBudgetPages ----------------------------
(* Values a template asks for, "a" next to the root "p", and those the form writes first. *)
EXTENDS BudgetPages, TLC

MCSuggestions == {{}, {"a"}}
MCWritten == {<<>>, [n \in {"p"} |-> "object"], [n \in {"a"} |-> "object"]}

MCSymmetry == Permutations(Values) \cup Permutations(Uploads)

\* Bounds: the window of a cotisation is open over a page that rests, no attachment
\* is added while a template is tried, and the address of an administrator's dashboard names a
\* budget at the most.
MCBound ==
  /\ window = "open" => coverage = "" /\ round = 0 /\ drafts = {}
  /\ panel = "trial" => \A u \in Uploads : uploads[u] = NoUpload
  /\ administrator => context.reference = 0 /\ context.lot = 0
==============================================================================
