---------------------------- MODULE MCOfficePages ----------------------------
(* Subjects are alike, and so are the requests that serve them. *)
EXTENDS OfficePages, TLC

MCSymmetry == Permutations(Subjects) \cup Permutations(Requests)

\* Bounds.  Directory: a form is open over a list without a selection, and no units are
\* tried again under a form or a deletion.  Mailing lists: they begin without a task; another
\* administrator synchronizes them first or not at all, while the rights stay as they are, and
\* the page previews beside it as long as the directory rests and no task is left; the rights
\* change around one synchronization.  Accounts: the filter on disabled accounts is left out, as
\* it is like the one on those refused.  Tour: the rights and the version both change in a
\* session of the OpenID provider that lasts, and the invitation is put off before they do.
\* Sign-in: two requests are served at once for a browser that has no session yet.
MCBound ==
  /\ form # "closed" => retries = 0 /\ shown.target = NoTarget
  /\ deletion # "none" => retries = 0
  /\ syncs = 0 => tasks = {}
  /\ sync # NoSync /\ sync.by = "other" =>
       /\ syncs = 1 /\ accesses = 0
       /\ preview # {} => edits = 0 /\ tasks = {}
  /\ syncs = 2 => accesses = 0
  /\ filter # "disabled"
  /\ provider = "google" => running = {1} /\ grants = 0
  /\ ~alive => running = {1} \/ grants = 0
  /\ dismissed => running = {1} /\ grants = 0 /\ address = "elsewhere"
  /\ (\A q \in Requests : request[q].stage # "none") => cookie = {}
==============================================================================
