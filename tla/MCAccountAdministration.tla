----------------------- MODULE MCAccountAdministration -----------------------
(* An instance of AccountAdministration for TLC. *)
EXTENDS AccountAdministration

\* Bounds: a form that gives no version is served alone, and one session is open at a time.
MCBound ==
  /\ \A r, s \in Requests :
       r # s /\ actor[r] # NoAccount /\ account[r] # NoAccount /\ seen[r] = NoVersion => phase[s] = "idle"
  /\ \E t \in Tokens : session[t] = NoAccount
==============================================================================
