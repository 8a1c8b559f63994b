---------------------------- MODULE FleetClaims -----------------------------
(***************************************************************************)
(* What a comment says about the order in which runs are executed, stated  *)
(* over Fleet and its clients.                                             *)
(***************************************************************************)
EXTENDS Clients

(* routes_workflows.py:36, "Celery priority is 0 (highest) -> 9 (lowest);  *)
(* API priority is 1 (highest)": no worker takes a run while one of a      *)
(* more urgent API priority is waiting.                                    *)
UrgentFirst ==
    [][\A r \in Runs :
         at[r] = "queued" /\ at'[r] = "screen" =>
             \A i \in DOMAIN queue : Priority[r] <= Priority[queue[i]]]_vars
=============================================================================
