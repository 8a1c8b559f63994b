-------------------------- MODULE AttemptContract --------------------------
(***************************************************************************)
(* What one call of run_workflow promises to the task that made it,        *)
(* whatever its agents and tools do: it returns; its outcome is COMPLETED  *)
(* or FAILED, in the row before it is in Redis; and an outcome is revised, *)
(* to FAILED, or missing from a store only once a store has failed.        *)
(***************************************************************************)
VARIABLES
    phase,    \* "idle", "working", or "announcing": the row has the outcome
    status,   \* the run's row
    live,     \* the run's key in Redis
    faulty    \* a store has failed

contract == <<phase, status, live, faulty>>

Init == phase = "idle" /\ status = "PENDING" /\ live = "none" /\ faulty = FALSE

Begin ==
    /\ phase = "idle"
    /\ phase' = "working"
    /\ status' = "RUNNING" /\ live' = "RUNNING"
    /\ UNCHANGED faulty

Settle ==
    /\ phase = "working"
    /\ status' \in {"COMPLETED", "FAILED"}
    /\ phase' = "announcing"
    /\ UNCHANGED <<live, faulty>>

Announce ==
    /\ phase = "announcing"
    /\ live' = status
    /\ UNCHANGED <<phase, status, faulty>>

(* The epilogue of a completed run may fail after all.                     *)
Revise ==
    /\ phase = "announcing" /\ faulty
    /\ status' = "FAILED"
    /\ UNCHANGED <<phase, live, faulty>>

Return ==
    /\ phase # "idle"
    /\ faulty \/ (phase = "announcing" /\ live = status)
    /\ phase' = "idle"
    /\ UNCHANGED <<status, live, faulty>>

(* A store fails, or the process is lost and the call is over.             *)
Break ==
    /\ phase # "idle"
    /\ faulty' = TRUE
    /\ phase' \in {phase, "idle"}
    /\ UNCHANGED <<status, live>>

Next == Begin \/ Settle \/ Announce \/ Revise \/ Return \/ Break

(* The call ends.  Begin is up to the caller.                              *)
Spec == Init /\ [][Next]_contract /\ (phase # "idle" ~> phase = "idle")
=============================================================================
