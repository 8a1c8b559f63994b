----------------------------- MODULE RunClaims -----------------------------
(***************************************************************************)
(* What a comment says about the sync of the row by GET, stated over       *)
(* RunLifecycle.                                                           *)
(***************************************************************************)
EXTENDS RunLifecycle

VARIABLE reopened  \* history: the run was reset after its live status was written

RedisWritten == \E t \in Requests :
    SetRedisRunning(t) \/ WriteOutcomeRedis(t) \/ DeadLetterRedis(t)

ClaimsInit == Init /\ reopened = FALSE
ClaimsNext ==
    /\ Next
    /\ reopened' = IF RedisWritten THEN FALSE
                   ELSE reopened \/ \E r \in Requests : Reset(r)
ClaimsSpec == ClaimsInit /\ [][ClaimsNext]_<<vars, reopened>>

(* routes_runs.py:46, "Sync the DB record if Redis has a newer status":    *)
(* a GET does not write back a status from before /retry or /approve reset *)
(* the run.                                                                *)
SyncTakesTheNewerStatus ==
    [][\A g \in Readers : SyncRow(g) => ~reopened]_<<vars, reopened>>
=============================================================================
