------------------------------ MODULE Clients -------------------------------
(***************************************************************************)
(* The programs of the repository that use the HTTP interface, against     *)
(* Fleet: the evaluation harness, which submits all its cases and then     *)
(* polls them one by one; a WorkflowLifecycleUser of the load test, which  *)
(* submits and polls as it likes; and one request to /metrics, whose       *)
(* queries share no snapshot.                                              *)
(*                                                                         *)
(* A token is valid until it expires, which may be at any moment.          *)
(***************************************************************************)
EXTENDS Fleet

CONSTANTS
    Cases,       \* EVAL_CASES, as a sequence of runs
    UserRuns,    \* the runs of the load test's user
    MaxPolls,    \* polls that fit into EVAL_TIMEOUT
    MaxExpiries, \* tokens that expire
    Companies    \* which of the clients are there together

ASSUME ClientConstants ==
    /\ Cases \in Seq(Runs) /\ Cases # <<>> /\ UserRuns \subseteq Runs
    /\ {Cases[i] : i \in DOMAIN Cases} \cap UserRuns = {}
    /\ {MaxPolls, MaxExpiries} \subseteq Nat
    /\ Companies \subseteq SUBSET {"eval", "user", "metrics"}

VARIABLES
    eval,      \* main() of eval.py
    user,      \* a WorkflowLifecycleUser
    report,    \* get_metrics: the runs that each query counted
    expiries   \* tokens that may still expire

clients == <<eval, user, report, expiries>>
vars == <<fleet, clients>>

TERMINAL == {"COMPLETED", "FAILED", "DEAD_LETTER", "NEEDS_REVIEW"}
_TERMINAL_STATUSES == {"COMPLETED", "FAILED", "DEAD_LETTER"}

Tokens == {"none", "fresh", "stale"}

(* require_auth: a valid key, or a token that has not expired.  The load   *)
(* test sends its key as long as it has no token.                          *)
Authorized(token) == token # "stale"

ClientsInit ==
    /\ Init
    /\ \E here \in Companies :
         LET from(client, pc) == IF client \in here THEN pc ELSE "absent" IN
         /\ eval = [pc |-> from("eval", "token"), token |-> "none", case |-> 1,
                    left |-> MaxPolls, verdict |-> [i \in DOMAIN Cases |-> "none"]]
         /\ user = [pc |-> from("user", "start"), token |-> "none",
                    awaiting |-> {}, pending |-> {}]
         /\ report = [pc |-> from("metrics", "statuses"), calm |-> {}, reruns |-> MaxReruns,
                      completed |-> {}, blocked |-> {}, hits |-> {}, flagged |-> {}]
    /\ expiries = MaxExpiries

OnlyEval == UNCHANGED <<user, report, expiries>>
OnlyUser == UNCHANGED <<eval, report, expiries>>
-----------------------------------------------------------------------------
(* eval.py                                                                 *)

EvalToken ==
    /\ eval.pc = "token"
    /\ eval' \in {[eval EXCEPT !.pc = "submit", !.token = "fresh"],
                  [eval EXCEPT !.pc = "aborted"]}
    /\ UNCHANGED fleet /\ OnlyEval

NextSubmit(e) ==
    IF e.case < Len(Cases) THEN [e EXCEPT !.pc = "submit", !.case = @ + 1]
    ELSE [e EXCEPT !.pc = "poll", !.case = 1]

EvalSubmit ==
    /\ eval.pc = "submit" /\ Authorized(eval.token)
    /\ Create(Cases[eval.case]) \/ CreateFails(Cases[eval.case])
    /\ eval' = [eval EXCEPT !.pc = "await"]
    /\ OnlyEval

EvalUnauthorized ==
    /\ eval.pc = "submit" /\ ~Authorized(eval.token)
    /\ eval' = NextSubmit([eval EXCEPT !.verdict[eval.case] = "submit_failed"])
    /\ UNCHANGED fleet /\ OnlyEval

EvalSubmitted ==
    /\ eval.pc = "await"
    /\ LET a == reply[Cases[eval.case]] IN
         \/ a = "accepted" /\ eval' = NextSubmit(eval)
         \/ /\ a = "refused"
            /\ eval' = NextSubmit([eval EXCEPT !.verdict[eval.case] = "submit_failed"])
    /\ UNCHANGED fleet /\ OnlyEval

NextPollBeyond(e, verdict) ==  \* mutant: <= for <
    LET f == [e EXCEPT !.verdict[e.case] = verdict, !.left = MaxPolls] IN
    IF e.case <= Len(Cases) THEN [f EXCEPT !.case = @ + 1] ELSE [f EXCEPT !.pc = "report"]
NextPoll(e, verdict) ==
    LET f == [e EXCEPT !.verdict[e.case] = verdict, !.left = MaxPolls] IN
    IF e.case < Len(Cases) THEN [f EXCEPT !.case = @ + 1] ELSE [f EXCEPT !.pc = "report"]

(* One round of poll(): an answer, a response that is not 200 (and is      *)
(* ignored, 401 included), or an exception.                                *)
EvalPollLeaving(left) ==
    /\ eval.pc = "poll" /\ eval.verdict[eval.case] = "none" /\ eval.left > 0
    /\ LET status == row[Cases[eval.case]].status
           again == [eval EXCEPT !.left = left]
       IN  \/ /\ Authorized(eval.token)
              /\ eval' = IF status \in TERMINAL THEN NextPoll(eval, status) ELSE again
           \/ ~Authorized(eval.token) /\ eval' = again
           \/ eval' = NextPoll(eval, "error")
    /\ UNCHANGED fleet /\ OnlyEval

EvalPollForEver ==  \* mutant: the deadline is set anew
    EvalPollLeaving(IF eval.left = 1 THEN MaxPolls ELSE eval.left - 1)
EvalPoll == EvalPollLeaving(eval.left - 1)

EvalTimesOut ==
    /\ eval.pc = "poll" /\ eval.verdict[eval.case] = "none" /\ eval.left = 0
    /\ eval' = NextPoll(eval, "timeout")
    /\ UNCHANGED fleet /\ OnlyEval

EvalSkips ==
    /\ eval.pc = "poll" /\ eval.verdict[eval.case] # "none"
    /\ eval' = NextPoll(eval, eval.verdict[eval.case])
    /\ UNCHANGED fleet /\ OnlyEval

Eval ==
    \/ EvalToken \/ EvalSubmit \/ EvalUnauthorized \/ EvalSubmitted
    \/ EvalPoll \/ EvalTimesOut \/ EvalSkips
-----------------------------------------------------------------------------
(* locustfile.py                                                           *)

(* _fetch_token: anything but a 200 leaves the token as it was.            *)
FetchToken(pc) ==
    /\ \/ user' = [user EXCEPT !.pc = pc, !.token = "fresh"] /\ UNCHANGED faults
       \/ user' = [user EXCEPT !.pc = pc] /\ faults > 0 /\ faults' = faults - 1
    /\ UNCHANGED <<row, at, queue, reply, reruns>>

UserStart == user.pc = "start" /\ FetchToken("idle") /\ OnlyUser

UserSubmit(r) ==
    /\ user.pc = "idle" /\ Authorized(user.token)
    /\ Create(r) \/ CreateFails(r)
    /\ user' = [user EXCEPT !.pc = "await", !.awaiting = {r}]
    /\ OnlyUser

UserSubmitted ==
    /\ user.pc = "await" /\ \A r \in user.awaiting : reply[r] \in {"accepted", "refused"}
    /\ user' = [user EXCEPT !.pc = "idle", !.awaiting = {},
                            !.pending = @ \cup {r \in user.awaiting : reply[r] = "accepted"}]
    /\ UNCHANGED fleet /\ OnlyUser

(* A 401 on either request.                                                *)
UserKeepsToken == user.pc = "idle" /\ ~Authorized(user.token) /\ UNCHANGED vars  \* mutant
UserRefused == user.pc = "idle" /\ ~Authorized(user.token) /\ FetchToken("idle") /\ OnlyUser

UserPollDropping(r, final) ==
    /\ user.pc = "idle" /\ r \in user.pending /\ Authorized(user.token)
    /\ row[r].status \in final
    /\ user' = [user EXCEPT !.pending = @ \ {r}]
    /\ UNCHANGED fleet /\ OnlyUser

UserPollDroppingAll(r) ==  \* mutant: every 200 takes the run off the list
    UserPollDropping(r, Settled \cup {"PENDING", "RUNNING"})
UserPoll(r) == UserPollDropping(r, _TERMINAL_STATUSES)

User ==
    \/ UserStart \/ UserSubmitted \/ UserRefused
    \/ \E r \in UserRuns : UserSubmit(r) \/ UserPoll(r)
-----------------------------------------------------------------------------
(* get_metrics.  calm and reruns are history: the runs that were over, and *)
(* the reruns that were to come, when the first query ran.                 *)
CountStatuses ==
    /\ report.pc = "statuses"
    /\ report' = [report EXCEPT
         !.pc = "hits",
         !.completed = {r \in Runs : row[r].status = "COMPLETED"},
         !.blocked = {r \in Runs : row[r].status = "SAFETY_BLOCKED"},
         !.calm = {r \in Runs : at[r] = "idle" /\ row[r].status # "none"},
         !.reruns = reruns]

CountHits ==
    /\ report.pc = "hits"
    /\ report' = [report EXCEPT !.pc = "flagged", !.hits = {r \in Runs : row[r].hit}]

CountFlagged ==
    /\ report.pc = "flagged"
    /\ report' = [report EXCEPT !.pc = "done", !.flagged = {r \in Runs : row[r].flagged}]

Metrics == (CountStatuses \/ CountHits \/ CountFlagged) /\ UNCHANGED <<fleet, eval, user, expiries>>
-----------------------------------------------------------------------------
Expire ==
    /\ expiries > 0 /\ expiries' = expiries - 1
    /\ \/ eval.token = "fresh" /\ eval' = [eval EXCEPT !.token = "stale"] /\ UNCHANGED user
       \/ user.token = "fresh" /\ user' = [user EXCEPT !.token = "stale"] /\ UNCHANGED eval
    /\ UNCHANGED <<fleet, report>>

Next == Eval \/ User \/ Metrics \/ Expire \/ (Service /\ UNCHANGED clients)

Spec == ClientsInit /\ [][Next]_vars

(* Handlers answer, the harness goes on, and the load test's user neither  *)
(* stops nor, choosing at random, forgets a run for ever.  Workers and     *)
(* operators owe the clients nothing.                                      *)
Fairness ==
    /\ \A r \in Runs : WF_vars(Handle(r) /\ UNCHANGED clients)
    /\ WF_vars(Eval)
    /\ WF_vars(UserStart \/ UserSubmitted \/ UserRefused)
    /\ \A r \in UserRuns : SF_vars(UserPoll(r))

FairSpec == Spec /\ Fairness
-----------------------------------------------------------------------------
(* Properties.                                                             *)

Verdicts == TERMINAL \cup {"none", "timeout", "error", "submit_failed"}

(* Every variable has its type.                                            *)
TypeOK ==
    /\ FleetTypeOK
    /\ eval \in [pc : {"token", "submit", "await", "poll", "report", "aborted", "absent"},
                 token : Tokens, case : DOMAIN Cases, left : 0 .. MaxPolls,
                 verdict : [DOMAIN Cases -> Verdicts]]
    /\ user \in [pc : {"start", "idle", "await", "absent"}, token : Tokens,
                 awaiting : SUBSET UserRuns, pending : SUBSET UserRuns]
    /\ report \in [pc : {"statuses", "hits", "flagged", "done", "absent"}, calm : SUBSET Runs,
                   completed : SUBSET Runs, blocked : SUBSET Runs,
                   hits : SUBSET Runs, flagged : SUBSET Runs, reruns : 0 .. MaxReruns]
    /\ expiries \in 0 .. MaxExpiries

(* metrics_service.py:61: cache_hits and total_runs come from different    *)
(* queries; cache_hit and safety_flagged are committed before the outcome  *)
(* they announce, and no rerun clears them (workflow_service.py:180-185).  *)
(* So a report may count a hit that it does not count as completed, or a   *)
(* violation without a blocked run, but, unless a commit fails, only of a  *)
(* run that was moving when the first query ran, or was rerun since.       *)
SkewIsMotion ==
    faults = MaxFaults /\ reruns = report.reruns =>
        /\ report.hits \cap report.calm \subseteq report.completed
        /\ report.flagged \cap report.calm \subseteq report.blocked

(* locustfile.py:175, "No run IDs are lost": a run whose submission was    *)
(* accepted is on the user's list until it is over, through all refused    *)
(* requests and expired tokens.                                            *)
AcceptedRunsAreWatched ==
    \A r \in UserRuns :
        reply[r] = "accepted" /\ r \notin user.awaiting /\ reruns = MaxReruns =>
            r \in user.pending \/ row[r].status \in _TERMINAL_STATUSES

(* eval.py:6, "polls until each run reaches a terminal status, then        *)
(* reports": the harness ends whatever the service does.                   *)
EvalEnds == <>(eval.pc \in {"report", "aborted", "absent"})

(* A run that is over leaves the user's list, though the token expires     *)
(* while it is polled: a 401 fetches another.                              *)
FinishedRunsAreDropped ==
    \A r \in UserRuns :
        r \in user.pending /\ row[r].status \in _TERMINAL_STATUSES
            ~> r \notin user.pending \/ row[r].status \notin _TERMINAL_STATUSES
=============================================================================
