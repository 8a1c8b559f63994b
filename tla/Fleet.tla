------------------------------- MODULE Fleet --------------------------------
(***************************************************************************)
(* Several runs that share the broker's queue and the worker processes, as *)
(* far as clients and aggregate queries can tell them apart: what a GET    *)
(* answers, the columns cache_hit and safety_flagged, and the order in     *)
(* which the broker hands out messages.  Module RunLifecycle has one run   *)
(* in full; here the row and the live status are one, the worker starts    *)
(* after the handler has answered, and no process is lost.                 *)
(***************************************************************************)
EXTENDS Naturals, Sequences, FiniteSets

CONSTANTS
    Runs,         \* the runs that may be submitted
    Priority,     \* priority[r] of the request: 1 (highest, says the API) to 10
    Concurrency,  \* worker processes
    MaxReruns,    \* calls of /retry and /approve that are accepted
    MaxFaults     \* commits and publications that fail

ASSUME FleetConstants ==
    /\ Priority \in [Runs -> 1 .. 10]
    /\ Concurrency \in Nat \ {0}
    /\ {MaxReruns, MaxFaults} \subseteq Nat

VARIABLES
    row,     \* the rows of workflow_runs
    at,      \* what happens next to each run
    queue,   \* the messages in the broker, in the order of publication
    reply,   \* the answer to each /submit
    faults,  \* operations that may still fail
    reruns   \* reruns that may still be accepted

fleet == <<row, at, queue, reply, faults, reruns>>

Settled == {"COMPLETED", "FAILED", "DEAD_LETTER", "NEEDS_REVIEW", "SAFETY_BLOCKED"}
Retryable == {"FAILED", "DEAD_LETTER"}

(* What a worker process is doing, by the write that comes next.           *)
AttemptPcs == {"screen", "flag", "block", "look", "hit", "serve", "classify",
               "review", "steps", "complete", "score", "fail"}
Pcs == AttemptPcs \cup {"none", "publish", "queued", "idle"}

NoRow == [status |-> "none", hit |-> FALSE, flagged |-> FALSE, skip |-> FALSE]

Init ==
    /\ row = [r \in Runs |-> NoRow]
    /\ at = [r \in Runs |-> "none"]
    /\ queue = <<>>
    /\ reply = [r \in Runs |-> "none"]
    /\ faults = MaxFaults /\ reruns = MaxReruns

Goto(r, pc) == at' = [at EXCEPT ![r] = pc]
SetStatus(r, status) == row' = [row EXCEPT ![r].status = status]
OnlyAt == UNCHANGED <<row, queue, reply, faults, reruns>>
OnlyRow == UNCHANGED <<queue, reply, faults, reruns>>
-----------------------------------------------------------------------------
(* The handlers: the row is committed, then the task is published.         *)
Create(r) ==
    /\ at[r] = "none" /\ reply[r] = "none"
    /\ SetStatus(r, "PENDING")
    /\ Goto(r, "publish")
    /\ reply' = [reply EXCEPT ![r] = "waiting"]
    /\ UNCHANGED <<queue, faults, reruns>>

CreateFails(r) ==
    /\ at[r] = "none" /\ reply[r] = "none"
    /\ faults > 0 /\ faults' = faults - 1
    /\ reply' = [reply EXCEPT ![r] = "refused"]
    /\ UNCHANGED <<row, at, queue, reruns>>

Answer(r, a) == reply' = [reply EXCEPT ![r] = IF @ = "waiting" THEN a ELSE @]

Publish(r) ==
    /\ at[r] = "publish"
    /\ queue' = Append(queue, r)
    /\ Goto(r, "queued")
    /\ Answer(r, "accepted")
    /\ UNCHANGED <<row, faults, reruns>>

(* The broker refuses the message, or takes it and the commit of QUEUED    *)
(* fails: the client is told 500 either way.                               *)
PublishFails(r) ==
    /\ at[r] = "publish"
    /\ faults > 0 /\ faults' = faults - 1
    /\ \/ queue' = Append(queue, r) /\ Goto(r, "queued")
       \/ queue' = queue /\ Goto(r, "idle")
    /\ Answer(r, "refused")
    /\ UNCHANGED <<row, reruns>>

RerunOf(r, from, skip) ==
    /\ at[r] = "idle" /\ row[r].status \in from
    /\ reruns > 0 /\ reruns' = reruns - 1
    /\ row' = [row EXCEPT ![r].status = "PENDING", ![r].skip = skip]
    /\ Goto(r, "publish")
    /\ UNCHANGED <<queue, reply, faults>>

RetryAnySettled(r) == RerunOf(r, Settled, FALSE)  \* mutant: the status is not checked
Retry(r) == RerunOf(r, Retryable, FALSE)
Approve(r) == RerunOf(r, {"NEEDS_REVIEW"}, TRUE)
-----------------------------------------------------------------------------
(* The Redis transport keeps one list for each of the priorities 0, 3, 6   *)
(* and 9 and serves the lowest of them first.                              *)
CeleryPriority(r) == 10 - Priority[r]
Level(r) == CeleryPriority(r) - (CeleryPriority(r) % 3)

Active == {r \in Runs : at[r] \in AttemptPcs}

Take(r) ==
    /\ Cardinality(Active) < Concurrency
    /\ \E i \in DOMAIN queue :
         /\ queue[i] = r
         /\ \A j \in DOMAIN queue :
              IF j < i THEN Level(queue[j]) > Level(r) ELSE Level(queue[j]) >= Level(r)
         /\ queue' = SubSeq(queue, 1, i - 1) \o SubSeq(queue, i + 1, Len(queue))
    /\ SetStatus(r, "RUNNING")
    /\ Goto(r, "screen")
    /\ UNCHANGED <<reply, faults, reruns>>

(* A decision of the attempt: what it leads to is written next.            *)
Decide(r, pc, next) == at[r] = pc /\ at' \in {[at EXCEPT ![r] = p] : p \in next} /\ OnlyAt

Screen(r) == Decide(r, "screen", {"flag", "look"})
Look(r) == Decide(r, "look", {"classify"} \cup (IF row[r].skip THEN {} ELSE {"hit"}))
Classify(r) == Decide(r, "classify", 
                          {"steps", "fail"} \cup (IF row[r].skip THEN {} ELSE {"review"}))
Steps(r) == Decide(r, "steps", {"complete", "fail"})

Flag(r) ==
    /\ at[r] = "flag" /\ row' = [row EXCEPT ![r].flagged = TRUE]
    /\ Goto(r, "block") /\ OnlyRow
Hit(r) ==
    /\ at[r] = "hit" /\ row' = [row EXCEPT ![r].hit = TRUE]
    /\ Goto(r, "serve") /\ OnlyRow

Conclude(r, pc, status, next) == at[r] = pc /\ SetStatus(r, status) /\ Goto(r, next) /\ OnlyRow

Block(r) == Conclude(r, "block", "SAFETY_BLOCKED", "idle")
Serve(r) == Conclude(r, "serve", "COMPLETED", "idle")
Review(r) == Conclude(r, "review", "NEEDS_REVIEW", "idle")
Complete(r) == Conclude(r, "complete", "COMPLETED", "score")
Fail(r) == Conclude(r, "fail", "FAILED", "idle")
Score(r) == Decide(r, "score", {"idle"})

(* A commit fails and _fail_run follows, or fails in its turn.             *)
CommitFails(r) ==
    /\ at[r] \in AttemptPcs
    /\ faults > 0 /\ faults' = faults - 1
    /\ Goto(r, IF at[r] = "fail" THEN "idle" ELSE "fail")
    /\ UNCHANGED <<row, queue, reply, reruns>>

(* No session can be opened, on the first try and on every retry of the    *)
(* task, and dead_letter_task follows.                                     *)
Abandon(r) ==
    /\ at[r] = "screen"
    /\ faults > 0 /\ faults' = faults - 1
    /\ SetStatus(r, "DEAD_LETTER") /\ Goto(r, "idle")
    /\ UNCHANGED <<queue, reply, reruns>>

Work(r) ==
    \/ Take(r) \/ Screen(r) \/ Flag(r) \/ Block(r) \/ Look(r) \/ Hit(r) \/ Serve(r)
    \/ Classify(r) \/ Review(r) \/ Steps(r) \/ Complete(r) \/ Score(r) \/ Fail(r)
    \/ CommitFails(r) \/ Abandon(r)

Handle(r) == Publish(r) \/ PublishFails(r)

(* What happens by itself or is up to an operator.                         *)
Service == \E r \in Runs : Handle(r) \/ Retry(r) \/ Approve(r) \/ Work(r)
-----------------------------------------------------------------------------
(* Properties.                                                             *)

FleetTypeOK ==
    /\ row \in [Runs -> [status : Settled \cup {"none", "PENDING", "RUNNING"},
                         hit : BOOLEAN, flagged : BOOLEAN, skip : BOOLEAN]]
    /\ at \in [Runs -> Pcs]
    /\ queue \in Seq(Runs)
    /\ reply \in [Runs -> {"none", "waiting", "accepted", "refused"}]
    /\ faults \in 0 .. MaxFaults
    /\ reruns \in 0 .. MaxReruns
=============================================================================
