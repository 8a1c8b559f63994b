--------------------------- MODULE RunLifecycle ---------------------------
(***************************************************************************)
(* The life of one workflow run: the HTTP handlers that accept, retry and  *)
(* approve it, the Celery tasks that execute it, the dead-letter task and  *)
(* the readers that poll it.  They share two stores, the Postgres row of   *)
(* the run and its status key in Redis, and no lock.  One action is one    *)
(* database commit, one Redis write, one published message, or one read    *)
(* whose value is used after an await.                                     *)
(*                                                                         *)
(* Runs never touch each other's row or key, so one run is modelled.  A    *)
(* request that is accepted publishes exactly one Celery task, which       *)
(* carries the request's name: task[r] is the task request r published.    *)
(***************************************************************************)
EXTENDS Naturals, FiniteSets

CONSTANTS
    Requests,        \* calls of /submit, /retry and /approve for this run
    Readers,         \* clients that poll GET /workflows/{run_id}
    MaxRetries,      \* settings.max_celery_retries
    Concurrency,     \* task processes over all workers
    MaxOverlap,      \* mutating requests in flight at once
    CacheEnabled,    \* settings.enable_semantic_cache
    FaultBudget      \* how often each kind of fault may happen

FaultKinds == {"store", "escape", "child", "node", "api"}

ASSUME RunConstants ==
    /\ MaxRetries \in Nat
    /\ Concurrency \in Nat \ {0}
    /\ MaxOverlap \in Nat \ {0}
    /\ CacheEnabled \in BOOLEAN
    /\ FaultBudget \in [FaultKinds -> Nat]
    /\ IsFiniteSet(Requests)

VARIABLES
    row,         \* the run's row in Postgres, as committed
    redis,       \* the value of run:{id}:status
    request,     \* the handler of each request
    task,        \* the Celery task each request published (settled: history)
    deadLetter,  \* the dead_letter_task each task published
    reader,      \* the GET handler of each reader
    budget,      \* faults that may still happen
    held,        \* history: some attempt has recorded NEEDS_REVIEW
    breached     \* history: a way to a second task has been taken (SingleFlight)

vars == <<row, redis, request, task, deadLetter, reader, budget, held, breached>>

-----------------------------------------------------------------------------
Statuses == {"PENDING", "QUEUED", "RUNNING", "COMPLETED", "FAILED",
             "DEAD_LETTER", "NEEDS_REVIEW", "SAFETY_BLOCKED"}
NoStatus == "none"
Settled == {"COMPLETED", "FAILED", "DEAD_LETTER", "NEEDS_REVIEW", "SAFETY_BLOCKED"}
Retryable == {"FAILED", "DEAD_LETTER"}
Rerunnable == Retryable \cup {"NEEDS_REVIEW"}

(* How an attempt of run_workflow ends, and the status it then writes.     *)
Outcomes == {"blocked", "cached", "review", "answered", "failed"}
StatusOf == [o \in Outcomes |->
    CASE o = "blocked" -> "SAFETY_BLOCKED"
      [] o = "review"  -> "NEEDS_REVIEW"
      [] o = "failed"  -> "FAILED"
      [] OTHER         -> "COMPLETED"]

(* A pc names the operation that comes next.                               *)
HandlerPcs == {"idle", "reset", "enqueue", "markQueued", "done", "crashed"}
DbPcs == {"dbRunning", "flag", "markHit", "classify", "steps", "dbOutcome", "quality"}
RedisPcs == {"redisRunning", "redisOutcome"}
AttemptPcs == DbPcs \cup RedisPcs \cup {"safety", "cache", "return"}
TaskPcs == AttemptPcs \cup {"unsent", "queued", "done", "lost"}
DeadLetterPcs == {"unsent", "queued", "db", "redis", "done"}
ReaderPcs == {"idle", "live", "sync"}

(* A task as the broker delivers it: its arguments, its retry count and    *)
(* whether it has committed an outcome to the row.                         *)
Message(pc, skip, retries, settled) ==
    [pc |-> pc, skip |-> skip, retries |-> retries, outcome |-> "none", low |-> FALSE,
     settled |-> settled]

(* A task that may still commit an outcome, because it has committed none  *)
(* or is on its way to the next; or one that is about to be published.     *)
AfterOutcome == {"redisOutcome", "quality", "return"}
Unsettled(t) ==
    /\ task[t].pc \in AttemptPcs \cup {"queued"}
    /\ task[t].settled => task[t].pc \notin AfterOutcome
UnderWay == \E r \in Requests : Unsettled(r) \/ request[r].pc = "enqueue"
Breach(way) == breached' = (breached \/ way)

InFlight == {r \in Requests : request[r].pc \in {"reset", "enqueue", "markQueued"}}
Busy == {t \in Requests : task[t].pc \in AttemptPcs}
             \cup {t \in Requests : deadLetter[t] \in {"db", "redis"}}

Init ==
    /\ row = [status |-> NoStatus, output |-> "none", flagged |-> FALSE,
              cacheHit |-> FALSE, quality |-> FALSE]
    /\ redis = NoStatus
    /\ request = [r \in Requests |-> [op |-> "none", pc |-> "idle"]]
    /\ task = [r \in Requests |-> Message("unsent", FALSE, 0, FALSE)]
    /\ deadLetter = [r \in Requests |-> "unsent"]
    /\ reader = [g \in Readers |-> [pc |-> "idle", seen |-> NoStatus, live |-> NoStatus]]
    /\ budget = FaultBudget
    /\ held = FALSE
    /\ breached = FALSE

Spend(kind) ==
    /\ budget[kind] > 0
    /\ budget' = [budget EXCEPT ![kind] = @ - 1]
-----------------------------------------------------------------------------
(* The handlers of routes_workflows.py.                                    *)

OnlyHandler == UNCHANGED <<redis, deadLetter, reader, held>>

(* A breach if another request is between its status check and its reset.  *)
Accept(r, op, next) ==
    /\ request[r].pc = "idle"
    /\ Cardinality(InFlight) < MaxOverlap
    /\ request' = [request EXCEPT ![r] = [op |-> op, pc |-> next]]
    /\ Breach(\E q \in Requests : request[q].pc = "reset")

(* create_run commits the row as PENDING.                                  *)
Submit(r) ==
    /\ row.status = NoStatus
    /\ Accept(r, "submit", "enqueue")
    /\ row' = [row EXCEPT !.status = "PENDING"]
    /\ OnlyHandler /\ UNCHANGED <<task, budget>>

(* The row is read and its status checked; the reset comes after an await. *)
AcceptRerun(r, op, from) ==
    /\ row.status \in from
    /\ Accept(r, op, "reset")
    /\ OnlyHandler /\ UNCHANGED <<row, task, budget>>

RetryUnchecked(r) == AcceptRerun(r, "retry", Statuses)  \* mutant: no status check
Retry(r) == AcceptRerun(r, "retry", Retryable)
Approve(r) == AcceptRerun(r, "approve", {"NEEDS_REVIEW"})

(* reset_run_for_retry                                                     *)
Reset(r) ==
    /\ request[r].pc = "reset"
    /\ row' = [row EXCEPT !.status = "PENDING", !.output = "none"]
    /\ request' = [request EXCEPT ![r].pc = "enqueue"]
    /\ OnlyHandler /\ UNCHANGED <<task, budget, breached>>

(* execute_workflow_task.apply_async: only an approval skips the gate.     *)
EnqueueSkippingFor(r, ops) ==
    /\ request[r].pc = "enqueue"
    /\ task' = [task EXCEPT ![r] = Message("queued", request[r].op \in ops, 0, FALSE)]
    /\ request' = [request EXCEPT ![r].pc = "markQueued"]
    /\ OnlyHandler /\ UNCHANGED <<row, budget, breached>>

EnqueueSkippingGate(r) == EnqueueSkippingFor(r, {"retry", "approve"})  \* mutant
Enqueue(r) == EnqueueSkippingFor(r, {"approve"})

MarkQueued(r) ==
    /\ request[r].pc = "markQueued"
    /\ row' = [row EXCEPT !.status = "QUEUED"]
    /\ request' = [request EXCEPT ![r].pc = "done"]
    /\ OnlyHandler /\ UNCHANGED <<task, budget, breached>>

(* The API process dies, or apply_async or a commit raises (HTTP 500).     *)
HandlerCrash(r) ==
    /\ r \in InFlight
    /\ Spend("api")
    /\ request' = [request EXCEPT ![r].pc = "crashed"]
    /\ OnlyHandler /\ UNCHANGED <<row, task, breached>>

HandlerStep(r) == Reset(r) \/ Enqueue(r) \/ MarkQueued(r)
-----------------------------------------------------------------------------
(* One attempt of execute_workflow_task: run_workflow at the granularity   *)
(* of the status writes.  Planning and step execution are the single pc    *)
(* "steps" here; module Orchestrator opens it.                             *)

OnlyTask == UNCHANGED <<request, deadLetter, reader>>
Goto(t, pc) == task' = [task EXCEPT ![t].pc = pc]
Conclude(t, outcome) ==
    task' = [task EXCEPT ![t].pc = "dbOutcome", ![t].outcome = outcome]

(* A free worker process takes the message; it is acknowledged at the end. *)
Deliver(t) ==
    /\ task[t].pc = "queued"
    /\ Cardinality(Busy) < Concurrency
    /\ Goto(t, "redisRunning")
    /\ OnlyTask /\ UNCHANGED <<row, redis, budget, held, breached>>

SetRedisRunning(t) ==
    /\ task[t].pc = "redisRunning"
    /\ redis' = "RUNNING"
    /\ Goto(t, "dbRunning")
    /\ OnlyTask /\ UNCHANGED <<row, budget, held, breached>>

SetDbRunning(t) ==
    /\ task[t].pc = "dbRunning"
    /\ row' = [row EXCEPT !.status = "RUNNING"]
    /\ Goto(t, "safety")
    /\ OnlyTask /\ UNCHANGED <<redis, budget, held, breached>>

(* check_safety: the filter passes the input or blocks it.                 *)
SafetyGate(t) ==
    /\ task[t].pc = "safety"
    /\ \E next \in {"flag", "cache"} : Goto(t, next)
    /\ OnlyTask /\ UNCHANGED <<row, redis, budget, held, breached>>

FlagUnsafe(t) ==
    /\ task[t].pc = "flag"
    /\ row' = [row EXCEPT !.flagged = TRUE]
    /\ Conclude(t, "blocked")
    /\ OnlyTask /\ UNCHANGED <<redis, budget, held, breached>>

(* check_cache is skipped for an approved run.                             *)
CacheGate(t) ==
    /\ task[t].pc = "cache"
    /\ \/ Goto(t, "classify")
       \/ /\ CacheEnabled /\ ~task[t].skip
          /\ Goto(t, "markHit")
    /\ OnlyTask /\ UNCHANGED <<row, redis, budget, held, breached>>

MarkCacheHit(t) ==
    /\ task[t].pc = "markHit"
    /\ row' = [row EXCEPT !.cacheHit = TRUE]
    /\ Conclude(t, "cached")
    /\ OnlyTask /\ UNCHANGED <<redis, budget, held, breached>>

(* The confidence gate: low confidence without approval goes to review.    *)
Classify(t) ==
    /\ task[t].pc = "classify"
    /\ \E low \in BOOLEAN :
         IF low /\ ~task[t].skip
         THEN Conclude(t, "review")
         ELSE task' = [task EXCEPT ![t].pc = "steps", ![t].low = low]
    /\ OnlyTask /\ UNCHANGED <<row, redis, budget, held, breached>>

ExecuteSteps(t) ==
    /\ task[t].pc = "steps"
    /\ Conclude(t, "answered")
    /\ OnlyTask /\ UNCHANGED <<row, redis, budget, held, breached>>

(* An agent or a tool gives up: OrchestratorError, caught by run_workflow. *)
WorkFails(t) ==
    /\ task[t].pc \in {"classify", "steps"}
    /\ Conclude(t, "failed")
    /\ OnlyTask /\ UNCHANGED <<row, redis, budget, held, breached>>

(* update_run_status leaves final_output alone when it is given none.      *)
WriteOutcomeStoring(t, answers) ==
    /\ task[t].pc = "dbOutcome"
    /\ LET o == task[t].outcome IN
         /\ row' = [row EXCEPT !.status = StatusOf[o],
                               !.output = CASE o = "blocked" -> "blocked"
                                            [] o \in answers -> "answer"
                                            [] OTHER -> row.output]
         /\ held' = (held \/ o = "review")
    /\ task' = [task EXCEPT ![t].pc = "redisOutcome",
                            ![t].settled = TRUE]
    /\ OnlyTask /\ UNCHANGED <<redis, budget, breached>>

WriteOutcomeNoAnswer(t) == WriteOutcomeStoring(t, {"cached"})  \* mutant
WriteOutcomeDb(t) == WriteOutcomeStoring(t, {"cached", "answered"})

WriteNoOutcomeRedis(t) ==  \* mutant: the outcome's set_status is missing
    /\ task[t].pc = "redisOutcome"
    /\ Goto(t, "return")
    /\ OnlyTask /\ UNCHANGED <<row, redis, budget, held, breached>>

WriteOutcomeRedis(t) ==
    /\ task[t].pc = "redisOutcome"
    /\ redis' = StatusOf[task[t].outcome]
    /\ Goto(t, IF task[t].outcome = "answered" THEN "quality" ELSE "return")
    /\ OnlyTask /\ UNCHANGED <<row, budget, held, breached>>

(* The judge may return no score; then no row is written.                  *)
WriteQuality(t) ==
    /\ task[t].pc = "quality"
    /\ \E scored \in BOOLEAN : row' = [row EXCEPT !.quality = @ \/ scored]
    /\ Goto(t, "return")
    /\ OnlyTask /\ UNCHANGED <<redis, budget, held, breached>>

(* Its outcome goes with the attempt.                                      *)
End(t, pc) ==
    task' = [task EXCEPT ![t].pc = pc, ![t].outcome = "none"]

Acknowledge(t) ==
    /\ task[t].pc = "return"
    /\ End(t, "done")
    /\ OnlyTask /\ UNCHANGED <<row, redis, budget, held, breached>>

(* A store operation raises.  run_workflow turns that into _fail_run; a    *)
(* second failure, or a session whose transaction the first one left       *)
(* inactive, is swallowed there and nothing is written.                    *)
StoreFault(t) ==
    /\ task[t].pc \in DbPcs \cup RedisPcs
    /\ Spend("store")
    /\ \/ /\ task[t].outcome # "failed"
          /\ Conclude(t, "failed")
          /\ Breach(task[t].settled)
       \/ /\ task[t].outcome = "failed" \/ task[t].pc \in DbPcs
          /\ task' = [task EXCEPT ![t].pc = "return", ![t].outcome = "failed"]
          /\ UNCHANGED breached
    /\ OnlyTask /\ UNCHANGED <<row, redis, held>>
-----------------------------------------------------------------------------
(* What Celery does with a task that does not simply return.               *)

(* An exception leaves run_workflow (closing the session raises): retry    *)
(* the same task, or publish dead_letter_task once retries are used up.    *)
EscapeUpTo(t, limit, skip) ==
    /\ task[t].pc = "return"
    /\ Spend("escape")
    /\ IF task[t].retries < limit
       THEN /\ task' = [task EXCEPT ![t] = Message("queued", skip, task[t].retries + 1,
                                                   task[t].settled)]
            /\ Breach(task[t].settled)
            /\ UNCHANGED deadLetter
       ELSE /\ End(t, "done")
            /\ deadLetter' = [deadLetter EXCEPT ![t] = "queued"]
            /\ UNCHANGED breached
    /\ UNCHANGED <<row, redis, request, reader, held>>

EscapeOnceMore(t) == EscapeUpTo(t, MaxRetries + 1, task[t].skip)  \* mutant: <= for <
EscapeOnceLess(t) == EscapeUpTo(t, MaxRetries - 1, task[t].skip)  \* mutant
EscapeForgetting(t) == EscapeUpTo(t, MaxRetries, ~task[t].skip)   \* mutant: skip flag
Escape(t) == EscapeUpTo(t, MaxRetries, task[t].skip)

(* The task's process is killed.  With acks_late and without               *)
(* reject_on_worker_lost the parent acknowledges the message.              *)
ChildLost(t) ==
    /\ task[t].pc \in AttemptPcs
    /\ Spend("child")
    /\ End(t, "lost")
    /\ OnlyTask /\ UNCHANGED <<row, redis, held, breached>>

(* The whole worker disappears: the broker delivers the unacknowledged     *)
(* message again, with the same arguments and retry count.                 *)
NodeLost(t) ==
    /\ task[t].pc \in AttemptPcs
    /\ Spend("node")
    /\ task' = [task EXCEPT ![t] = Message("queued", task[t].skip, task[t].retries,
                                           task[t].settled)]
    /\ Breach(task[t].settled)
    /\ OnlyTask /\ UNCHANGED <<row, redis, held>>

AttemptStep(t) ==
    \/ SetRedisRunning(t) \/ SetDbRunning(t) \/ SafetyGate(t) \/ FlagUnsafe(t)
    \/ CacheGate(t) \/ MarkCacheHit(t) \/ Classify(t) \/ ExecuteSteps(t)
    \/ WorkFails(t) \/ WriteOutcomeDb(t) \/ WriteOutcomeRedis(t)
    \/ WriteQuality(t) \/ Acknowledge(t)
-----------------------------------------------------------------------------
(* dead_letter_task                                                        *)

OnlyDeadLetter == UNCHANGED <<request, task, reader, held>>
DeadLetterGoto(t, pc) == deadLetter' = [deadLetter EXCEPT ![t] = pc]

DeadLetterDeliver(t) ==
    /\ deadLetter[t] = "queued"
    /\ Cardinality(Busy) < Concurrency
    /\ DeadLetterGoto(t, "db")
    /\ OnlyDeadLetter /\ UNCHANGED <<row, redis, budget, breached>>

DeadLetterDb(t) ==
    /\ deadLetter[t] = "db"
    /\ row' = [row EXCEPT !.status = "DEAD_LETTER"]
    /\ Breach(UnderWay)
    /\ DeadLetterGoto(t, "redis")
    /\ OnlyDeadLetter /\ UNCHANGED <<redis, budget>>

DeadLetterRedis(t) ==
    /\ deadLetter[t] = "redis"
    /\ redis' = "DEAD_LETTER"
    /\ DeadLetterGoto(t, "done")
    /\ OnlyDeadLetter /\ UNCHANGED <<row, budget, breached>>

(* Raising or losing its process ends the task, which is never retried;    *)
(* losing the worker has the message delivered again.                      *)
DeadLetterFault(t) ==
    /\ deadLetter[t] \in {"db", "redis"}
    /\ \/ (Spend("store") \/ Spend("child")) /\ DeadLetterGoto(t, "done")
       \/ Spend("node") /\ DeadLetterGoto(t, "queued")
    /\ OnlyDeadLetter /\ UNCHANGED <<row, redis, breached>>

DeadLetterStep(t) == DeadLetterDb(t) \/ DeadLetterRedis(t)
-----------------------------------------------------------------------------
(* GET /workflows/{run_id}                                                 *)

OnlyReader == UNCHANGED <<redis, request, task, deadLetter, budget, held>>

ReadRow(g) ==
    /\ reader[g].pc = "idle"
    /\ row.status # NoStatus
    /\ reader' = [reader EXCEPT ![g] = [pc |-> "live", seen |-> row.status,
                                        live |-> NoStatus]]
    /\ OnlyReader /\ UNCHANGED <<row, breached>>

ReadLive(g) ==
    /\ reader[g].pc = "live"
    /\ reader' = [reader EXCEPT ![g] =
                    IF redis \notin {NoStatus, reader[g].seen}
                    THEN [pc |-> "sync", seen |-> NoStatus, live |-> redis]
                    ELSE [pc |-> "idle", seen |-> NoStatus, live |-> NoStatus]]
    /\ OnlyReader /\ UNCHANGED <<row, breached>>

SyncRowTo(g, status) ==
    /\ reader[g].pc = "sync"
    /\ row' = [row EXCEPT !.status = status]
    /\ reader' = [reader EXCEPT ![g] = [pc |-> "idle", seen |-> NoStatus,
                                        live |-> NoStatus]]
    /\ Breach(status \in Rerunnable /\ UnderWay)
    /\ OnlyReader

SyncRowUnwritten(g) == SyncRowTo(g, row.status)  \* mutant: answers, writes nothing
SyncRow(g) == SyncRowTo(g, reader[g].live)

ReaderStep(g) == ReadRow(g) \/ ReadLive(g) \/ SyncRow(g)
-----------------------------------------------------------------------------
Next ==
    \/ \E r \in Requests :
         \/ Submit(r) \/ Retry(r) \/ Approve(r)
         \/ HandlerStep(r) \/ HandlerCrash(r)
    \/ \E t \in Requests :
         \/ Deliver(t) \/ AttemptStep(t)
         \/ StoreFault(t) \/ Escape(t) \/ ChildLost(t) \/ NodeLost(t)
         \/ DeadLetterDeliver(t) \/ DeadLetterStep(t) \/ DeadLetterFault(t)
    \/ \E g \in Readers : ReaderStep(g)

Spec == Init /\ [][Next]_vars

(* A handler that runs keeps running, a worker pool with a free process    *)
(* takes a waiting message, and a task that runs keeps running: its agents *)
(* and stores answer or raise.  No fairness for new requests or faults.    *)
Fairness ==
    /\ \A r \in Requests : WF_vars(HandlerStep(r))
    /\ \A t \in Requests :
         /\ WF_vars(Deliver(t)) /\ WF_vars(AttemptStep(t))
         /\ WF_vars(DeadLetterDeliver(t)) /\ WF_vars(DeadLetterStep(t))

FairSpec == Spec /\ Fairness

(* ... and clients that go on polling.                                     *)
PollingSpec == FairSpec /\ \A g \in Readers : WF_vars(ReaderStep(g))
-----------------------------------------------------------------------------
(* Properties.                                                             *)

RowType == [status : Statuses \cup {NoStatus}, output : {"none", "blocked", "answer"},
            flagged : BOOLEAN, cacheHit : BOOLEAN, quality : BOOLEAN]
RequestType == [op : {"none", "submit", "retry", "approve"}, pc : HandlerPcs]
TaskType == [pc : TaskPcs, skip : BOOLEAN, retries : 0 .. MaxRetries,
             outcome : Outcomes \cup {"none"}, low : BOOLEAN,
             settled : BOOLEAN]
ReaderType == [pc : ReaderPcs, seen : Statuses \cup {NoStatus},
               live : Statuses \cup {NoStatus}]

(* Every variable has its type.  In particular the retry count of a task   *)
(* never passes max_celery_retries (tasks.py:59), and an attempt that is   *)
(* about to write its outcome has chosen one.                              *)
TypeOK ==
    /\ row \in RowType
    /\ redis \in {NoStatus, "RUNNING"} \cup Settled
    /\ request \in [Requests -> RequestType]
    /\ task \in [Requests -> TaskType]
    /\ deadLetter \in [Requests -> DeadLetterPcs]
    /\ reader \in [Readers -> ReaderType]
    /\ budget \in [FaultKinds -> Nat]
    /\ held \in BOOLEAN /\ breached \in BOOLEAN
    /\ \A t \in Requests :
         task[t].pc \in {"dbOutcome", "redisOutcome"} => task[t].outcome \in Outcomes

(* The confidence gate (orchestrator.py:139): steps are executed on a      *)
(* classification of low confidence only by a task that an approval        *)
(* published, and only after some attempt had put the run in review.       *)
LowConfidenceNeedsApproval ==
    \A t \in Requests :
        task[t].low => held /\ task[t].skip /\ request[t].op = "approve"

(* DEAD_LETTER, in either store, means that one task has raised on its     *)
(* first attempt and on every retry (tasks.py:59-64).                      *)
DeadLetterAfterAllRetries ==
    "DEAD_LETTER" \in {row.status, redis} =>
        \E t \in Requests : task[t].retries = MaxRetries /\ task[t].pc = "done"

Open(t) == \/ task[t].pc \in AttemptPcs \cup {"queued"}
           \/ deadLetter[t] \in {"queued", "db", "redis"}

(* No fault of these kinds has happened yet.                               *)
Spared(kinds) == \A k \in kinds : budget[k] = FaultBudget[k]

(* A live status of RUNNING is backed by a task that is queued or runs, as *)
(* long as no store operation failed and no task process was killed:       *)
(* set_status(RUNNING) is always followed by the write of an outcome.      *)
RunningIsBacked ==
    Spared({"store", "child"}) /\ redis = "RUNNING" => \E t \in Requests : Open(t)

(* Once no handler and no task is left, a row that still says PENDING,     *)
(* QUEUED or RUNNING can be repaired by the next GET: Redis has an outcome *)
(* (routes_runs.py:43-48).  So a handler that dies between the reset and   *)
(* the publication does no lasting harm to a rerun; only a /submit that    *)
(* dies there leaves a run that nothing and nobody will ever execute.      *)
StaleRowIsRepairable ==
    /\ Spared({"store", "child"})
    /\ InFlight = {}
    /\ \A t \in Requests : ~Open(t)
    /\ row.status \in {"PENDING", "QUEUED", "RUNNING"}
    => redis \in Settled \/ \A t \in Requests : task[t].pc = "unsent"

(* A run whose row says COMPLETED has an answer, as long as nobody polls:  *)
(* reset_run_for_retry clears the output together with the status, and     *)
(* only a GET that read Redis before it restores the status alone.         *)
CompletedHasAnswer ==
    Readers = {} /\ row.status = "COMPLETED" => row.output = "answer"

(* A run has at most one task that has yet to settle its row, with any     *)
(* number of requests and readers at once and whatever fails, until a way  *)
(* to a second one has been taken, of which there are four: /retry or      *)
(* /approve passed its check while another was between its check and its   *)
(* reset (routes_workflows.py:65 and 102); a GET, or a dead letter, put a  *)
(* status that lets a rerun in over a task that was still under way        *)
(* (routes_runs.py:47, tasks.py:83); a task that had settled the row was   *)
(* given back to the broker, by Celery's retry or after a lost worker      *)
(* (tasks.py:60); or one failed after it (orchestrator.py:304).  All else  *)
(* the two checks keep out: requests that overlap elsewhere, handlers,     *)
(* processes and workers that die and stores that fail before the outcome  *)
(* is committed, and the retry of an attempt that could commit none.       *)
SingleFlight ==
    ~breached => \A s, t \in Requests : Unsettled(s) /\ Unsettled(t) => s = t

(* Every run that is submitted reaches an outcome that clients can see.    *)
EventuallySettled == row.status # NoStatus ~> redis \in Settled

(* Polling closes the window between the stores: once requests stop, the   *)
(* row and the live status agree for good.                                 *)
PollingConverges == <>[](row.status = redis)
-----------------------------------------------------------------------------
(* What makes the two invariants above inductive.                          *)

(* A request publishes its task once, and the task starts from nothing.    *)
PublishedOnce ==
    \A r \in Requests :
        /\ request[r].pc \in {"idle", "reset", "enqueue"} => task[r].pc = "unsent"
        /\ task[r].pc = "unsent" =>
             ~task[r].skip /\ ~task[r].low /\ deadLetter[r] = "unsent"

(* Wherever NEEDS_REVIEW can be read, some attempt has recorded it, and so *)
(* it has when an approval was accepted.                                   *)
ReviewIsRecorded ==
    /\ "NEEDS_REVIEW" \in {row.status, redis} => held
    /\ \A g \in Readers : reader[g].live = "NEEDS_REVIEW" => held
    /\ \A t \in Requests :
         task[t].pc = "redisOutcome" /\ task[t].outcome = "review" => held
    /\ \A r \in Requests : request[r].op = "approve" => held

(* Only an approval's task skips the gate, and only a task that skips it   *)
(* works at low confidence.                                                *)
SkipIsApproved ==
    \A t \in Requests :
        /\ task[t].skip => request[t].op = "approve"
        /\ task[t].low => task[t].skip

(* A dead letter is published by a task that has used up its retries, and  *)
(* DEAD_LETTER is read nowhere unless one was published.                   *)
DeadLettersAreExhausted ==
    /\ \A t \in Requests :
         deadLetter[t] # "unsent" => task[t].retries = MaxRetries /\ task[t].pc = "done"
    /\ \/ "DEAD_LETTER" \in {row.status, redis}
       \/ \E g \in Readers : reader[g].live = "DEAD_LETTER"
       => \E t \in Requests : deadLetter[t] # "unsent"

GateInv == PublishedOnce /\ ReviewIsRecorded /\ SkipIsApproved /\ DeadLettersAreExhausted

-----------------------------------------------------------------------------
(* The service implements RunPromise: its tasks are the jobs.              *)

JobOf(t) ==
    CASE task[t].pc = "unsent" -> "none"
      [] task[t].pc = "queued" -> "waiting"
      [] task[t].pc \in AttemptPcs -> "active"
      [] task[t].pc = "done" -> "over"
      [] OTHER -> "lost"

Promise == INSTANCE RunPromise WITH
    job <- [t \in Requests |-> JobOf(t)],
    approved <- {t \in Requests : task[t].skip},
    review <- held,
    risky <- {t \in Requests : task[t].low}

(* Every request that is accepted is worked on until it is over, and low   *)
(* confidence needs an approval that followed a review (RunPromise).       *)
KeepsPromise == Promise!Spec
=============================================================================
