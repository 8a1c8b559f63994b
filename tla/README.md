# A TLA+ verification project for the AI Workflow Orchestrator

The orchestrator accepts *workflow runs* over HTTP, executes them in Celery
workers with LLM agents and tools, keeps their history in Postgres and their
live state in Redis, and reports progress by polling and by server-sent events.
It has no lock anywhere: handlers, tasks, dead-letter tasks and readers of the
same run meet in two stores that are written one after the other. This project
models that system, checks it with TLC and proves its core with TLAPS.

Paths below are relative to the repository (`src/` is its root here).

## 1. Inventory

| Part | State it keeps | Operations | Meets others through |
| --- | --- | --- | --- |
| HTTP handlers (`app/api/routes_workflows.py`) | none of its own | `/submit`, `/retry`, `/approve` | the run's row, the broker |
| Celery task (`app/workers/tasks.py`) | message, retry count, `skip_confidence_check` | execute, retry, dead-letter | the row, the Redis status, the broker |
| Orchestrator (`app/core/orchestrator.py`) | locals of `run_workflow` | gates, plan, loop, replanning, outcome | both stores, agents, tools, cache |
| Executor, planner (`app/core/executor.py`, `planner.py`) | tries of a tool | step execution, tool retries, fallback, step rows | step rows, context, agents, tools |
| Redis state (`app/core/state_manager.py`) | `run:{id}:status`, `run:{id}:context` | set/get, read-modify-write append | shared by tasks and readers |
| Postgres (`app/services/workflow_service.py`) | rows of runs, steps, tool calls, traces | one commit per operation | shared by all |
| Readers (`app/api/routes_runs.py`) | row read before an await; the stream's position | GET with sync, SSE stream | both stores |
| Semantic cache (`app/services/cache_service.py`) | index, entries, a client singleton | `check_cache`, `store` | shared by all worker processes |
| Worker process (`app/workers/celery_app.py`) | clients bound to an event loop | one task after the other, process start | broker, all stores |
| Agents, LLM client, safety filter, judge | a client singleton, tries of a call | requests to the provider, refusals and repairs, rows of `llm_traces` | the orchestrator |
| Tools and registry (`app/tools`) | table of tools | local work, or one HTTP request to Slack, PagerDuty or a webhook | the executor, the outside world |
| Metrics (`app/services/metrics_service.py`) | none | queries, each with its own snapshot | the rows of all runs |
| Authentication (`app/api/deps.py`, `app/services/auth_service.py`) | tokens that expire | issue, check | every handler |
| Evaluation harness and load test (`scripts/eval.py`, `load_tests/locustfile.py`) | a token, run ids, verdicts | submit, poll | the handlers |
| Tracing, router, configuration, schemas, migrations | none, or write-only | lookups and counters | see section 8 |

What is hard here, and what makes each part correct:

* **Interleaving.** `/retry` and `/approve` check the status, await and then
  reset. All three handlers publish the task *before* they write `QUEUED`. GET
  reads the row, awaits, and writes Redis over it. Correct means: one task per
  run, no lost outcome, a row that can always be repaired.
* **Crash and redelivery.** `task_acks_late` means a message is delivered again
  when its worker is lost, but not when only its child process is. Correct
  means: approval and retry count survive, `DEAD_LETTER` only after all retries,
  `RUNNING` always has a task behind it.
* **Partial failure.** Each commit, Redis write, tool and agent call can raise,
  and five nested exception handlers decide what happens. Correct means: the
  attempt always returns, and step rows, context and tool log agree.
* **Bounded loops.** Tool tries, replanning, Celery retries, the stream's
  timeout, the cache's window.
* **Ordering.** Status after context when written, status before context when
  read: a stream that says `done` has shown everything.
* **Staleness.** Clients bound to a finished event loop, a copied context, a
  cached answer, a status from before a reset, an expired token, a report whose
  queries see different moments.
* **The outside world.** A provider that answers nonsense, a notification whose
  request times out after it was delivered, an answer that is misread. Correct
  means: bounded requests, nobody notified twice, nothing reported as delivered
  that was not, every completed step charged once.

`PROJECT.json` lists every hazard with the line where it bites and the
properties aimed at it.

## 2. Modules

| Module | Models | Composed with |
| --- | --- | --- |
| `RunLifecycle` | one run: handlers, tasks, faults, dead letter, GET sync | implements `RunPromise` |
| `RunPromise` | abstract: accepted requests become jobs that end; risk needs approval | |
| `Orchestrator` | one attempt from plan to outcome; opens the pc `"steps"` of `RunLifecycle` | implements `AttemptContract` |
| `AttemptContract` | abstract: the call returns, row before Redis, revisions only after a fault | |
| `EventStream` | streams against the attempts that write status and context | |
| `SemanticCache` | index and entries under concurrent processes and their clients | |
| `Tools` | what each tool reports and does outside, as operators | used by `ExternalCalls` |
| `ExternalCalls` | one attempt as a sequence of provider requests, tool calls and traces | same attempt as `Orchestrator`, from outside |
| `Fleet` | several runs that share the queue and the workers: priorities, reruns, failing commits | |
| `Clients` | `eval.py`, a load-test user, a metrics report, expiring tokens | extends `Fleet`, whose handlers it calls |
| `RunClaims`, `FleetClaims`, `SemanticCacheClaims` | statements of docs and comments that the code does not meet | extend the module they speak of |
| `RunLifecycle_proofs`, `RunSafety_proofs` | theorems about `RunLifecycle`: gate and dead letter; races of the two stores, one task per run, steps of `RunPromise` | the second extends the first |
| `Orchestrator_proofs`, `EventStream_proofs`, `SemanticCache_proofs`, `Clients_proofs` | theorems about the module they are named after | extend it |
| `ExternalCalls_proofs`, `RequestBound_proofs` | theorems about `ExternalCalls` | the second extends the first |
| `MC*` | instances for TLC | |

Every action is one commit, one Redis operation, one published message, one tool
or agent call, or one read whose value is used after an await. A `pc` names the
operation that comes *next*. Operators marked `\* mutant` are plausible bugs; no
specification uses them, they exist to show that each property can fail.

### RunLifecycle

| Model | Code |
| --- | --- |
| `row`, `redis` | `WorkflowRun` as committed; `run:{id}:status` |
| `request[r]`, `Submit`, `Retry`, `Approve`, `Reset`, `Enqueue`, `MarkQueued`, `HandlerCrash` | `routes_workflows.py:17-123` step by step |
| `task[r]` | the one `execute_workflow_task` that request `r` publishes |
| `Deliver` ... `Acknowledge` | `run_workflow` at the granularity of its writes to the run |
| `StoreFault` | a raising store inside `run_workflow`, then `_fail_run` |
| `Escape` | an exception out of the task body: `self.retry` or `dead_letter_task.delay` (`tasks.py:56-65`) |
| `ChildLost`, `NodeLost` | a killed child (acknowledged) and a lost worker (delivered again) |
| `DeadLetter...` | `dead_letter_task` |
| `reader[g]`, `ReadRow`, `ReadLive`, `SyncRow` | `GET /workflows/{id}` |
| `budget`, `held` | how many faults may still happen; history: some attempt recorded NEEDS_REVIEW |
| `breached`, `task[t].settled` | histories for `SingleFlight`: a way to a second task was taken (`Breach`); the task has committed an outcome |

Runs share neither row nor key, so one run is modelled. The sessions have
`expire_on_commit=False`, so an `update_run_status` never sees what others wrote
since and is modelled as a blind write. That is one step more than the code does:
SQLAlchemy leaves a column out of the UPDATE when the new value equals the one the
session has loaded (`workflow_service.py:48-53`). If another session reset the row
in between (line 184) and the attempt then writes the same output, or the same
status, as before, `final_output` stays NULL or the status stays PENDING; the model
always writes it. A commit either happens or raises; a commit that
happens and then reports failure is not modelled, nor is a `dead_letter_task`
that cannot be published. The safety filter and the classifier choose
nondeterministically.

### Orchestrator

`frame` holds the locals of `run_workflow`, `execute_step`, the tool retries and
`_maybe_replan`. `Raised` is the table of exception handlers: given the place
where something raised it says where control goes. `usable` is the session: a
failed flush may leave its transaction inactive, nothing in the code rolls it
back, and from then on every database operation raises (`SessionFault`). Whether
a step names a tool is decided when it starts; a tool's answer may report
failure, which changes nothing in the control flow. `MaxInject` bounds the
`new_steps` of one decision; the schema has no bound.

### EventStream

Attempts write the status and append to `completed_steps` by reading the
context, extending the copy and writing it back. They are numbered as they start
and may overlap in any way, as `RunLifecycle` shows they can. `attempt[a].alone` is
a history: no other attempt worked while `a` did. `live.by` is another: which
attempt wrote the status. A stream reads the status, then the context, then emits. A dead letter may come at any
time after its attempt. `MaxTicks` stands for the 300 polls of the timeout.

### SemanticCache

A process runs one task after another, each in its own event loop, and keeps its
three clients; a client connected in an earlier loop raises when used (the
docstring of `reset_llm_client` says so, the library itself is outside `src/`).
Similarity is a constant matrix in units of 0.0005, so that the bar
`threshold - 0.001`, which the code has against the docstring of
`cache_service.py:86`, is `Threshold - 2`. Every exception of the cache is a miss
or forgotten. The cache is off by default; the module models it switched on.

### Tools and ExternalCalls

`Orchestrator` keeps the stores in full and takes an agent or tool call as one
step that answers or raises. `ExternalCalls` turns that around: every request to
the provider and to Slack, PagerDuty or a webhook is an action with all its
outcomes, and a step's row is its status, what was charged for it (`traces`) and
what it did outside (`effects`).

| Model | Code |
| --- | --- |
| `Ask`, `frame.tries` | one round of the loop of `BaseAgent.run` around `complete_with_tools` |
| `Answers`, `Accepted` | what comes back, and which of it each `parse_tool_call` accepts or repairs |
| `GivenUp` | where `LLMResponseError` goes: the run fails, the step falls back, the replanning is dropped, the fixed answer of `executor.py:183-193` |
| `Screen`, `Judge` | `check_safety` and `evaluate_output`: one request, no repetition, failures swallowed |
| `CallTool`, `Tools!Succeeds`, `Tools!Effects` | `tool.execute` for each tool: refused arguments, bad status, odd body, timeout, no connection |
| `Trace...`, `RecordCall`, `CompleteStep`, `SkipStep`, `AppendContext`, `WriteOutcome`, `WriteScore` | the commits and Redis calls in between, each of which may fail (`StoreFault`) |

The attempt starts at the safety check with both statuses RUNNING and the cache
off. `requests` counts calls of the LLM client; the OpenAI client may repeat an
HTTP request by itself. A session that stays unusable after a failed flush is
only in `Orchestrator`.

### Fleet and Clients

`Fleet` merges a run's row and live status, starts the worker after the handler
has answered and loses no process; in exchange it has several runs, the broker's
priority lists (`Level`) and the flags `cache_hit` and `safety_flagged`.
`PublishFails` covers both ways to a 500 after the row was created: the broker
refuses the message, or takes it and the commit of QUEUED fails.

| Model | Code |
| --- | --- |
| `eval` | `main()` of `eval.py`: all submissions, then `poll` for one case after the other |
| `user` | `WorkflowLifecycleUser`: `pending` is `pending_runs`, the tasks are chosen in any order |
| `report` | `get_metrics`: the set of runs that each query counted; `calm` and `reruns` are histories |
| `Expire`, `FetchToken`, `Authorized` | the token's lifetime, `/auth/token`, `require_auth` |

An evaluation run has all its cases for itself and a load test its user, so the
instance has the harness alone or the user beside a report (`Companies`).

## 3. Runs

| Run | Instance | What it shows |
| --- | --- | --- |
| `lifecycle_calm` | 3 requests, 2 at once, 1 reader, 1 handler may die, cache off; 2.9 M states | `RunningIsBacked`, `StaleRowIsRepairable` through all races of handlers, tasks and GET; `SingleFlight`: what does and what does not lead to a second task |
| `lifecycle_faults` | 2 requests, one at a time, no reader, cache on, 1 retry, store, child and node faults, enough escapes to use up the retries; 2.7 M | the confidence gate, the meaning of `DEAD_LETTER`, answers of completed runs; `SingleFlight` through faults, retries and redeliveries |
| `lifecycle_live` | 2 requests, 1 poller, 1 escape; 97 k | every run settles, polling makes the stores agree, `RunPromise` is implemented |
| `orchestrator_replan` | plans of 1 and 2 steps, 2 replannings of 2 steps, 2 tool tries, 1 store fault; 269 k | the attempt returns and keeps `AttemptContract`; bounded replanning, order, no open step in a completed run |
| `orchestrator_again` | 2 attempts, 1 store fault, 1 crash; 1.1 M | context, tool log and step rows agree after any failure and over attempts |
| `stream_feed` | 1 stream, 3 attempts of one step that overlap in any way, 3 polls; 5.1 M | whose steps survive an overlap; until there is one, steps in order and all before `done` |
| `cache_window` | 3 processes, 3 tasks, 3 runs, index of 2, 1 fault; 423 k | best hit, no copy of a copy, window, fresh clients, tasks end |
| `external_calls` | plans of 1 and 2 steps over Slack, PagerDuty, no tool and an unknown one, 1 replanning, 2 tries of an agent and of a tool, 1 store fault; 1.6 M | requests and notifications are bounded, steps are charged once, reported deliveries happened, a planned run completes |
| `clients` | 3 runs, 1 worker; 2 eval cases or 1 user's run and 1 report; 2 polls, 1 failing commit, 1 rerun, 1 expiry; 132 k | the harness ends, no accepted run is lost or kept for ever, what a report miscounts was moving |
| `claim_sync`, `claim_cache`, `claim_priority` | smallest instance each | a statement of the documentation is violated (section 7) |

**Bounds.** The lifecycle's races need two mutating requests at once, and a third
to follow what they left behind. One retry is enough to tell "first", "last" and
"beyond the last" apart, since tasks count their retries independently. One
fault of each kind can strike at every point of every attempt, and the kinds
combine; runs with more faults of one kind are outside these instances, and for
the confidence gate and the dead letter the proofs cover them.
Two steps and two replannings of two steps distinguish front from back
of the queue and the last allowed decision from the first forbidden one. Three
attempts let two overlap before or after one that worked alone, whose steps are in
the copies that the two pass around. An index of two
with three runs overflows; the similarity matrix is a chain in which b resembles
a and c, which do not resemble each other. Two tries of an agent tell a repeated
refusal from the last one; the two remote tools of `external_calls` differ in how
they read an odd body, and the webhook and the local tools add no control flow.
Three runs with two in the queue of one worker are enough for an order, and two
eval cases for one that is submitted and one that is refused. `CHECK_DEADLOCK FALSE` everywhere:
each instance stops when its requests, attempts or tasks are used up.

Symmetry is used over requests and readers in the two runs without temporal
properties.

**Conditions on properties.** `RunningIsBacked` excludes store failures and
killed children: the code does not recover from these, and the hazards say so.
`StaleRowIsRepairable` does the same; a handler that dies is included, and only a
`/submit` that dies before it publishes leaves a run that nothing repairs.
`NotifiedOnce` allows one more effect for every commit that failed, which is what
the retry loop of `executor.py:123` does. `SkewIsMotion` asks that no commit failed
(a failed write of the outcome leaves the flag behind) and that no run was rerun
since the report began. `AcceptedRunsAreWatched` is stated while nothing is rerun:
a run leaves the list when it is over and a rerun does not bring it back.
`OrdersIdentifySteps` is about plans numbered 1, 2, ...

`SingleFlight` is about what the status checks of `/retry` and `/approve` keep out
and what they do not. The code does publish or revive a second task, and the property
names the ways, each at the action that takes it (`Breach`):

1. a request passes its check while another stands between its own check and its
   reset (`Accept`; `routes_workflows.py:65-71`, `102-108`);
2. a GET writes back a status that lets a rerun in (`SyncRow`; `routes_runs.py:47`),
   or a dead letter is written (`DeadLetterDb`; `tasks.py:83`), over a task that is
   queued, running or about to be published;
3. a task that had committed its outcome is given back to the broker, by Celery's
   retry (`Escape`) or after a lost worker (`NodeLost`), when the row may already
   have let the next one in;
4. a store fails after the outcome was committed and `_fail_run` writes a second
   outcome (`StoreFault`; `orchestrator.py:300-304`).

Until one of them has happened a run has at most one task that has yet to settle its
row, with any number of requests and readers, whatever dies or fails otherwise.
None is excluded from the runs, which go on after a breach; and none is on the list
for safety's sake: with any one of the six `Breach` conjuncts taken out TLC finds two
tasks. `lifecycle_calm` has the first way and GET's half of the second,
`lifecycle_faults` has 3 and 4. A dead letter needs a third request to do its harm,
which `lifecycle_faults` does not have (three requests, no retry and one escape show
it in a second); the theorem has all of them together.

`StepsInOrder` and `DoneAfterAllSteps` hold until two attempts have worked at once
(`NoneOverlapped`): when they do, one writes the context back without the other's
step, and a stream that counted it sends another one in its place. `StepsSurvive`
has no such condition on the history of the run: it is about any attempt that nobody
worked beside, with overlaps before and after it.

`CompletedHasAnswer` holds as long as nobody polls, with any number of requests at
once: a GET that read Redis before a reset writes the old COMPLETED back over a row
whose output the reset has cleared. Each condition names what has *happened*
(`Spared`), so the instance still contains the excluded faults.

## 4. Fairness

* Handlers and attempts are weakly fair: a coroutine that can run is resumed, and
  every call it awaits answers or raises. For LLM calls the client's default
  timeout sees to that; for Redis and Postgres, whose clients set none, it is an
  assumption about the network.
* `Deliver` and `DeadLetterDeliver` are weakly fair: a worker pool with a free
  process takes a waiting message (`-Q workflows,retries,dead_letter`,
  `docker-compose.yml:60`).
* `PollingConverges` assumes a client that goes on polling (`PollingSpec`).
* Streams and the attempts that feed them have safety properties only; no fairness.
* `ExternalCalls` is weakly fair as a whole: the OpenAI client and the tools have
  timeouts, so every call answers or raises.
* `Clients`: handlers answer, `eval.py` is a sequential program with a deadline,
  and the user of the load test, choosing tasks and runs at random, polls each of
  its runs again and again (strong fairness of `UserPoll`, since its token may
  expire in between). Workers and operators owe the clients nothing.
* No fairness for new requests, faults, crashes, or choices between outcomes.

## 5. What is proved

`RunLifecycle_proofs`, for every set of requests and readers, retry limit,
concurrency and fault budget (assumption `RunConstants`):

* `TypeCorrect`: `Spec => []TypeOK`, with the retry bound in the type of a task.
* `GateInvariant`: `Spec => [](TypeOK /\ GateInv)`.
* `GateIsRespected`: `Spec => []LowConfidenceNeedsApproval`.
* `DeadLetterIsLast`: `Spec => []DeadLetterAfterAllRetries`.

Neither of the last two is inductive. `LowConfidenceNeedsApproval` relates a
running task to the request that published it and to a review that happened long
before; the induction has to follow the approval through the handler
(`PublishedOnce`: a task starts from nothing and is published once), through
every place where `NEEDS_REVIEW` can be read, which includes a stale value in a
reader's hands that is later written back to the row (`ReviewIsRecorded`), and
through retries and redeliveries (`SkipIsApproved`). `DeadLettersAreExhausted`
does the same for `DEAD_LETTER`, which a reader may also carry from Redis to the
row. `GateInv` is the conjunction of the four; there is one lemma per group of
actions and one step per action.

`RunSafety_proofs` continues with the stores, from the same assumption:

* `RunningMeansOpen` (`RunningIsBacked`) and `StaleRowsCanBeRepaired`
  (`StaleRowIsRepairable`), from `RedisInv`: whoever wrote RUNNING to Redis still
  *owes* it an outcome, that is, stands before the write of one or is going to be
  delivered again, and no task gets past its first operation without writing. The
  properties only say that some task is there; the induction needs the debt, which
  each exception handler, retry and redelivery passes on.
* `OneTaskPerRun` (`SingleFlight`), from `FlightInv`, for any number of requests and
  readers at once and any faults. That no two tasks are unsettled is not inductive:
  what keeps it, until a breach, is that the row shows a status that `/submit`,
  `/retry` or `/approve` accepts only when no task is unsettled and none is about to
  be published, and that one request at most is between its check and its
  publication, while no task is unsettled. The theorem says that the four ways of
  section 3 are all there are.
* `CompletedRunsAreAnswered` (`CompletedHasAnswer`), inductive together with the
  types.
* `StepsKeepPromise`: `Spec => PromiseSteps`, the initial states and the steps of
  `RunPromise`. The loss of a child process is excepted by name: its message is
  acknowledged though nothing was done, which `RunPromise` does not allow.

The conditions of the properties name the faults that happened (`Spared`). They
carry over from one state to the next because faults are only taken from the
budget (`BudgetShrinks`), so an exclusion that holds later held before.

`Orchestrator_proofs`, for any plans, limits of retries and replanning, and any
number of attempts, store failures and crashes (assumption
`OrchestratorConstants`): `TypeCorrect`, `RemainingStepsAreInOrder`
(`QueueIsSound`), `DoneStepsAreLogged` (`ToolCallsAreLogged`),
`ContextListsCompleted` (`ContextIsFaithful`), `CompletedRunIsDone`
(`CompletedRunHasNoOpenSteps`), `OrdersAreDistinct` (`OrdersIdentifySteps`),
`ReplanningIsBounded` (`NoPlanExplosion`), `StepRowsMoveForward`
(`StepsMoveForward`) and `StepsKeepContract`, the initial states and the steps of
`AttemptContract`. The inductive invariant `IInv` is the conjunction of

* `FrameInv`: what the locals of `run_workflow` say of each other; in particular an
  unusable session implies a failure that has happened;
* `StoreInv`: row and live status by the place of the attempt, and which of them may
  lag behind after a failure;
* `RowsInv`: the row of the step at hand, and that a closed step with a tool has its
  call logged;
* `QueueInv`: waiting and injected steps are distinct pending rows, none of them at
  hand. Without it the step at hand could be executed again;
* `ContextInv`: the context lists the completed steps, except that the step at hand
  may be COMPLETED and not appended (`Owing`), which is the window in which
  `append_completed_step` fails and the step is taken back to SKIPPED;
* `OpenInv`: a step is closed, waiting, at hand, or left over by an injection that
  failed, and the last only if a store has failed;
* `OrderInv`, `CountInv`: the steps that were or will be taken have orders below
  `next_order`, each its own, and are as many as the decisions so far allow.

An exception may leave a call at any depth. `UnwindFacts` shows once what all the
actions that raise have in common (`Unwinds`, with `Handled` for where control may
go), so each part of the invariant has one case for them; the other actions are
grouped by what they write.

`Clients_proofs`, for any runs, priorities, workers, cases, polls, reruns, faults
and expired tokens (assumptions `FleetConstants`, `ClientConstants`):
`TypeCorrect`, `ReportsSkewByMotion` (`SkewIsMotion`) and `NoRunIsLost`
(`AcceptedRunsAreWatched`). `NextCases` splits a step into the move of one run or
none; `SoundMove` says what a move keeps, whoever makes it. `QueueInv`: a queued
run has one message in the broker. `RunInv`: a hit is on its way to COMPLETED and a
violation to SAFETY_BLOCKED until it is over, unless a commit failed. `ReportInv`:
what the first query found at rest is still as it was, since a run at rest moves
only by a rerun, which `reruns` counts. `UserInv`: whatever has no answer yet is
what the user waits for, so nothing is accepted behind its back.

`EventStream_proofs`, for every number of streams, attempts, steps and polls
(assumption `StreamConstants`):

* `FeedInvariant`: `Spec => []Inv`, with `Inv == TypeOK /\ FeedInv`.
* `StreamTypeCorrect`, `StreamIsFaithful` (`StepsInOrder`), `DoneIsComplete`
  (`DoneAfterAllSteps`), `AloneLosesNothing` (`StepsSurvive`).

The argument for `StepsSurvive`: nobody is at work beside an attempt that is alone
(`AloneIsAlone`), so no copy is held while it appends; every copy read later has its
steps, and so has the context when the copy is written back, whatever else that
overwrites (`CopiesKeepSteps`). For the streams: as long as no two attempts have
overlapped, the copy held by an append is the context itself (`CopyIsFresh`) and
what a stream has sent is the prefix its count names (`CountIsFaithful`); a settled
status, stored or read, comes from an attempt that is over and will not append again
(`SettledIsOver`), so the context read after it is complete (`DoneSawAll`).

`ExternalCalls_proofs`, for plans of any length over any tools, every number of
tries, replannings and store failures (assumption `CallConstants`):

* `CallInvariant`: `Spec => []Inv`, with
  `Inv == TypeOK /\ QueueInv /\ HandInv /\ GateInv /\ OutsideInv`.
* `CallsTypeCorrect`, `StepsNotifyOnce` (`NotifiedOnce`),
  `CompletedStepsAreCharged` (`CompletedStepsAreTraced`), `ReportsAreTrue`
  (`SuccessMeansDelivered`).

The statements about rows say nothing of where the attempt stands and are not
inductive: a second call or a second trace for the step at hand would break them.
`HandInv` bounds what was done for that step by the tries, and the tries by the
store failures so far. It survives the start of the next step only because
`QueueInv` knows that the waiting steps are distinct, are not the one at hand and
are untouched, also those that a replanning puts in front. The lemmas on frames
and on the row at hand are shared by the actions.

`RequestBound_proofs` adds `RequestsStayInBudget` (`RequestsAreBounded`). That a
run asks no more often than its steps allow says nothing of how much it still may
ask, so `BudgetInv` is about what is left: at every point of the attempt it covers
the steps that wait (`Cost`), the tries of the agent at work (`Again`), whoever may
be asked after it, and the judge. A step that is injected raises the bound by the
cost it adds to the queue.

`SemanticCache_proofs`, for every set of runs, similarity, threshold and window,
any finite number of processes and any number of tasks and faults (assumption
`CacheConstants`):

* `CacheInvariant`: `Spec => []Inv`, with
  `Inv == TypeOK /\ TasksInv /\ EntryInv /\ CalmInv /\ HitIsSimilar`.
* `CacheTypeCorrect`, `HitsAreSimilar` (`HitIsSimilar`), `BestHitIsKept`
  (`NothingBetterWasRead`), `IndexKeepsItsWindow` (`WindowIsBounded`).

`HitIsSimilar` speaks of rows long after the search. The induction carries the
comparison along: an entry is the answer of the run it is stored under
(`EntryInv`), so the similarity that was measured is that of the answer's own run,
and a task that stores has no hit (`TasksInv`). The other two hold while
nothing fails, and there the proof needs that every id in the index has an entry
(`Listed`), which is the order of `set` and `lpush` in `store`, and that a task between
`lpush` and `ltrim` cannot find its client stale.

`RunConstants`, `OrchestratorConstants`, `StreamConstants`, `CallConstants`,
`CacheConstants`, `FleetConstants` and `ClientConstants` are evaluated by TLC in
every run of their modules.

## 6. What is only model-checked

Every invariant and every action property of the runs is a theorem. What remains
with TLC is liveness under fairness, which the prover does not reach:
`EventuallySettled`, `PollingConverges`, `TasksEnd`, `PlannedRunsComplete`, `EvalEnds`, `FinishedRunsAreDropped`, and the fairness that
`KeepsPromise` and `KeepsContract` ask of the abstract specifications; their steps
are proved (`StepsKeepPromise`, `StepsKeepContract`).

## 7. Where code and documentation differ

| Run | Statement | What happens |
| --- | --- | --- |
| `claim_sync` | "Sync the DB record if Redis has a newer status" (`routes_runs.py:46`) | the comparison is only for difference; a GET between `/retry` and the start of the task writes the old status back and a second rerun is accepted |
| `claim_cache` | "the cached output is returned immediately" (`cache_service.py:5-9`), "eliminating ... entirely" (`README.md:556`) | the cache's client is never reset, so a process's cache is dead after its first task |
| `claim_priority` | "Celery priority is 0 (highest)", "API priority is 1 (highest)" (`routes_workflows.py:36`, `README.md:154`) | `10 - priority` turns the most urgent 1 into 9, which the broker serves last |

Further differences are part of the models without a run of their own:

* README.md:427-429 promises retries and DEAD_LETTER for a crashed worker. A killed
  child process is acknowledged and its run stays RUNNING (`ChildLost`).
* Two attempts of one run that work at once lose steps of each other in
  `completed_steps`, which is read, extended and written back without a lock
  (`state_manager.py:61-66`; `ReadContext`, `WriteContext`).
* README.md:422-425 promises the fallback for an exhausted tool. Its exception
  bypasses the fallback and the run is FAILED (`Raised` at `"record"`,
  `ToolNotFound`). Apart from that the three tries are never used: tools report
  failures instead of raising them.
* `_TERMINAL` (`routes_runs.py:18`) lacks SAFETY_BLOCKED, as does `TERMINAL` of
  `eval.py`: the stream and the harness wait for their timeouts.
* The fallback is called without the caller's key (`executor.py:102`), and `/retry`
  and `/approve` publish without it: those requests are made with the server's key.

## 8. Not modelled, and why

* Router, configuration, schemas: total lookups and validation without state.
* Prometheus, tracing, logging: write-only.
* Metrics over `llm_traces` and `tool_calls`, `/health`: sums, and no state.
* Migrations, `eval_baseline.py`, demo, terraform: outside the running system.
* Prompts, safety patterns, judge arithmetic, prices, percentiles of the reports,
  what the local tools compute: data that no control flow depends on beyond the
  choice that is modelled.
* Keys and signatures behind the tokens.
* The 24-hour expiry of the Redis keys and the broker's visibility timeout: both
  far longer than a run.
* `max_tool_retries = 0`, for which the executor's loop body never runs.

## 9. Plan

1. Done: `RunLifecycle` with `RunPromise`, `Orchestrator` with `AttemptContract`,
   `EventStream`, `SemanticCache`, `ExternalCalls` with `Tools`, `Fleet` with
   `Clients`; a proof of every safety property of the runs, and of the steps of
   both refinements.
2. Next, the assumption that one module makes of another: `Orchestrator` as the
   writer that `EventStream` assumes (its appends refine `ReadContext` and
   `WriteContext`).
3. Then statements about `RunLifecycle` with a reader: what a GET may write back,
   as an action property with its proof.
