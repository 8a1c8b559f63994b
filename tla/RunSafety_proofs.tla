-------------------------- MODULE RunSafety_proofs --------------------------
(***************************************************************************)
(* More about RunLifecycle, for any requests, readers, concurrency, retry  *)
(* limit and faults: what the two stores owe each other, when a run has at *)
(* most one task, and the steps of RunPromise.                             *)
(***************************************************************************)
EXTENDS RunLifecycle_proofs

(* Faults are only ever taken from the budget.                             *)
BudgetShrinks == \A k \in FaultKinds : budget[k] <= FaultBudget[k]

LEMMA SpendFacts ==
    ASSUME TypeOK, BudgetShrinks, NEW kind \in FaultKinds, Spend(kind)
    PROVE  /\ BudgetShrinks'
           /\ \A kinds \in SUBSET FaultKinds : Spared(kinds)' => Spared(kinds)
           /\ \A kinds \in SUBSET FaultKinds : kind \in kinds => ~Spared(kinds)'
<1>1. /\ budget \in [FaultKinds -> Nat] /\ FaultBudget \in [FaultKinds -> Nat]
      /\ budget' = [budget EXCEPT ![kind] = @ - 1]
  BY RunConstants DEF TypeOK, RunConstants, Spend
<1>2. budget'[kind] = budget[kind] - 1 /\ budget'[kind] # FaultBudget[kind]
  BY <1>1 DEF BudgetShrinks
<1>3. \A k \in FaultKinds : k # kind => budget'[k] = budget[k]
  BY <1>1
<1>4. BudgetShrinks'
  BY <1>1, <1>2, <1>3 DEF BudgetShrinks
<1> QED
  BY <1>2, <1>3, <1>4 DEF Spared

(* A step spends one fault, or none.                                       *)
LEMMA StepSpends ==
    ASSUME Next
    PROVE  budget' = budget \/ \E kind \in FaultKinds : Spend(kind)
<1> USE DEF FaultKinds
<1>1. ASSUME NEW r \in Requests,
             Submit(r) \/ Retry(r) \/ Approve(r) \/ HandlerStep(r) \/ HandlerCrash(r)
      PROVE  budget' = budget \/ \E kind \in FaultKinds : Spend(kind)
  BY <1>1 DEF Submit, Retry, Approve, AcceptRerun, HandlerStep, Reset, Enqueue,
     EnqueueSkippingFor, MarkQueued, HandlerCrash
<1>2. ASSUME NEW t \in Requests, Deliver(t) \/ AttemptStep(t)
      PROVE  budget' = budget
  BY <1>2 DEF Deliver, AttemptStep, SetRedisRunning, SetDbRunning, SafetyGate, FlagUnsafe,
     CacheGate, MarkCacheHit, Classify, ExecuteSteps, WorkFails, WriteOutcomeDb,
     WriteOutcomeStoring, WriteOutcomeRedis, WriteQuality, Acknowledge, End
<1>3. ASSUME NEW t \in Requests,
             \/ StoreFault(t) \/ Escape(t) \/ ChildLost(t) \/ NodeLost(t)
             \/ DeadLetterDeliver(t) \/ DeadLetterStep(t) \/ DeadLetterFault(t)
      PROVE  budget' = budget \/ \E kind \in FaultKinds : Spend(kind)
  BY <1>3 DEF StoreFault, Escape, EscapeUpTo, ChildLost, NodeLost, DeadLetterDeliver,
     DeadLetterStep, DeadLetterDb, DeadLetterRedis, DeadLetterFault
<1>4. ASSUME NEW g \in Readers, ReaderStep(g) PROVE budget' = budget
  BY <1>4 DEF ReaderStep, ReadRow, ReadLive, SyncRow, SyncRowTo, OnlyReader
<1> QED
  BY <1>1, <1>2, <1>3, <1>4 DEF Next

LEMMA BudgetFacts ==
    ASSUME TypeOK, BudgetShrinks, [Next]_vars
    PROVE  /\ BudgetShrinks'
           /\ \A kinds \in SUBSET FaultKinds : Spared(kinds)' => Spared(kinds)
<1>1. CASE budget' = budget
  BY <1>1 DEF BudgetShrinks, Spared
<1>2. CASE \E kind \in FaultKinds : Spend(kind)
  BY <1>2, SpendFacts
<1> QED
  BY <1>1, <1>2, StepSpends DEF vars

-----------------------------------------------------------------------------
(* The stores.                                                             *)

(* A task that will still write an outcome to Redis.                       *)
Owes(t) == task[t].pc \in (AttemptPcs \cup {"queued"}) \ {"return", "quality"}

(* Whoever wrote RUNNING to Redis still owes it an outcome, and no task    *)
(* gets past its first operation without writing to Redis.                 *)
RedisInv ==
    Spared({"store", "child"}) =>
        /\ redis = "RUNNING" => \E t \in Requests : Owes(t)
        /\ redis = NoStatus =>
             \A t \in Requests : task[t].pc \in {"unsent", "queued", "redisRunning"}

Early == {"unsent", "queued", "redisRunning"}

(* A task moves and Redis stays: it may not forget what it owes, nor leave *)
(* the beginning of an attempt.                                            *)
LEMMA MoveRedis ==
    ASSUME RedisInv, NEW t \in Requests,
           Spared({"store", "child"})' => Spared({"store", "child"}),
           \A s \in Requests \ {t} : task'[s] = task[s],
           redis' = redis,
           Owes(t) => Owes(t)',
           task[t].pc \in Early => task'[t].pc \in Early
    PROVE  RedisInv'
BY DEF RedisInv, Owes, Early

LEMMA AttemptRedis ==
    ASSUME TypeOK, BudgetShrinks, RedisInv, NEW t \in Requests, Deliver(t) \/ AttemptStep(t)
    PROVE  RedisInv'
<1> USE DEF OnlyTask, Goto, Conclude, Owes, AttemptPcs, DbPcs, RedisPcs, Early
<1>1. /\ task \in [Requests -> TaskType] /\ \A s \in Requests : task[s] \in TaskType
      /\ task[t].outcome \in Outcomes \cup {"none"}
      /\ task[t].pc = "redisOutcome" => task[t].outcome \in Outcomes
  BY DEF TypeOK, TaskType
<1>2. Spared({"store", "child"})' => Spared({"store", "child"})
  <2>1. [Next]_vars
    BY DEF Next
  <2> QED
    BY <2>1, BudgetFacts DEF FaultKinds
<1>3. CASE SetRedisRunning(t)
  <2>1. redis' = "RUNNING" /\ task'[t].pc = "dbRunning"
    BY <1>1, <1>3 DEF SetRedisRunning, TaskType
  <2> QED
    BY <2>1 DEF RedisInv, NoStatus
<1>4. CASE WriteOutcomeRedis(t)
  <2>1. redis' \in Settled
    BY <1>1, <1>4 DEF WriteOutcomeRedis, StatusOf, Outcomes, Settled
  <2> QED
    BY <2>1 DEF RedisInv, NoStatus, Settled
<1>5. CASE \/ Deliver(t) \/ SetDbRunning(t) \/ SafetyGate(t) \/ FlagUnsafe(t)
           \/ CacheGate(t) \/ MarkCacheHit(t) \/ Classify(t) \/ ExecuteSteps(t)
           \/ WorkFails(t) \/ WriteOutcomeDb(t) \/ WriteQuality(t) \/ Acknowledge(t)
  <2>1. redis' = redis
    BY <1>5 DEF Deliver, SetDbRunning, SafetyGate, FlagUnsafe, CacheGate,
       MarkCacheHit, Classify, ExecuteSteps, WorkFails, WriteOutcomeDb, WriteOutcomeStoring,
       WriteQuality, Acknowledge, End
  <2>2. \A s \in Requests \ {t} : task'[s] = task[s]
    BY <1>1, <1>5 DEF Deliver, SetDbRunning, SafetyGate, FlagUnsafe, CacheGate,
       MarkCacheHit, Classify, ExecuteSteps, WorkFails, WriteOutcomeDb, WriteOutcomeStoring,
       WriteQuality, Acknowledge, End
  <2>3. \/ /\ task[t].pc \in {"return", "quality"}
           /\ task'[t].pc \in {"return", "done"}
        \/ task[t].pc = "queued" /\ task'[t].pc = "redisRunning"
        \/ /\ task[t].pc \notin Early
           /\ task'[t].pc \in AttemptPcs \ {"return", "quality"}
    BY <1>1, <1>5 DEF Deliver, SetDbRunning, SafetyGate, FlagUnsafe, CacheGate,
       MarkCacheHit, Classify, ExecuteSteps, WorkFails, WriteOutcomeDb, WriteOutcomeStoring,
       WriteQuality, Acknowledge, End, TaskType
  <2> QED
    BY <1>2, <2>1, <2>2, <2>3, MoveRedis
<1> QED
  BY <1>3, <1>4, <1>5 DEF AttemptStep

LEMMA FaultRedis ==
    ASSUME TypeOK, BudgetShrinks, RedisInv, NEW t \in Requests,
           \/ StoreFault(t) \/ Escape(t) \/ ChildLost(t) \/ NodeLost(t)
           \/ DeadLetterDeliver(t) \/ DeadLetterStep(t) \/ DeadLetterFault(t)
    PROVE  RedisInv'
<1> USE DEF OnlyTask, OnlyDeadLetter, Goto, Owes, AttemptPcs, DbPcs, RedisPcs, Early
<1>1. task \in [Requests -> TaskType] /\ \A s \in Requests : task[s] \in TaskType
  BY DEF TypeOK
<1>2. Spared({"store", "child"})' => Spared({"store", "child"})
  <2>1. [Next]_vars
    BY DEF Next
  <2> QED
    BY <2>1, BudgetFacts DEF FaultKinds
<1>3. CASE StoreFault(t) \/ ChildLost(t)
  <2>1. ~Spared({"store", "child"})'
    BY <1>3, SpendFacts DEF StoreFault, ChildLost, FaultKinds
  <2> QED
    BY <2>1 DEF RedisInv
<1>4. CASE Escape(t) \/ NodeLost(t)
  <2>1. /\ redis' = redis /\ task[t].pc \in AttemptPcs
        /\ \A s \in Requests \ {t} : task'[s] = task[s]
    BY <1>1, <1>4 DEF Escape, EscapeUpTo, End, NodeLost
  <2>2. task[t].pc = "return" \/ task'[t].pc = "queued"
    BY <1>1, <1>4 DEF Escape, EscapeUpTo, End, NodeLost, Message
  <2> QED
    BY <1>2, <2>1, <2>2, MoveRedis
<1>5. CASE DeadLetterRedis(t)
  BY <1>5 DEF DeadLetterRedis, RedisInv, NoStatus
<1>6. CASE DeadLetterDeliver(t) \/ DeadLetterDb(t) \/ DeadLetterFault(t)
  <2>1. redis' = redis /\ task' = task
    BY <1>6 DEF DeadLetterDeliver, DeadLetterDb, DeadLetterFault
  <2> QED
    BY <1>2, <2>1, MoveRedis
<1> QED
  BY <1>3, <1>4, <1>5, <1>6 DEF DeadLetterStep

(* Handlers and readers leave Redis alone; a new task is in the queue.     *)
LEMMA HandlerRedis ==
    ASSUME TypeOK, BudgetShrinks, RedisInv, NEW r \in Requests,
           Submit(r) \/ Retry(r) \/ Approve(r) \/ HandlerStep(r) \/ HandlerCrash(r)
    PROVE  RedisInv'
<1>1. Spared({"store", "child"})' => Spared({"store", "child"})
  <2>1. [Next]_vars
    BY DEF Next
  <2> QED
    BY <2>1, BudgetFacts DEF FaultKinds
<1>2. redis' = redis
  BY DEF Submit, Retry, Approve, AcceptRerun, HandlerStep, Reset, Enqueue,
     EnqueueSkippingFor, MarkQueued, HandlerCrash, OnlyHandler
<1>3. CASE Enqueue(r)
  <2>1. task \in [Requests -> TaskType]
    BY DEF TypeOK
  <2>2. task'[r].pc = "queued" /\ \A s \in Requests \ {r} : task'[s] = task[s]
    BY <1>3, <2>1 DEF Enqueue, EnqueueSkippingFor, Message
  <2> QED
    BY <1>1, <1>2, <2>2, MoveRedis DEF Owes, Early
<1>4. CASE ~Enqueue(r)
  <2>1. task' = task
    BY <1>4 DEF Submit, Retry, Approve, AcceptRerun, HandlerStep, Reset,
       MarkQueued, HandlerCrash, OnlyHandler
  <2> QED
    BY <1>1, <1>2, <2>1, MoveRedis DEF Owes
<1> QED
  BY <1>3, <1>4

LEMMA ReaderRedis ==
    ASSUME RedisInv, NEW g \in Readers, ReaderStep(g)
    PROVE  RedisInv'
<1>1. redis' = redis /\ task' = task /\ budget' = budget
  BY DEF ReaderStep, ReadRow, ReadLive, SyncRow, SyncRowTo, OnlyReader
<1> QED
  BY <1>1 DEF RedisInv, Spared, Owes

(* What the run's Redis key owes holds in every reachable state.           *)
LEMMA RedisInvariant == Spec => [](BudgetShrinks /\ RedisInv)
<1>1. Init => BudgetShrinks /\ RedisInv
  <2> SUFFICES ASSUME Init PROVE BudgetShrinks /\ RedisInv
    OBVIOUS
  <2>1. BudgetShrinks
    BY RunConstants DEF Init, BudgetShrinks, RunConstants
  <2>2. RedisInv
    BY DEF Init, RedisInv, NoStatus, Message
  <2> QED
    BY <2>1, <2>2
<1>2. TypeOK /\ BudgetShrinks /\ RedisInv /\ [Next]_vars => BudgetShrinks' /\ RedisInv'
  <2> SUFFICES ASSUME TypeOK, BudgetShrinks, RedisInv, [Next]_vars PROVE RedisInv'
    BY BudgetFacts
  <2>1. CASE UNCHANGED vars
    BY <2>1 DEF vars, RedisInv, Spared, Owes
  <2>2. CASE Next
    BY <2>2, HandlerRedis, AttemptRedis, FaultRedis, ReaderRedis DEF Next
  <2> QED
    BY <2>1, <2>2
<1> QED
  BY <1>1, <1>2, TypeCorrect, PTL DEF Spec

(* A live status of RUNNING is backed by a task, whatever handlers, tasks  *)
(* and readers do, unless a store failed or a process was killed.          *)
THEOREM RunningMeansOpen == Spec => []RunningIsBacked
<1>1. RedisInv => RunningIsBacked
  BY DEF RedisInv, RunningIsBacked, Owes, Open
<1> QED
  BY <1>1, RedisInvariant, PTL

(* Under the same condition a row that was left behind can be repaired by  *)
(* a GET once nothing is in flight, or no task was ever published          *)
(* (routes_runs.py:43-48).                                                 *)
THEOREM StaleRowsCanBeRepaired == Spec => []StaleRowIsRepairable
<1>1. TypeOK /\ RedisInv => StaleRowIsRepairable
  <2> SUFFICES ASSUME TypeOK, RedisInv, Spared({"store", "child"}),
                      \A t \in Requests : ~Open(t)
               PROVE  redis \in Settled \/ \A t \in Requests : task[t].pc = "unsent"
    BY DEF StaleRowIsRepairable
  <2>1. redis # "RUNNING"
    BY DEF RedisInv, Owes, Open
  <2>2. CASE redis = NoStatus
    BY <2>2 DEF RedisInv, Open, AttemptPcs, RedisPcs
  <2> QED
    BY <2>1, <2>2 DEF TypeOK
<1> QED
  BY <1>1, TypeCorrect, RedisInvariant, PTL

-----------------------------------------------------------------------------
(* At most one task that has yet to settle the row.                        *)

OnItsWay(r) == request[r].pc \in {"reset", "enqueue"}
Untaken == Rerunnable \cup {NoStatus}

(* Until a way to a second task has been taken, one request at most is on  *)
(* its way to publish a task, and none while a task has yet to settle the  *)
(* row; and a status that lets a request in means that nothing is under    *)
(* way.                                                                    *)
FlightInv ==
    ~breached =>
        /\ \A q, r \in Requests : OnItsWay(q) /\ OnItsWay(r) => q = r
        /\ \A r, t \in Requests : OnItsWay(r) => ~Unsettled(t)
        /\ row.status \in Untaken => ~UnderWay
        /\ row.status = NoStatus => \A r \in Requests : ~OnItsWay(r)
        /\ \A s, t \in Requests : Unsettled(s) /\ Unsettled(t) => s = t

(* A reader that writes to the row has read a status.                      *)
ReadersHaveRead == \A g \in Readers : reader[g].pc = "sync" => reader[g].live # NoStatus

(* Tasks come to an end and handlers stay where they are; a status that    *)
(* lets a request in is written only when nothing is under way.            *)
LEMMA MoveFlight ==
    ASSUME FlightInv, ~breached' => ~breached, request' = request,
           \A s \in Requests : Unsettled(s)' => Unsettled(s),
           \/ row'.status = row.status
           \/ row'.status # NoStatus /\ (~breached' /\ row'.status \in Rerunnable => ~UnderWay')
    PROVE  FlightInv'
<1> SUFFICES ASSUME ~breached' PROVE FlightInv'
  BY DEF FlightInv
<1>1. /\ \A q, r \in Requests : OnItsWay(q) /\ OnItsWay(r) => q = r
      /\ \A r, t \in Requests : OnItsWay(r) => ~Unsettled(t)
      /\ row.status \in Untaken => ~UnderWay
      /\ row.status = NoStatus => \A r \in Requests : ~OnItsWay(r)
      /\ \A s, t \in Requests : Unsettled(s) /\ Unsettled(t) => s = t
  BY DEF FlightInv
<1>2. \A r \in Requests : OnItsWay(r)' = OnItsWay(r)
  BY DEF OnItsWay
<1>3. UnderWay' => UnderWay
  BY DEF UnderWay
<1>4. /\ row'.status \in Untaken => ~UnderWay'
      /\ row'.status = NoStatus => row.status = NoStatus
  BY <1>1, <1>3 DEF Untaken
<1> QED
  BY <1>1, <1>2, <1>4 DEF FlightInv

LEMMA AttemptFlight ==
    ASSUME TypeOK, FlightInv, NEW t \in Requests, Deliver(t) \/ AttemptStep(t) \/ ChildLost(t)
    PROVE  FlightInv'
<1> USE DEF OnlyTask, Goto, Conclude, End, AttemptPcs, DbPcs, RedisPcs, AfterOutcome
<1>1. /\ task \in [Requests -> TaskType] /\ task[t] \in TaskType
      /\ row \in RowType
      /\ task[t].pc = "dbOutcome" => task[t].outcome \in Outcomes
  BY DEF TypeOK
<1>2. request' = request /\ breached' = breached
  BY DEF Deliver, AttemptStep, SetRedisRunning, SetDbRunning, SafetyGate, FlagUnsafe,
     CacheGate, MarkCacheHit, Classify, ExecuteSteps, WorkFails, WriteOutcomeDb,
     WriteOutcomeStoring, WriteOutcomeRedis, WriteQuality, Acknowledge, ChildLost
<1>3. \A s \in Requests \ {t} : task'[s] = task[s]
  BY <1>1 DEF Deliver, AttemptStep, SetRedisRunning, SetDbRunning, SafetyGate, FlagUnsafe,
     CacheGate, MarkCacheHit, Classify, ExecuteSteps, WorkFails, WriteOutcomeDb,
     WriteOutcomeStoring, WriteOutcomeRedis, WriteQuality, Acknowledge, ChildLost
<1>4. Unsettled(t)' => Unsettled(t)
  BY <1>1 DEF Deliver, AttemptStep, SetRedisRunning, SetDbRunning, SafetyGate, FlagUnsafe,
     CacheGate, MarkCacheHit, Classify, ExecuteSteps, WorkFails, WriteOutcomeDb,
     WriteOutcomeStoring, WriteOutcomeRedis, WriteQuality, Acknowledge, ChildLost, TaskType,
     Unsettled
<1>5. \A s \in Requests : Unsettled(s)' => Unsettled(s)
  BY <1>3, <1>4 DEF Unsettled
<1>6. CASE SetDbRunning(t)
  <2>1. row'.status = "RUNNING"
    BY <1>1, <1>6 DEF SetDbRunning, RowType
  <2> QED
    BY <1>2, <1>5, <2>1, MoveFlight DEF Rerunnable, Retryable, NoStatus
<1>7. CASE WriteOutcomeDb(t)
  <2>1. Unsettled(t) /\ ~Unsettled(t)'
    BY <1>1, <1>7 DEF WriteOutcomeDb, WriteOutcomeStoring, TaskType, Unsettled
  <2>2. row'.status = StatusOf[task[t].outcome] /\ task[t].outcome \in Outcomes
    BY <1>1, <1>7 DEF WriteOutcomeDb, WriteOutcomeStoring, RowType
  <2>3. row'.status # NoStatus
    BY <2>2 DEF StatusOf, Outcomes, NoStatus
  <2>4. ~breached => \A r \in Requests : Unsettled(r) => r = t
    BY <2>1 DEF FlightInv
  <2>5. ~breached => \A r \in Requests : request[r].pc # "enqueue"
    BY <2>1 DEF FlightInv, OnItsWay
  <2>6. ~breached => ~UnderWay'
    BY <1>2, <1>5, <2>1, <2>4, <2>5 DEF UnderWay
  <2> QED
    BY <1>2, <1>5, <2>3, <2>6, MoveFlight
<1>8. CASE ~SetDbRunning(t) /\ ~WriteOutcomeDb(t)
  <2>1. row'.status = row.status
    BY <1>1, <1>8 DEF Deliver, AttemptStep, SetRedisRunning, SafetyGate, FlagUnsafe,
       CacheGate, MarkCacheHit, Classify, ExecuteSteps, WorkFails,
       WriteOutcomeRedis, WriteQuality, Acknowledge, ChildLost, RowType
  <2> QED
    BY <1>2, <1>5, <2>1, MoveFlight
<1> QED
  BY <1>6, <1>7, <1>8

(* A task is given back, or fails, without a breach only if it has yet to  *)
(* settle the row anyway.                                                  *)
LEMMA FaultFlight ==
    ASSUME TypeOK, FlightInv, NEW t \in Requests, StoreFault(t) \/ Escape(t) \/ NodeLost(t)
    PROVE  FlightInv'
<1> USE DEF OnlyTask, Conclude, End, Message, AttemptPcs, DbPcs, RedisPcs, AfterOutcome
<1>1. task \in [Requests -> TaskType] /\ task[t] \in TaskType
  BY DEF TypeOK
<1>2. ~breached' => ~breached
  BY BreachOK DEF Next
<1>3. request' = request /\ row' = row
  BY DEF StoreFault, Escape, EscapeUpTo, NodeLost
<1>4. \A s \in Requests \ {t} : task'[s] = task[s]
  BY <1>1 DEF StoreFault, Escape, EscapeUpTo, NodeLost
<1>5. ~breached' /\ Unsettled(t)' => Unsettled(t)
  <2>1. CASE StoreFault(t)
    BY <1>1, <2>1 DEF StoreFault, Unsettled, TaskType, Breach
  <2>2. CASE Escape(t)
    BY <1>1, <2>2 DEF Escape, EscapeUpTo, Unsettled, TaskType, Breach
  <2>3. CASE NodeLost(t)
    BY <1>1, <2>3 DEF NodeLost, Unsettled, TaskType, Breach
  <2> QED
    BY <2>1, <2>2, <2>3
<1>6. CASE breached'
  BY <1>6 DEF FlightInv
<1>7. CASE ~breached'
  <2>1. \A s \in Requests : Unsettled(s)' => Unsettled(s)
    BY <1>4, <1>5, <1>7 DEF Unsettled
  <2> QED
    BY <1>2, <1>3, <2>1, MoveFlight
<1> QED
  BY <1>6, <1>7

(* Dead letters and readers write the row's status from outside.           *)
LEMMA OutsideFlight ==
    ASSUME TypeOK, FlightInv, ReadersHaveRead,
           \/ \E t \in Requests :
                DeadLetterDeliver(t) \/ DeadLetterStep(t) \/ DeadLetterFault(t)
           \/ \E g \in Readers : ReaderStep(g)
    PROVE  FlightInv'
<1>1. row \in RowType
  BY DEF TypeOK
<1>2. ~breached' => ~breached
  BY BreachOK DEF Next
<1>3. request' = request /\ task' = task
  BY DEF DeadLetterDeliver, DeadLetterStep, DeadLetterDb, DeadLetterRedis, DeadLetterFault,
     OnlyDeadLetter, ReaderStep, ReadRow, ReadLive, SyncRow, SyncRowTo, OnlyReader
<1>4. /\ \A s \in Requests : Unsettled(s)' = Unsettled(s)
      /\ UnderWay' = UnderWay
  BY <1>3 DEF Unsettled, UnderWay
<1>5. ASSUME NEW t \in Requests, DeadLetterDb(t) PROVE FlightInv'
  <2>1. row'.status = "DEAD_LETTER" /\ (~breached' => ~UnderWay)
    BY <1>1, <1>5 DEF DeadLetterDb, RowType, Breach
  <2> QED
    BY <1>2, <1>3, <1>4, <2>1, MoveFlight DEF NoStatus
<1>6. ASSUME NEW g \in Readers, SyncRow(g) PROVE FlightInv'
  <2>1. /\ row'.status = reader[g].live /\ reader[g].live # NoStatus
        /\ ~breached' /\ reader[g].live \in Rerunnable => ~UnderWay
    BY <1>1, <1>6 DEF SyncRow, SyncRowTo, RowType, Breach, ReadersHaveRead
  <2> QED
    BY <1>2, <1>3, <1>4, <2>1, MoveFlight
<1>7. CASE row' = row
  BY <1>2, <1>3, <1>4, <1>7, MoveFlight
<1>8. \/ \E t \in Requests : DeadLetterDb(t)
      \/ \E g \in Readers : SyncRow(g)
      \/ row' = row
  BY DEF DeadLetterDeliver, DeadLetterStep, DeadLetterRedis, DeadLetterFault,
     ReaderStep, ReadRow, ReadLive
<1> QED
  BY <1>5, <1>6, <1>7, <1>8

LEMMA HandlerFlight ==
    ASSUME TypeOK, FlightInv, NEW r \in Requests,
           Submit(r) \/ Retry(r) \/ Approve(r) \/ HandlerStep(r) \/ HandlerCrash(r)
    PROVE  FlightInv'
<1> USE DEF OnlyHandler
<1>1. /\ task \in [Requests -> TaskType] /\ row \in RowType
      /\ request \in [Requests -> RequestType] /\ request[r] \in RequestType
  BY DEF TypeOK
<1>2. ~breached' => ~breached
  BY BreachOK DEF Next
<1> SUFFICES ASSUME ~breached', ~breached PROVE FlightInv'
  BY <1>2 DEF FlightInv
<1>3. /\ \A q, s \in Requests : OnItsWay(q) /\ OnItsWay(s) => q = s
      /\ \A q, t \in Requests : OnItsWay(q) => ~Unsettled(t)
      /\ row.status \in Untaken => ~UnderWay
      /\ row.status = NoStatus => \A q \in Requests : ~OnItsWay(q)
      /\ \A s, t \in Requests : Unsettled(s) /\ Unsettled(t) => s = t
  BY DEF FlightInv
<1>4. \A q \in Requests \ {r} : request'[q] = request[q]
  BY <1>1 DEF Submit, Retry, Approve, AcceptRerun, Accept, HandlerStep, Reset, Enqueue,
     EnqueueSkippingFor, MarkQueued, HandlerCrash
<1>5. CASE Submit(r) \/ Retry(r) \/ Approve(r)
  <2>1. /\ row.status \in Untaken /\ task' = task
        /\ \A q \in Requests : request[q].pc # "reset"
    BY <1>5 DEF Submit, Retry, Approve, AcceptRerun, Accept, Breach, Untaken, Rerunnable,
       Retryable
  <2>2. \A q \in Requests : ~OnItsWay(q) /\ ~Unsettled(q)
    BY <1>3, <2>1 DEF UnderWay, OnItsWay
  <2>3. /\ \A q \in Requests : ~Unsettled(q)'
        /\ \A q \in Requests : OnItsWay(q)' => q = r
    BY <1>4, <2>1, <2>2 DEF Unsettled, OnItsWay
  <2>4. \/ row'.status = "PENDING"
        \/ row'.status = row.status /\ row.status # NoStatus /\ request'[r].pc = "reset"
    <3>1. CASE Submit(r)
      BY <1>1, <3>1 DEF Submit, RowType
    <3>2. CASE Retry(r)
      BY <1>1, <3>2 DEF Retry, AcceptRerun, Accept, Retryable, NoStatus
    <3>3. CASE Approve(r)
      BY <1>1, <3>3 DEF Approve, AcceptRerun, Accept, NoStatus
    <3> QED
      BY <1>5, <3>1, <3>2, <3>3
  <2>5. /\ row'.status \in Untaken => ~UnderWay'
        /\ row'.status # NoStatus
    <3>1. CASE row'.status = "PENDING"
      BY <3>1 DEF Untaken, Rerunnable, Retryable, NoStatus
    <3>2. CASE row'.status = row.status /\ row.status # NoStatus /\ request'[r].pc = "reset"
      BY <1>4, <2>2, <2>3, <3>2 DEF UnderWay, OnItsWay
    <3> QED
      BY <2>4, <3>1, <3>2
  <2> QED
    BY <2>3, <2>5 DEF FlightInv
<1>6. CASE Reset(r)
  <2>1. /\ row'.status = "PENDING" /\ task' = task /\ OnItsWay(r)
    BY <1>1, <1>6 DEF Reset, RowType, OnItsWay
  <2>2. /\ \A q \in Requests : Unsettled(q)' = Unsettled(q)
        /\ \A q \in Requests : OnItsWay(q)' => OnItsWay(q)
    BY <1>4, <2>1 DEF Unsettled, OnItsWay
  <2>3. row'.status \notin Untaken /\ row'.status # NoStatus
    BY <2>1 DEF Untaken, Rerunnable, Retryable, NoStatus
  <2> QED
    BY <1>3, <2>2, <2>3 DEF FlightInv
<1>7. CASE Enqueue(r)
  <2>1. /\ row' = row /\ request[r].pc = "enqueue" /\ request'[r].pc = "markQueued"
        /\ \A t \in Requests \ {r} : task'[t] = task[t]
    BY <1>1, <1>7 DEF Enqueue, EnqueueSkippingFor, RequestType
  <2>2. OnItsWay(r) /\ UnderWay
    BY <2>1 DEF OnItsWay, UnderWay
  <2>3. \A q \in Requests : ~OnItsWay(q)'
    BY <1>3, <1>4, <2>1, <2>2 DEF OnItsWay
  <2>4. \A t \in Requests : Unsettled(t)' => t = r
    BY <1>3, <2>1, <2>2 DEF Unsettled
  <2>5. row'.status \notin Untaken /\ row'.status # NoStatus
    BY <1>3, <2>1, <2>2 DEF Untaken
  <2> QED
    BY <2>3, <2>4, <2>5 DEF FlightInv
<1>8. CASE MarkQueued(r) \/ HandlerCrash(r)
  <2>1. /\ task' = task /\ request'[r].pc \in {"done", "crashed"}
        /\ \/ row' = row
           \/ row'.status = "QUEUED"
    BY <1>1, <1>8 DEF MarkQueued, HandlerCrash, RowType, RequestType
  <2>2. /\ \A q \in Requests : Unsettled(q)' = Unsettled(q)
        /\ \A q \in Requests : OnItsWay(q)' => OnItsWay(q)
        /\ \A q \in Requests : request'[q].pc = "enqueue" => request[q].pc = "enqueue"
    BY <1>4, <2>1 DEF Unsettled, OnItsWay
  <2>3. UnderWay' => UnderWay
    BY <2>2 DEF UnderWay
  <2>4. /\ row'.status \in Untaken => row.status \in Untaken
        /\ row'.status = NoStatus => row.status = NoStatus
    BY <2>1 DEF Untaken, Rerunnable, Retryable, NoStatus
  <2> QED
    BY <1>3, <2>2, <2>3, <2>4 DEF FlightInv
<1> QED
  BY <1>5, <1>6, <1>7, <1>8 DEF HandlerStep

LEMMA ReadersStep ==
    ASSUME TypeOK, ReadersHaveRead, [Next]_vars
    PROVE  ReadersHaveRead'
<1> USE DEF ReadersHaveRead
<1>1. reader \in [Readers -> ReaderType]
  BY DEF TypeOK
<1>2. CASE reader' = reader
  BY <1>2
<1>3. ASSUME NEW g \in Readers, ReaderStep(g) PROVE ReadersHaveRead'
  <2>1. CASE ReadRow(g)
    BY <1>1, <2>1 DEF ReadRow
  <2>2. CASE ReadLive(g)
    BY <1>1, <2>2 DEF ReadLive
  <2>3. CASE SyncRow(g)
    BY <1>1, <2>3 DEF SyncRow, SyncRowTo
  <2> QED
    BY <1>3, <2>1, <2>2, <2>3 DEF ReaderStep
<1>4. ASSUME NEW r \in Requests,
             Submit(r) \/ Retry(r) \/ Approve(r) \/ HandlerStep(r) \/ HandlerCrash(r)
      PROVE  reader' = reader
  BY <1>4 DEF Submit, Retry, Approve, AcceptRerun, HandlerStep, Reset, Enqueue,
     EnqueueSkippingFor, MarkQueued, HandlerCrash, OnlyHandler
<1>5. ASSUME NEW t \in Requests, Deliver(t) \/ AttemptStep(t)
      PROVE  reader' = reader
  BY <1>5 DEF Deliver, AttemptStep, SetRedisRunning, SetDbRunning, SafetyGate, FlagUnsafe,
     CacheGate, MarkCacheHit, Classify, ExecuteSteps, WorkFails, WriteOutcomeDb,
     WriteOutcomeStoring, WriteOutcomeRedis, WriteQuality, Acknowledge, OnlyTask
<1>6. ASSUME NEW t \in Requests,
             \/ StoreFault(t) \/ Escape(t) \/ ChildLost(t) \/ NodeLost(t)
             \/ DeadLetterDeliver(t) \/ DeadLetterStep(t) \/ DeadLetterFault(t)
      PROVE  reader' = reader
  BY <1>6 DEF StoreFault, Escape, EscapeUpTo, ChildLost, NodeLost, DeadLetterDeliver,
     DeadLetterStep, DeadLetterDb, DeadLetterRedis, DeadLetterFault, OnlyTask, OnlyDeadLetter
<1> QED
  BY <1>2, <1>3, <1>4, <1>5, <1>6 DEF Next, vars

LEMMA FlightInvariant == Spec => [](FlightInv /\ ReadersHaveRead)
<1>1. Init => FlightInv /\ ReadersHaveRead
  BY DEF Init, FlightInv, ReadersHaveRead, OnItsWay, UnderWay, Unsettled, Message, AttemptPcs,
     DbPcs, RedisPcs
<1>2. TypeOK /\ FlightInv /\ ReadersHaveRead /\ [Next]_vars => FlightInv' /\ ReadersHaveRead'
  <2> SUFFICES ASSUME TypeOK, FlightInv, ReadersHaveRead, [Next]_vars PROVE FlightInv'
    BY ReadersStep
  <2>1. CASE UNCHANGED vars
    BY <2>1 DEF vars, FlightInv, OnItsWay, UnderWay, Unsettled
  <2> QED
    BY <2>1, HandlerFlight, AttemptFlight, FaultFlight, OutsideFlight DEF Next
<1> QED
  BY <1>1, <1>2, TypeCorrect, PTL DEF Spec

(* A run has one task at most that has yet to settle its row, for any      *)
(* requests and readers at once, any concurrency and any faults, until     *)
(* one of the four ways to a second task has been taken: overlapping       *)
(* checks of /retry and /approve, a stale status put over a task under     *)
(* way, a settled task given back to the broker, and one that fails after  *)
(* its outcome.  No other behaviour of the code admits a second task.      *)
THEOREM OneTaskPerRun == Spec => []SingleFlight
<1>1. FlightInv => SingleFlight
  BY DEF FlightInv, SingleFlight
<1> QED
  BY <1>1, FlightInvariant, PTL

(* The status and the answer of a run change together, so that without a   *)
(* reader a COMPLETED row has its answer through all retries and faults.   *)
THEOREM CompletedRunsAreAnswered == Spec => []CompletedHasAnswer
<1>1. Init => CompletedHasAnswer
  BY DEF Init, CompletedHasAnswer, NoStatus
<1>2. TypeOK /\ CompletedHasAnswer /\ [Next]_vars => CompletedHasAnswer'
  <2> SUFFICES ASSUME TypeOK, CompletedHasAnswer, [Next]_vars, Readers = {}
               PROVE  row'.status = "COMPLETED" => row'.output = "answer"
    BY DEF CompletedHasAnswer
  <2>0. row \in RowType /\ (row.status = "COMPLETED" => row.output = "answer")
    BY DEF TypeOK, CompletedHasAnswer
  <2>1. CASE UNCHANGED vars
    BY <2>0, <2>1 DEF vars
  <2>2. ASSUME NEW r \in Requests,
               Submit(r) \/ Retry(r) \/ Approve(r) \/ HandlerStep(r) \/ HandlerCrash(r)
        PROVE  row'.status = "COMPLETED" => row'.output = "answer"
    BY <2>0, <2>2 DEF Submit, Retry, Approve, AcceptRerun, HandlerStep, Reset, Enqueue,
       EnqueueSkippingFor, MarkQueued, HandlerCrash, RowType
  <2>3. ASSUME NEW t \in Requests, WriteOutcomeDb(t)
        PROVE  row'.status = "COMPLETED" => row'.output = "answer"
    <3>1. task[t].outcome \in Outcomes
      BY <2>3 DEF WriteOutcomeDb, WriteOutcomeStoring, TypeOK
    <3> QED
      BY <2>0, <2>3, <3>1 DEF WriteOutcomeDb, WriteOutcomeStoring, RowType, StatusOf, Outcomes
  <2>4. ASSUME NEW t \in Requests, Deliver(t) \/ AttemptStep(t), ~WriteOutcomeDb(t)
        PROVE  row'.status = "COMPLETED" => row'.output = "answer"
    BY <2>0, <2>4 DEF Deliver, AttemptStep, SetRedisRunning, SetDbRunning, SafetyGate,
       FlagUnsafe, CacheGate, MarkCacheHit, Classify, ExecuteSteps, WorkFails,
       WriteOutcomeRedis, WriteQuality, Acknowledge, RowType
  <2>5. ASSUME NEW t \in Requests,
               \/ StoreFault(t) \/ Escape(t) \/ ChildLost(t) \/ NodeLost(t)
               \/ DeadLetterDeliver(t) \/ DeadLetterStep(t) \/ DeadLetterFault(t)
        PROVE  row'.status = "COMPLETED" => row'.output = "answer"
    BY <2>0, <2>5 DEF StoreFault, Escape, EscapeUpTo, ChildLost, NodeLost, DeadLetterDeliver,
       DeadLetterStep, DeadLetterDb, DeadLetterRedis, DeadLetterFault, RowType
  <2> QED
    BY <2>1, <2>2, <2>3, <2>4, <2>5 DEF Next
<1> QED
  BY <1>1, <1>2, TypeCorrect, PTL DEF Spec

-----------------------------------------------------------------------------
(* The steps of RunPromise.                                                *)

(* A task takes its risk when it is classified, once for each delivery.    *)
RiskInv ==
    \A t \in Requests :
        task[t].pc \in {"unsent", "queued", "redisRunning", "dbRunning", "safety", "flag",
                       "cache", "markHit", "classify"} => ~task[t].low

LEMMA RiskStep == TypeOK /\ RiskInv /\ [Next]_vars => RiskInv'
<1> SUFFICES ASSUME TypeOK, RiskInv, [Next]_vars PROVE RiskInv'
  OBVIOUS
<1> USE DEF RiskInv
<1>1. task \in [Requests -> TaskType] /\ \A s \in Requests : task[s] \in TaskType
  BY DEF TypeOK
<1>2. CASE UNCHANGED vars
  BY <1>2 DEF vars
<1>3. ASSUME NEW r \in Requests,
             Submit(r) \/ Retry(r) \/ Approve(r) \/ HandlerStep(r) \/ HandlerCrash(r)
      PROVE  RiskInv'
  BY <1>1, <1>3 DEF Submit, Retry, Approve, AcceptRerun, HandlerStep, Reset, Enqueue,
     EnqueueSkippingFor, MarkQueued, HandlerCrash, OnlyHandler, Message
<1>4. ASSUME NEW t \in Requests, Deliver(t) \/ AttemptStep(t) PROVE RiskInv'
  BY <1>1, <1>4 DEF Deliver, AttemptStep, SetRedisRunning, SetDbRunning, SafetyGate,
     FlagUnsafe, CacheGate, MarkCacheHit, Classify, ExecuteSteps, WorkFails,
     WriteOutcomeDb, WriteOutcomeStoring, WriteOutcomeRedis, WriteQuality, Acknowledge, End,
     OnlyTask, Goto, Conclude, TaskType
<1>5. ASSUME NEW t \in Requests, StoreFault(t) \/ Escape(t) \/ ChildLost(t) \/ NodeLost(t)
      PROVE  RiskInv'
  BY <1>1, <1>5 DEF StoreFault, Escape, EscapeUpTo, End, ChildLost, NodeLost, OnlyTask,
     Goto, Conclude, Message, TaskType
<1>6. ASSUME NEW t \in Requests,
             DeadLetterDeliver(t) \/ DeadLetterStep(t) \/ DeadLetterFault(t)
      PROVE  RiskInv'
  BY <1>6 DEF DeadLetterDeliver, DeadLetterStep, DeadLetterDb, DeadLetterRedis,
     DeadLetterFault, OnlyDeadLetter
<1>7. ASSUME NEW g \in Readers, ReaderStep(g) PROVE RiskInv'
  BY <1>7 DEF ReaderStep, ReadRow, ReadLive, SyncRow, SyncRowTo, OnlyReader
<1> QED
  BY <1>2, <1>3, <1>4, <1>5, <1>6, <1>7 DEF Next

Jobs == [t \in Requests |-> JobOf(t)]
Approved == {t \in Requests : task[t].skip}
Risky == {t \in Requests : task[t].low}

OthersStay(t) == \A s \in Requests \ {t} : task'[s] = task[s]
JobMoves(t, from, to) == JobOf(t) = from /\ JobOf(t)' = to
SkipStays(t) == task'[t].skip = task[t].skip
LowStays(t) == task'[t].low = task[t].low

(* What a step does to the job of one task.                                *)
LEMMA OneJob ==
    ASSUME NEW t \in Requests, OthersStay(t)
    PROVE  /\ Jobs' = [Jobs EXCEPT ![t] = JobOf(t)'] /\ Jobs[t] = JobOf(t)
           /\ SkipStays(t) => Approved' = Approved
           /\ task'[t].skip => Approved' = Approved \cup {t}
           /\ LowStays(t) => Risky' = Risky
           /\ task'[t].low => Risky' = Risky \cup {t}
           /\ ~task'[t].low => Risky' = Risky \ {t}
<1> USE DEF OthersStay, SkipStays, LowStays
<1>1. \A s \in Requests \ {t} : JobOf(s)' = JobOf(s)
  BY DEF JobOf
<1>2. Jobs' = [Jobs EXCEPT ![t] = JobOf(t)'] /\ Jobs[t] = JobOf(t)
  BY <1>1 DEF Jobs
<1>3. /\ SkipStays(t) => Approved' = Approved
      /\ task'[t].skip => Approved' = Approved \cup {t}
  BY DEF Approved
<1>4. /\ LowStays(t) => Risky' = Risky
      /\ task'[t].low => Risky' = Risky \cup {t}
      /\ ~task'[t].low => Risky' = Risky \ {t}
  BY DEF Risky
<1> QED
  BY <1>2, <1>3, <1>4

(* The steps of a job.                                                     *)
LEMMA JobSteps ==
    ASSUME NEW t \in Requests, OthersStay(t)
    PROVE  /\ JobOf(t)' = JobOf(t) /\ SkipStays(t) /\ LowStays(t) /\ held' = held
                => UNCHANGED Promise!promise
           /\ (/\ JobMoves(t, "none", "waiting") /\ LowStays(t) /\ held' = held
               /\ SkipStays(t) \/ (task'[t].skip /\ held))
                => Promise!Publish(t)
           /\ JobMoves(t, "waiting", "active") /\ SkipStays(t) /\ LowStays(t) /\ held' = held
                => Promise!Begin(t)
           /\ JobMoves(t, "active", "active") /\ SkipStays(t) /\ LowStays(t) /\ held' = TRUE
                => Promise!AskReview(t)
           /\ JobMoves(t, "active", "active") /\ SkipStays(t) /\ task[t].skip /\ task'[t].low
               /\ held' = held
                => Promise!TakeRisk(t)
           /\ JobMoves(t, "active", "waiting") /\ SkipStays(t) /\ ~task'[t].low /\ held' = held
                => Promise!Again(t)
           /\ JobMoves(t, "active", "over") /\ SkipStays(t) /\ LowStays(t) /\ held' = held
                => Promise!Finish(t)
<1>1. /\ Jobs' = [Jobs EXCEPT ![t] = JobOf(t)'] /\ Jobs[t] = JobOf(t)
      /\ SkipStays(t) => Approved' = Approved
      /\ task'[t].skip => Approved' = Approved \cup {t}
      /\ LowStays(t) => Risky' = Risky
      /\ task'[t].low => Risky' = Risky \cup {t}
      /\ ~task'[t].low => Risky' = Risky \ {t}
  BY OneJob
<1>2. JobOf(t)' = JobOf(t) => Jobs' = Jobs
  BY <1>1 DEF Jobs
<1>3. task[t].skip => t \in Approved
  BY DEF Approved
<1> QED
  BY <1>1, <1>2, <1>3 DEF Promise!promise, Promise!Publish, Promise!Begin, Promise!AskReview,
     Promise!TakeRisk, Promise!Again, Promise!Finish, Promise!Move, JobMoves,
     Jobs, Approved, Risky

LEMMA JobStays == ASSUME task' = task, held' = held PROVE UNCHANGED Promise!promise
BY DEF Promise!promise, JobOf

LEMMA HandlerPromise ==
    ASSUME TypeOK, GateInv, NEW r \in Requests,
           Submit(r) \/ Retry(r) \/ Approve(r) \/ HandlerStep(r) \/ HandlerCrash(r)
    PROVE  [Promise!Next]_(Promise!promise)
<1>1. CASE Enqueue(r)
  <2> DEFINE skip == request[r].op \in {"approve"}
  <2>1. /\ task \in [Requests -> TaskType] /\ request[r].pc = "enqueue" /\ held' = held
        /\ task' = [task EXCEPT ![r] = Message("queued", skip, 0, FALSE)]
    BY <1>1 DEF Enqueue, EnqueueSkippingFor, OnlyHandler, TypeOK
  <2>2. /\ task[r].pc = "unsent" /\ task[r].skip = FALSE /\ task[r].low = FALSE
        /\ skip => held
    BY <2>1 DEF GateInv, PublishedOnce, ReviewIsRecorded, TaskType
  <2>3. OthersStay(r)
    BY <2>1 DEF OthersStay
  <2>4. task'[r].pc = "queued" /\ task'[r].low = FALSE /\ task'[r].skip = skip
    BY <2>1 DEF Message
  <2>a. skip \in BOOLEAN
    OBVIOUS
  <2> HIDE DEF skip
  <2>5. JobMoves(r, "none", "waiting") /\ LowStays(r)
    <3>1. JobOf(r) = "none"
      BY <2>2 DEF JobOf, AttemptPcs, DbPcs, RedisPcs
    <3>2. JobOf(r)' = "waiting"
      BY <2>4 DEF JobOf, AttemptPcs, DbPcs, RedisPcs
    <3> QED
      BY <2>2, <2>4, <3>1, <3>2 DEF JobMoves, LowStays
  <2>6. SkipStays(r) \/ (task'[r].skip /\ held)
    <3>1. CASE skip = TRUE
      BY <2>2, <2>4, <3>1
    <3>2. CASE skip = FALSE
      BY <2>2, <2>4, <3>2 DEF SkipStays
    <3> QED
      BY <2>a, <3>1, <3>2
  <2> QED
    BY <2>1, <2>3, <2>5, <2>6, JobSteps DEF Promise!Next
<1>2. CASE ~Enqueue(r)
  <2>1. task' = task /\ held' = held
    BY <1>2 DEF Submit, Retry, Approve, AcceptRerun, HandlerStep, Reset, MarkQueued,
       HandlerCrash, OnlyHandler
  <2> QED
    BY <2>1, JobStays
<1> QED
  BY <1>1, <1>2

LEMMA AttemptPromise ==
    ASSUME TypeOK, GateInv, RiskInv, NEW t \in Requests, Deliver(t) \/ AttemptStep(t)
    PROVE  [Promise!Next]_(Promise!promise)
<1> USE DEF OnlyTask, Goto, Conclude
<1>1. task \in [Requests -> TaskType] /\ task[t] \in TaskType /\ held \in BOOLEAN
  BY DEF TypeOK
<1>2. OthersStay(t) /\ SkipStays(t)
  BY <1>1 DEF Deliver, AttemptStep, SetRedisRunning, SetDbRunning, SafetyGate, FlagUnsafe,
     CacheGate, MarkCacheHit, Classify, ExecuteSteps, WorkFails, WriteOutcomeDb,
     WriteOutcomeStoring, WriteOutcomeRedis, WriteQuality, Acknowledge, End, TaskType,
     OthersStay, SkipStays
<1>3. CASE Deliver(t)
  <2>1. /\ task[t].pc = "queued" /\ task'[t].pc = "redisRunning"
        /\ LowStays(t) /\ held' = held
    BY <1>1, <1>3 DEF Deliver, LowStays, TaskType
  <2>2. JobMoves(t, "waiting", "active")
    BY <2>1 DEF JobMoves, JobOf, AttemptPcs, DbPcs, RedisPcs
  <2> QED
    BY <1>2, <2>1, <2>2, JobSteps DEF Promise!Next
<1>4. CASE Classify(t)
  <2>1. PICK low \in BOOLEAN :
          IF low /\ ~task[t].skip
          THEN Conclude(t, "review")
          ELSE task' = [task EXCEPT ![t].pc = "steps", ![t].low = low]
    BY <1>4 DEF Classify
  <2>2. /\ task[t].pc = "classify" /\ ~task[t].low /\ held' = held
        /\ task'[t].pc \in {"steps", "dbOutcome"}
        /\ \/ task'[t].low = task[t].low
           \/ task'[t].low = TRUE /\ task[t].skip
    BY <1>1, <1>4, <2>1 DEF Classify, RiskInv, TaskType
  <2>3. JobMoves(t, "active", "active")
    BY <2>2 DEF JobMoves, JobOf, AttemptPcs, DbPcs
  <2> QED
    BY <1>2, <2>2, <2>3, JobSteps DEF JobMoves, LowStays, Promise!Next
<1>5. CASE WriteOutcomeDb(t)
  <2>1. /\ task[t].pc = "dbOutcome" /\ task'[t].pc = "redisOutcome" /\ LowStays(t)
        /\ held' = (held \/ task[t].outcome = "review")
    BY <1>1, <1>5 DEF WriteOutcomeDb, WriteOutcomeStoring, LowStays, TaskType
  <2>2. JobMoves(t, "active", "active")
    BY <2>1 DEF JobMoves, JobOf, AttemptPcs, DbPcs, RedisPcs
  <2>3. held' = held \/ held' = TRUE
    BY <1>1, <2>1
  <2> QED
    BY <1>2, <2>1, <2>2, <2>3, JobSteps DEF JobMoves, Promise!Next
<1>6. CASE Acknowledge(t)
  <2>1. JobMoves(t, "active", "over") /\ LowStays(t) /\ held' = held
    BY <1>1, <1>6 DEF Acknowledge, End, JobMoves, JobOf, LowStays, TaskType,
       AttemptPcs, DbPcs, RedisPcs
  <2> QED
    BY <1>2, <2>1, JobSteps DEF Promise!Next
<1>7. CASE \/ SetRedisRunning(t) \/ SetDbRunning(t) \/ SafetyGate(t) \/ FlagUnsafe(t)
           \/ CacheGate(t) \/ MarkCacheHit(t) \/ ExecuteSteps(t) \/ WorkFails(t)
           \/ WriteOutcomeRedis(t) \/ WriteQuality(t)
  <2>1. /\ task[t].pc \in AttemptPcs /\ task'[t].pc \in AttemptPcs
        /\ LowStays(t) /\ held' = held
    BY <1>1, <1>7 DEF SetRedisRunning, SetDbRunning, SafetyGate, FlagUnsafe, CacheGate, MarkCacheHit, ExecuteSteps, WorkFails, WriteOutcomeRedis, WriteQuality,
       LowStays, TaskType, AttemptPcs, DbPcs, RedisPcs
  <2>2. JobOf(t)' = JobOf(t)
    BY <2>1 DEF JobOf, AttemptPcs, DbPcs, RedisPcs
  <2> QED
    BY <1>2, <2>1, <2>2, JobSteps
<1> QED
  BY <1>3, <1>4, <1>5, <1>6, <1>7 DEF AttemptStep

LEMMA FaultPromise ==
    ASSUME TypeOK, NEW t \in Requests,
           \/ StoreFault(t) \/ Escape(t) \/ NodeLost(t)
           \/ DeadLetterDeliver(t) \/ DeadLetterStep(t) \/ DeadLetterFault(t)
    PROVE  [Promise!Next]_(Promise!promise)
<1> USE DEF OnlyTask, Goto, Conclude
<1>1. task \in [Requests -> TaskType] /\ task[t] \in TaskType /\ held \in BOOLEAN
  BY DEF TypeOK
<1>2. CASE StoreFault(t)
  <2>1. /\ OthersStay(t) /\ SkipStays(t) /\ LowStays(t) /\ held' = held
        /\ task[t].pc \in AttemptPcs /\ task'[t].pc \in AttemptPcs
    BY <1>1, <1>2 DEF StoreFault, OthersStay, SkipStays, LowStays, TaskType, AttemptPcs,
       DbPcs, RedisPcs
  <2>2. JobOf(t)' = JobOf(t)
    BY <2>1 DEF JobOf, AttemptPcs, DbPcs, RedisPcs
  <2> QED
    BY <2>1, <2>2, JobSteps
<1>3. CASE Escape(t) /\ ~(task[t].retries < MaxRetries)
  <2>1. /\ OthersStay(t) /\ SkipStays(t) /\ LowStays(t) /\ held' = held
        /\ task[t].pc = "return" /\ task'[t].pc = "done"
    BY <1>1, <1>3 DEF Escape, EscapeUpTo, End, OthersStay, SkipStays, LowStays, TaskType
  <2>2. JobMoves(t, "active", "over")
    BY <2>1 DEF JobMoves, JobOf, AttemptPcs, DbPcs, RedisPcs
  <2> QED
    BY <2>1, <2>2, JobSteps DEF Promise!Next
<1>4. CASE (Escape(t) /\ task[t].retries < MaxRetries) \/ NodeLost(t)
  <2>1. /\ OthersStay(t) /\ SkipStays(t) /\ ~task'[t].low /\ held' = held
        /\ task[t].pc \in AttemptPcs /\ task'[t].pc = "queued"
    BY <1>1, <1>4 DEF Escape, EscapeUpTo, NodeLost, Message, OthersStay, SkipStays, AttemptPcs
  <2>2. JobMoves(t, "active", "waiting")
    BY <2>1 DEF JobMoves, JobOf, AttemptPcs, DbPcs, RedisPcs
  <2> QED
    BY <2>1, <2>2, JobSteps DEF Promise!Next
<1>5. CASE DeadLetterDeliver(t) \/ DeadLetterStep(t) \/ DeadLetterFault(t)
  <2>1. task' = task /\ held' = held
    BY <1>5 DEF DeadLetterDeliver, DeadLetterStep, DeadLetterDb, DeadLetterRedis,
       DeadLetterFault, OnlyDeadLetter
  <2> QED
    BY <2>1, JobStays
<1> QED
  BY <1>2, <1>3, <1>4, <1>5

(* What RunPromise says of steps; a killed child process is the one thing  *)
(* that takes a job away from it.                                          *)
PromiseSteps ==
    /\ Promise!Init
    /\ [][Promise!Next \/ \E t \in Requests : ChildLost(t)]_(Promise!promise)

(* Every step of the service is a step of RunPromise or changes nothing of *)
(* it, except the loss of a child process, whose message is acknowledged   *)
(* all the same (celery_app.py:20): a job is published once, waits, works    *)
(* and is over, and takes a risk only with an approval after a review.     *)
THEOREM StepsKeepPromise == Spec => PromiseSteps
<1>1. Init => Promise!Init
  <2> SUFFICES ASSUME Init PROVE Promise!Init
    OBVIOUS
  <2>1. \A r \in Requests :
           task[r].pc = "unsent" /\ task[r].skip = FALSE /\ task[r].low = FALSE
    BY DEF Init, Message
  <2>2. \A r \in Requests : JobOf(r) = "none"
    BY <2>1 DEF JobOf, AttemptPcs, DbPcs, RedisPcs
  <2>3. held = FALSE
    BY DEF Init
  <2> QED
    BY <2>1, <2>2, <2>3 DEF Promise!Init
<1>2. TypeOK /\ GateInv /\ RiskInv /\ [Next]_vars
        => [Promise!Next \/ \E t \in Requests : ChildLost(t)]_(Promise!promise)
  <2> SUFFICES ASSUME TypeOK, GateInv, RiskInv, [Next]_vars,
                      ~\E t \in Requests : ChildLost(t)
               PROVE  [Promise!Next]_(Promise!promise)
    OBVIOUS
  <2>1. CASE UNCHANGED vars
    BY <2>1, JobStays DEF vars
  <2>2. ASSUME NEW g \in Readers, ReaderStep(g) PROVE [Promise!Next]_(Promise!promise)
    BY <2>2, JobStays DEF ReaderStep, ReadRow, ReadLive, SyncRow, SyncRowTo, OnlyReader
  <2> QED
    BY <2>1, <2>2, HandlerPromise, AttemptPromise, FaultPromise DEF Next
<1>3. Init => RiskInv
  BY DEF Init, RiskInv, Message
<1> QED
  BY <1>1, <1>2, <1>3, RiskStep, GateInvariant, PTL DEF Spec, PromiseSteps
=============================================================================
