------------------------ MODULE RunLifecycle_proofs ------------------------
(***************************************************************************)
(* Proofs about RunLifecycle, for any set of requests and readers, any     *)
(* retry limit, any concurrency and any budget of faults.                  *)
(***************************************************************************)
EXTENDS RunLifecycle, TLAPS

-----------------------------------------------------------------------------
(* Type correctness.                                                       *)

TaskOK ==
    /\ task \in [Requests -> TaskType]
    /\ \A t \in Requests :
         task[t].pc \in {"dbOutcome", "redisOutcome"} => task[t].outcome \in Outcomes

(* Moving a task on to an operation that needs no outcome.                 *)
LEMMA GotoOK ==
    ASSUME TaskOK, NEW t \in Requests, NEW pc \in TaskPcs \ {"dbOutcome", "redisOutcome"},
           Goto(t, pc)
    PROVE  TaskOK'
BY DEF TaskOK, Goto, TaskType

(* An attempt that has chosen how it ends.                                 *)
LEMMA ConcludeOK ==
    ASSUME TaskOK, NEW t \in Requests, NEW o \in Outcomes, Conclude(t, o)
    PROVE  TaskOK'
<1> DEFINE new == [task[t] EXCEPT !.pc = "dbOutcome", !.outcome = o]
<1>1. task[t] \in TaskType /\ task \in [Requests -> TaskType]
  BY DEF TaskOK
<1>2. "dbOutcome" \in TaskPcs
  BY DEF TaskPcs, AttemptPcs, DbPcs
<1>3. new \in TaskType /\ new.outcome = o
  BY <1>1, <1>2 DEF TaskType
<1>4. task' = [task EXCEPT ![t] = new]
  BY <1>1 DEF Conclude
<1> HIDE DEF new
<1> QED
  BY <1>1, <1>3, <1>4 DEF TaskOK

(* A task that is in the queue, for the first time or again.               *)
LEMMA MessageOK ==
    ASSUME TaskOK, NEW t \in Requests, NEW skip \in BOOLEAN, NEW n \in 0 .. MaxRetries,
           NEW done \in BOOLEAN,
           task' = [task EXCEPT ![t] = Message("queued", skip, n, done)]
    PROVE  TaskOK'
<1>1. Message("queued", skip, n, done) \in TaskType
  BY DEF Message, TaskType, TaskPcs
<1>2. Message("queued", skip, n, done).pc = "queued"
  BY DEF Message
<1> QED
  BY <1>1, <1>2 DEF TaskOK

(* An attempt that is over.                                                *)
LEMMA EndOK ==
    ASSUME TaskOK, NEW t \in Requests, NEW pc \in {"done", "lost"}, End(t, pc)
    PROVE  TaskOK'
<1> DEFINE new == [task[t] EXCEPT !.pc = pc, !.outcome = "none"]
<1>1. task[t] \in TaskType /\ task \in [Requests -> TaskType]
  BY DEF TaskOK
<1>2. new \in TaskType /\ new.pc = pc
  BY <1>1 DEF TaskType, TaskPcs
<1>3. task' = [task EXCEPT ![t] = new]
  BY <1>1 DEF End
<1> HIDE DEF new
<1> QED
  BY <1>1, <1>2, <1>3 DEF TaskOK

(* Once a way to a second task has been taken, that stays so.              *)
LEMMA BreachOK ==
    ASSUME TypeOK, Next
    PROVE  breached' \in BOOLEAN /\ (~breached' => ~breached)
<1> USE DEF Breach
<1>0. breached \in BOOLEAN
  BY DEF TypeOK
<1>1. ASSUME NEW r \in Requests,
             Submit(r) \/ Retry(r) \/ Approve(r) \/ HandlerStep(r) \/ HandlerCrash(r)
      PROVE  breached' \in BOOLEAN /\ (~breached' => ~breached)
  BY <1>0, <1>1 DEF Submit, Retry, Approve, AcceptRerun, Accept, HandlerStep, Reset, Enqueue,
     EnqueueSkippingFor, MarkQueued, HandlerCrash
<1>2. ASSUME NEW t \in Requests, Deliver(t) \/ AttemptStep(t)
      PROVE  breached' = breached
  BY <1>2 DEF Deliver, AttemptStep, SetRedisRunning, SetDbRunning, SafetyGate, FlagUnsafe,
     CacheGate, MarkCacheHit, Classify, ExecuteSteps, WorkFails, WriteOutcomeDb,
     WriteOutcomeStoring, WriteOutcomeRedis, WriteQuality, Acknowledge
<1>3. ASSUME NEW t \in Requests,
             \/ StoreFault(t) \/ Escape(t) \/ ChildLost(t) \/ NodeLost(t)
             \/ DeadLetterDeliver(t) \/ DeadLetterStep(t) \/ DeadLetterFault(t)
      PROVE  breached' \in BOOLEAN /\ (~breached' => ~breached)
  BY <1>0, <1>3 DEF StoreFault, Escape, EscapeUpTo, ChildLost, NodeLost, DeadLetterDeliver,
     DeadLetterStep, DeadLetterDb, DeadLetterRedis, DeadLetterFault
<1>4. ASSUME NEW g \in Readers, ReaderStep(g)
      PROVE  breached' \in BOOLEAN /\ (~breached' => ~breached)
  BY <1>0, <1>4 DEF ReaderStep, ReadRow, ReadLive, SyncRow, SyncRowTo
<1> QED
  BY <1>0, <1>1, <1>2, <1>3, <1>4 DEF Next

(* A fault is taken from the budget.                                       *)
LEMMA SpendOK ==
    ASSUME budget \in [FaultKinds -> Nat], NEW kind \in FaultKinds, Spend(kind)
    PROVE  budget' \in [FaultKinds -> Nat]
BY DEF Spend

(* The three handler actions and the three that accept a request.          *)
LEMMA HandlerTypeOK ==
    ASSUME TypeOK, NEW r \in Requests,
           Submit(r) \/ Retry(r) \/ Approve(r) \/ HandlerStep(r) \/ HandlerCrash(r)
    PROVE  TypeOK'
<1>b. breached' \in BOOLEAN
  BY BreachOK DEF Next
<1> USE <1>b
<1> USE DEF TypeOK, RowType, RequestType, HandlerPcs, OnlyHandler
<1>1. CASE Submit(r)
  BY <1>1 DEF Submit, Accept, Statuses
<1>2. CASE Retry(r)
  BY <1>2 DEF Retry, AcceptRerun, Accept
<1>3. CASE Approve(r)
  BY <1>3 DEF Approve, AcceptRerun, Accept
<1>4. CASE Reset(r)
  BY <1>4 DEF Reset, Statuses
<1>5. CASE Enqueue(r)
  <2>1. TaskOK
    BY DEF TaskOK
  <2>2. 0 \in 0 .. MaxRetries
    BY RunConstants DEF RunConstants
  <2> DEFINE skip == request[r].op \in {"approve"}
  <2>3. skip \in BOOLEAN
    OBVIOUS
  <2>4. task' = [task EXCEPT ![r] = Message("queued", skip, 0, FALSE)]
    BY <1>5 DEF Enqueue, EnqueueSkippingFor
  <2> HIDE DEF skip
  <2>5. TaskOK'
    BY <2>1, <2>2, <2>3, <2>4, MessageOK
  <2>6. /\ request' \in [Requests -> RequestType]
        /\ UNCHANGED <<row, redis, deadLetter, reader, budget, held>>
    BY <1>5 DEF Enqueue, EnqueueSkippingFor
  <2> QED
    BY <2>5, <2>6 DEF TaskOK
<1>6. CASE MarkQueued(r)
  BY <1>6 DEF MarkQueued, Statuses
<1>7. CASE HandlerCrash(r)
  <2>1. budget' \in [FaultKinds -> Nat]
    BY <1>7, SpendOK DEF HandlerCrash, FaultKinds
  <2> QED
    BY <1>7, <2>1 DEF HandlerCrash
<1> QED
  BY <1>1, <1>2, <1>3, <1>4, <1>5, <1>6, <1>7 DEF HandlerStep

(* The steps of an attempt that only move the task and write a store.      *)
LEMMA AttemptTypeOK ==
    ASSUME TypeOK, NEW t \in Requests, Deliver(t) \/ AttemptStep(t)
    PROVE  TypeOK'
<1>b. breached' \in BOOLEAN
  BY BreachOK DEF Next
<1> USE <1>b
<1> USE DEF OnlyTask
<1>0. TaskOK
  BY DEF TypeOK, TaskOK
<1>1. SUFFICES /\ TaskOK'
               /\ row' \in RowType
               /\ redis' \in {NoStatus, "RUNNING"} \cup Settled
               /\ held' \in BOOLEAN
               /\ UNCHANGED <<request, deadLetter, reader, budget>>
  BY <1>1 DEF TypeOK, TaskOK
<1> DEFINE Resting == TaskPcs \ {"dbOutcome", "redisOutcome"}
<1>2. {"redisRunning", "dbRunning", "safety", "flag", "cache", "markHit", "classify",
       "steps", "quality", "return", "done"} \subseteq Resting
  BY DEF TaskPcs, AttemptPcs, DbPcs, RedisPcs
<1>3. CASE Deliver(t)
  BY <1>0, <1>2, <1>3, GotoOK DEF Deliver, TypeOK
<1>4. CASE SetRedisRunning(t)
  BY <1>0, <1>2, <1>4, GotoOK DEF SetRedisRunning, TypeOK
<1>5. CASE SetDbRunning(t)
  <2>1. row' \in RowType
    BY <1>5 DEF SetDbRunning, TypeOK, RowType, Statuses
  <2> QED
    BY <1>0, <1>2, <1>5, <2>1, GotoOK DEF SetDbRunning, TypeOK
<1>6. CASE SafetyGate(t)
  BY <1>0, <1>2, <1>6, GotoOK DEF SafetyGate, TypeOK
<1>7. CASE FlagUnsafe(t)
  <2>1. row' \in RowType
    BY <1>7 DEF FlagUnsafe, TypeOK, RowType
  <2>2. TaskOK'
    BY <1>0, <1>7, ConcludeOK DEF FlagUnsafe, Outcomes
  <2> QED
    BY <1>7, <2>1, <2>2 DEF FlagUnsafe, TypeOK
<1>8. CASE CacheGate(t)
  BY <1>0, <1>2, <1>8, GotoOK DEF CacheGate, TypeOK
<1>9. CASE MarkCacheHit(t)
  <2>1. row' \in RowType
    BY <1>9 DEF MarkCacheHit, TypeOK, RowType
  <2>2. TaskOK'
    BY <1>0, <1>9, ConcludeOK DEF MarkCacheHit, Outcomes
  <2> QED
    BY <1>9, <2>1, <2>2 DEF MarkCacheHit, TypeOK
<1>10. CASE Classify(t)
  <2>1. PICK low \in BOOLEAN :
          IF low /\ ~task[t].skip
          THEN Conclude(t, "review")
          ELSE task' = [task EXCEPT ![t].pc = "steps", ![t].low = low]
    BY <1>10 DEF Classify
  <2>2. TaskOK'
    <3>1. CASE low /\ ~task[t].skip
      BY <1>0, <2>1, <3>1, ConcludeOK DEF Outcomes
    <3>2. CASE ~(low /\ ~task[t].skip)
      BY <1>0, <2>1, <3>2 DEF TaskOK, TaskType, TaskPcs, AttemptPcs, DbPcs
    <3> QED
      BY <3>1, <3>2
  <2> QED
    BY <1>10, <2>2 DEF Classify, TypeOK
<1>11. CASE ExecuteSteps(t)
  BY <1>0, <1>11, ConcludeOK DEF ExecuteSteps, TypeOK, Outcomes
<1>12. CASE WorkFails(t)
  BY <1>0, <1>12, ConcludeOK DEF WorkFails, TypeOK, Outcomes
<1>13. CASE WriteOutcomeDb(t)
  <2>1. task[t].outcome \in Outcomes
    BY <1>0, <1>13 DEF WriteOutcomeDb, WriteOutcomeStoring, TaskOK
  <2>2. StatusOf[task[t].outcome] \in Statuses
    BY <2>1 DEF StatusOf, Outcomes, Statuses
  <2>3. row' \in RowType
    <3> DEFINE out == CASE task[t].outcome = "blocked" -> "blocked"
                        [] task[t].outcome \in {"cached", "answered"} -> "answer"
                        [] OTHER -> row.output
    <3>1. out \in {"none", "blocked", "answer"}
      BY DEF TypeOK, RowType
    <3>2. row' = [row EXCEPT !.status = StatusOf[task[t].outcome], !.output = out]
      BY <1>13 DEF WriteOutcomeDb, WriteOutcomeStoring
    <3> QED
      BY <2>2, <3>1, <3>2 DEF TypeOK, RowType
  <2>4. TaskOK'
    <3> DEFINE new == [task[t] EXCEPT !.pc = "redisOutcome", !.settled = TRUE]
    <3>1. task[t] \in TaskType /\ task \in [Requests -> TaskType]
      BY <1>0 DEF TaskOK
    <3>2. new \in TaskType /\ new.outcome = task[t].outcome
      BY <3>1 DEF TaskType, TaskPcs, AttemptPcs, RedisPcs
    <3>3. task' = [task EXCEPT ![t] = new]
      BY <1>13, <3>1 DEF WriteOutcomeDb, WriteOutcomeStoring
    <3> HIDE DEF new
    <3> QED
      BY <1>0, <2>1, <3>1, <3>2, <3>3 DEF TaskOK
  <2> QED
    BY <1>13, <2>3, <2>4 DEF WriteOutcomeDb, WriteOutcomeStoring, TypeOK
<1>14. CASE WriteOutcomeRedis(t)
  <2>1. task[t].outcome \in Outcomes
    BY <1>0, <1>14 DEF WriteOutcomeRedis, TaskOK
  <2>2. redis' \in Settled
    BY <1>14, <2>1 DEF WriteOutcomeRedis, StatusOf, Outcomes, Settled
  <2> QED
    BY <1>0, <1>2, <1>14, <2>2, GotoOK DEF WriteOutcomeRedis, TypeOK
<1>15. CASE WriteQuality(t)
  <2>1. row' \in RowType
    BY <1>15 DEF WriteQuality, TypeOK, RowType
  <2> QED
    BY <1>0, <1>2, <1>15, <2>1, GotoOK DEF WriteQuality, TypeOK
<1>16. CASE Acknowledge(t)
  BY <1>0, <1>16, EndOK DEF Acknowledge, TypeOK
<1> QED
  BY <1>3, <1>4, <1>5, <1>6, <1>7, <1>8, <1>9, <1>10, <1>11, <1>12, <1>13, <1>14,
     <1>15, <1>16 DEF AttemptStep

(* Faults of a task and what Celery makes of them.                         *)
LEMMA FaultTypeOK ==
    ASSUME TypeOK, NEW t \in Requests,
           StoreFault(t) \/ Escape(t) \/ ChildLost(t) \/ NodeLost(t)
    PROVE  TypeOK'
<1>b. breached' \in BOOLEAN
  BY BreachOK DEF Next
<1> USE <1>b
<1> USE DEF OnlyTask
<1>0. TaskOK /\ budget \in [FaultKinds -> Nat]
  BY DEF TypeOK, TaskOK
<1>1. SUFFICES /\ TaskOK'
               /\ budget' \in [FaultKinds -> Nat]
               /\ deadLetter' \in [Requests -> DeadLetterPcs]
               /\ UNCHANGED <<row, redis, request, reader, held>>
  BY <1>1 DEF TypeOK, TaskOK
<1>2. /\ task[t].skip \in BOOLEAN /\ task[t].retries \in 0 .. MaxRetries
      /\ task[t].settled \in BOOLEAN
  BY <1>0 DEF TaskOK, TaskType
<1>3. CASE StoreFault(t)
  <2>1. budget' \in [FaultKinds -> Nat]
    BY <1>0, <1>3, SpendOK DEF StoreFault, FaultKinds
  <2>2. TaskOK'
    <3>1. CASE Conclude(t, "failed")
      BY <1>0, <3>1, ConcludeOK DEF Outcomes
    <3>2. CASE task' = [task EXCEPT ![t].pc = "return", ![t].outcome = "failed"]
      <4> DEFINE new == [task[t] EXCEPT !.pc = "return", !.outcome = "failed"]
      <4>1. task[t] \in TaskType /\ task \in [Requests -> TaskType]
        BY <1>0 DEF TaskOK
      <4>2. "return" \in TaskPcs /\ "failed" \in Outcomes
        BY DEF TaskPcs, AttemptPcs, Outcomes
      <4>3. new \in TaskType /\ new.pc = "return"
        BY <4>1, <4>2 DEF TaskType
      <4>4. task' = [task EXCEPT ![t] = new]
        BY <3>2, <4>1
      <4> HIDE DEF new
      <4> QED
        BY <1>0, <4>3, <4>4 DEF TaskOK
    <3> QED
      BY <1>3, <3>1, <3>2 DEF StoreFault
  <2> QED
    BY <1>3, <2>1, <2>2 DEF StoreFault, TypeOK
<1>4. CASE Escape(t)
  <2>1. budget' \in [FaultKinds -> Nat]
    BY <1>0, <1>4, SpendOK DEF Escape, EscapeUpTo, FaultKinds
  <2>2. CASE task[t].retries < MaxRetries
    <3>1. task[t].retries + 1 \in 0 .. MaxRetries
      BY <1>2, <2>2, RunConstants DEF RunConstants
    <3>2. task' = [task EXCEPT ![t] = Message("queued", task[t].skip, task[t].retries + 1,
                                              task[t].settled)]
      BY <1>4, <2>2 DEF Escape, EscapeUpTo
    <3>3. TaskOK'
      BY <1>0, <1>2, <3>1, <3>2, MessageOK
    <3> QED
      BY <1>4, <2>1, <2>2, <3>3 DEF Escape, EscapeUpTo, TypeOK
  <2>3. CASE ~(task[t].retries < MaxRetries)
    <3>1. TaskOK'
      BY <1>0, <1>4, <2>3, EndOK DEF Escape, EscapeUpTo
    <3> QED
      BY <1>4, <2>1, <2>3, <3>1 DEF Escape, EscapeUpTo, TypeOK, DeadLetterPcs
  <2> QED
    BY <2>2, <2>3
<1>5. CASE ChildLost(t)
  <2>1. budget' \in [FaultKinds -> Nat]
    BY <1>0, <1>5, SpendOK DEF ChildLost, FaultKinds
  <2>2. TaskOK'
    BY <1>0, <1>5, EndOK DEF ChildLost
  <2> QED
    BY <1>5, <2>1, <2>2 DEF ChildLost, TypeOK
<1>6. CASE NodeLost(t)
  <2>1. budget' \in [FaultKinds -> Nat]
    BY <1>0, <1>6, SpendOK DEF NodeLost, FaultKinds
  <2>2. TaskOK'
    BY <1>0, <1>2, <1>6, MessageOK DEF NodeLost
  <2> QED
    BY <1>6, <2>1, <2>2 DEF NodeLost, TypeOK
<1> QED
  BY <1>3, <1>4, <1>5, <1>6

LEMMA DeadLetterTypeOK ==
    ASSUME TypeOK, NEW t \in Requests,
           DeadLetterDeliver(t) \/ DeadLetterStep(t) \/ DeadLetterFault(t)
    PROVE  TypeOK'
<1>b. breached' \in BOOLEAN
  BY BreachOK DEF Next
<1> USE <1>b
<1> USE DEF TypeOK, OnlyDeadLetter, DeadLetterGoto, DeadLetterPcs
<1>1. CASE DeadLetterDeliver(t)
  BY <1>1 DEF DeadLetterDeliver
<1>2. CASE DeadLetterDb(t)
  BY <1>2 DEF DeadLetterDb, RowType, Statuses
<1>3. CASE DeadLetterRedis(t)
  BY <1>3 DEF DeadLetterRedis, Settled
<1>4. CASE DeadLetterFault(t)
  <2>1. budget' \in [FaultKinds -> Nat]
    BY <1>4, SpendOK DEF DeadLetterFault, FaultKinds
  <2> QED
    BY <1>4, <2>1 DEF DeadLetterFault
<1> QED
  BY <1>1, <1>2, <1>3, <1>4 DEF DeadLetterStep

LEMMA ReaderTypeOK ==
    ASSUME TypeOK, NEW g \in Readers, ReaderStep(g)
    PROVE  TypeOK'
<1>b. breached' \in BOOLEAN
  BY BreachOK DEF Next
<1> USE <1>b
<1> USE DEF TypeOK, OnlyReader, ReaderType, ReaderPcs
<1>1. CASE ReadRow(g)
  BY <1>1 DEF ReadRow, RowType
<1>2. CASE ReadLive(g)
  BY <1>2 DEF ReadLive, Settled, Statuses
<1>3. CASE SyncRow(g)
  BY <1>3 DEF SyncRow, SyncRowTo, RowType
<1> QED
  BY <1>1, <1>2, <1>3 DEF ReaderStep

(* The variables of a run have their types in every reachable state: the   *)
(* retry count of a task never passes max_celery_retries, and no attempt   *)
(* writes an outcome before it has chosen one.                             *)
THEOREM TypeCorrect == Spec => []TypeOK
<1>1. Init => TypeOK
  <2> SUFFICES ASSUME Init PROVE TypeOK
    OBVIOUS
  <2>1. row \in RowType
    BY DEF Init, RowType
  <2>2. request \in [Requests -> RequestType]
    BY DEF Init, RequestType, HandlerPcs
  <2>3. Message("unsent", FALSE, 0, FALSE) \in TaskType
    BY RunConstants DEF RunConstants, Message, TaskType, TaskPcs
  <2>4. task \in [Requests -> TaskType] /\ \A t \in Requests : task[t].pc = "unsent"
    BY <2>3 DEF Init, Message
  <2>5. /\ deadLetter \in [Requests -> DeadLetterPcs]
        /\ reader \in [Readers -> ReaderType]
    BY DEF Init, DeadLetterPcs, ReaderType, ReaderPcs
  <2>6. /\ redis \in {NoStatus, "RUNNING"} \cup Settled
        /\ budget \in [FaultKinds -> Nat]
        /\ held \in BOOLEAN /\ breached \in BOOLEAN
    BY RunConstants DEF RunConstants, Init
  <2> QED
    BY <2>1, <2>2, <2>4, <2>5, <2>6 DEF TypeOK
<1>2. TypeOK /\ [Next]_vars => TypeOK'
  <2> SUFFICES ASSUME TypeOK, [Next]_vars PROVE TypeOK'
    OBVIOUS
  <2>1. CASE UNCHANGED vars
    BY <2>1 DEF vars, TypeOK
  <2>2. ASSUME NEW r \in Requests,
               \/ Submit(r) \/ Retry(r) \/ Approve(r)
               \/ HandlerStep(r) \/ HandlerCrash(r)
        PROVE TypeOK'
    BY <2>2, HandlerTypeOK
  <2>3. ASSUME NEW t \in Requests, Deliver(t) \/ AttemptStep(t) PROVE TypeOK'
    BY <2>3, AttemptTypeOK
  <2>4. ASSUME NEW t \in Requests,
               StoreFault(t) \/ Escape(t) \/ ChildLost(t) \/ NodeLost(t)
        PROVE TypeOK'
    BY <2>4, FaultTypeOK
  <2>5. ASSUME NEW t \in Requests,
               DeadLetterDeliver(t) \/ DeadLetterStep(t) \/ DeadLetterFault(t)
        PROVE TypeOK'
    BY <2>5, DeadLetterTypeOK
  <2>6. ASSUME NEW g \in Readers, ReaderStep(g) PROVE TypeOK'
    BY <2>6, ReaderTypeOK
  <2> QED
    BY <2>1, <2>2, <2>3, <2>4, <2>5, <2>6 DEF Next
<1> QED
  BY <1>1, <1>2, PTL DEF Spec

-----------------------------------------------------------------------------
(* The confidence gate and the dead-letter queue.                          *)

LEMMA HandlerGate ==
    ASSUME TypeOK, GateInv, NEW r \in Requests,
           Submit(r) \/ Retry(r) \/ Approve(r) \/ HandlerStep(r) \/ HandlerCrash(r)
    PROVE  GateInv'
<1> USE DEF TypeOK, RowType, RequestType, TaskType, GateInv, PublishedOnce,
        ReviewIsRecorded, SkipIsApproved, DeadLettersAreExhausted, OnlyHandler
<1>1. CASE Submit(r)
  BY <1>1 DEF Submit, Accept
<1>2. CASE Retry(r)
  BY <1>2 DEF Retry, AcceptRerun, Accept
<1>3. CASE Approve(r)
  BY <1>3 DEF Approve, AcceptRerun, Accept
<1>4. CASE Reset(r)
  BY <1>4 DEF Reset
<1>5. CASE Enqueue(r)
  BY <1>5 DEF Enqueue, EnqueueSkippingFor, Message
<1>6. CASE MarkQueued(r)
  BY <1>6 DEF MarkQueued
<1>7. CASE HandlerCrash(r)
  BY <1>7 DEF HandlerCrash, InFlight
<1> QED
  BY <1>1, <1>2, <1>3, <1>4, <1>5, <1>6, <1>7 DEF HandlerStep

LEMMA AttemptGate ==
    ASSUME TypeOK, GateInv, NEW t \in Requests, Deliver(t) \/ AttemptStep(t)
    PROVE  GateInv'
<1> USE DEF TypeOK, RowType, RequestType, TaskType, GateInv, PublishedOnce,
        ReviewIsRecorded, SkipIsApproved, DeadLettersAreExhausted, OnlyTask, Goto, Conclude
<1>1. CASE Deliver(t)
  BY <1>1 DEF Deliver
<1>2. CASE SetRedisRunning(t)
  BY <1>2 DEF SetRedisRunning
<1>3. CASE SetDbRunning(t)
  BY <1>3 DEF SetDbRunning
<1>4. CASE SafetyGate(t)
  BY <1>4 DEF SafetyGate
<1>5. CASE FlagUnsafe(t)
  BY <1>5 DEF FlagUnsafe
<1>6. CASE CacheGate(t)
  <2>1. CASE Goto(t, "classify")
    BY <1>6, <2>1 DEF CacheGate
  <2>2. CASE Goto(t, "markHit")
    BY <1>6, <2>2 DEF CacheGate
  <2> QED
    BY <1>6, <2>1, <2>2 DEF CacheGate
<1>7. CASE MarkCacheHit(t)
  BY <1>7 DEF MarkCacheHit
<1>8. CASE Classify(t)
  <2>1. PICK low \in BOOLEAN :
          IF low /\ ~task[t].skip
          THEN Conclude(t, "review")
          ELSE task' = [task EXCEPT ![t].pc = "steps", ![t].low = low]
    BY <1>8 DEF Classify
  <2>2. CASE Conclude(t, "review")
    BY <1>8, <2>2 DEF Classify
  <2>3. CASE /\ ~(low /\ ~task[t].skip)
             /\ task' = [task EXCEPT ![t].pc = "steps", ![t].low = low]
    BY <1>8, <2>3 DEF Classify
  <2> QED
    BY <2>1, <2>2, <2>3
<1>9. CASE ExecuteSteps(t)
  BY <1>9 DEF ExecuteSteps
<1>10. CASE WorkFails(t)
  BY <1>10 DEF WorkFails
<1>11. CASE WriteOutcomeDb(t)
  <2>1. task[t].outcome \in Outcomes
    BY <1>11 DEF WriteOutcomeDb, WriteOutcomeStoring
  <2>2. /\ row'.status = StatusOf[task[t].outcome]
        /\ held' = (held \/ task[t].outcome = "review")
        /\ task' = [task EXCEPT ![t].pc = "redisOutcome", ![t].settled = TRUE]
        /\ UNCHANGED <<redis, request, deadLetter, reader>>
    BY <1>11 DEF WriteOutcomeDb, WriteOutcomeStoring
  <2>3. /\ row'.status = "NEEDS_REVIEW" => held'
        /\ row'.status # "DEAD_LETTER"
    BY <2>1, <2>2 DEF StatusOf, Outcomes
  <2>4. PublishedOnce' /\ SkipIsApproved'
    BY <1>11, <2>2 DEF WriteOutcomeDb, WriteOutcomeStoring
  <2>5. ReviewIsRecorded'
    <3>1. (held => held') /\ (task[t].outcome = "review" => held')
      BY <2>2
    <3>2. task'[t].outcome = task[t].outcome
      BY <2>2
    <3>3. \A s \in Requests : s # t => task'[s] = task[s]
      BY <2>2
    <3>4. \A s \in Requests :
            task'[s].pc = "redisOutcome" /\ task'[s].outcome = "review" => held'
      BY <3>1, <3>2, <3>3
    <3> QED
      BY <2>2, <2>3, <3>1, <3>4
  <2>6. DeadLettersAreExhausted'
    BY <1>11, <2>2, <2>3 DEF WriteOutcomeDb, WriteOutcomeStoring
  <2> QED
    BY <2>4, <2>5, <2>6
<1>12. CASE WriteOutcomeRedis(t)
  BY <1>12 DEF WriteOutcomeRedis, StatusOf, Outcomes
<1>13. CASE WriteQuality(t)
  BY <1>13 DEF WriteQuality
<1>14. CASE Acknowledge(t)
  BY <1>14 DEF Acknowledge, End
<1> QED
  BY <1>1, <1>2, <1>3, <1>4, <1>5, <1>6, <1>7, <1>8, <1>9, <1>10, <1>11, <1>12, <1>13,
     <1>14 DEF AttemptStep

LEMMA FaultGate ==
    ASSUME TypeOK, GateInv, NEW t \in Requests,
           \/ StoreFault(t) \/ Escape(t) \/ ChildLost(t) \/ NodeLost(t)
           \/ DeadLetterDeliver(t) \/ DeadLetterStep(t) \/ DeadLetterFault(t)
    PROVE  GateInv'
<1> USE DEF TypeOK, RowType, RequestType, TaskType, GateInv, PublishedOnce,
        ReviewIsRecorded, SkipIsApproved, DeadLettersAreExhausted, OnlyTask, Goto,
        OnlyDeadLetter, DeadLetterGoto
<1>1. CASE StoreFault(t)
  <2>1. CASE Conclude(t, "failed")
    BY <1>1, <2>1 DEF StoreFault, Conclude, DbPcs, RedisPcs
  <2>2. CASE task' = [task EXCEPT ![t].pc = "return", ![t].outcome = "failed"]
    BY <1>1, <2>2 DEF StoreFault, DbPcs, RedisPcs
  <2> QED
    BY <1>1, <2>1, <2>2 DEF StoreFault
<1>2. CASE Escape(t)
  <2>1. CASE task[t].retries < MaxRetries
    <3> DEFINE again == Message("queued", task[t].skip, task[t].retries + 1, task[t].settled)
    <3>1. again.pc = "queued" /\ again.skip = task[t].skip /\ again.low = FALSE
      BY DEF Message
    <3>2. /\ task' = [task EXCEPT ![t] = again]
          /\ UNCHANGED <<row, redis, request, deadLetter, reader, held>>
      BY <1>2, <2>1 DEF Escape, EscapeUpTo
    <3>3. task[t].pc = "return"
      BY <1>2 DEF Escape, EscapeUpTo
    <3> HIDE DEF again
    <3> QED
      BY <3>1, <3>2, <3>3
  <2>2. CASE ~(task[t].retries < MaxRetries)
    <3>0. task[t].retries \in 0 .. MaxRetries
      OBVIOUS
    <3>1. task[t].retries = MaxRetries
      <4> HIDE DEF TypeOK, TaskType, GateInv
      <4> QED
        BY <2>2, <3>0, RunConstants DEF RunConstants
    <3>2. /\ task' = [task EXCEPT ![t].pc = "done", ![t].outcome = "none"]
          /\ deadLetter' = [deadLetter EXCEPT ![t] = "queued"]
          /\ UNCHANGED <<row, redis, request, reader, held>>
      BY <1>2, <2>2 DEF Escape, EscapeUpTo, End
    <3>3. task[t].pc = "return"
      BY <1>2 DEF Escape, EscapeUpTo
    <3> QED
      BY <3>1, <3>2, <3>3
  <2> QED
    BY <2>1, <2>2
<1>3. CASE ChildLost(t)
  BY <1>3 DEF ChildLost, End, AttemptPcs, DbPcs, RedisPcs
<1>4. CASE NodeLost(t)
  BY <1>4 DEF NodeLost, AttemptPcs, DbPcs, RedisPcs, Message
<1>5. CASE DeadLetterDeliver(t)
  BY <1>5 DEF DeadLetterDeliver
<1>6. CASE DeadLetterDb(t)
  BY <1>6 DEF DeadLetterDb
<1>7. CASE DeadLetterRedis(t)
  BY <1>7 DEF DeadLetterRedis
<1>8. CASE DeadLetterFault(t)
  BY <1>8 DEF DeadLetterFault
<1> QED
  BY <1>1, <1>2, <1>3, <1>4, <1>5, <1>6, <1>7, <1>8 DEF DeadLetterStep

LEMMA ReaderGate ==
    ASSUME TypeOK, GateInv, NEW g \in Readers, ReaderStep(g)
    PROVE  GateInv'
<1> USE DEF TypeOK, RowType, ReaderType, GateInv, PublishedOnce,
        ReviewIsRecorded, SkipIsApproved, DeadLettersAreExhausted, OnlyReader
<1>1. CASE ReadRow(g)
  BY <1>1 DEF ReadRow, NoStatus
<1>2. CASE ReadLive(g)
  BY <1>2 DEF ReadLive, NoStatus
<1>3. CASE SyncRow(g)
  BY <1>3 DEF SyncRow, SyncRowTo, NoStatus
<1> QED
  BY <1>1, <1>2, <1>3 DEF ReaderStep

(* The strengthened invariant holds in every reachable state.              *)
THEOREM GateInvariant == Spec => [](TypeOK /\ GateInv)
<1>1. Init => GateInv
  BY DEF Init, GateInv, PublishedOnce, ReviewIsRecorded, SkipIsApproved,
     DeadLettersAreExhausted, Message, NoStatus
<1>2. TypeOK /\ GateInv /\ [Next]_vars => GateInv'
  <2> SUFFICES ASSUME TypeOK, GateInv, [Next]_vars PROVE GateInv'
    OBVIOUS
  <2>1. CASE UNCHANGED vars
    BY <2>1 DEF vars, GateInv, PublishedOnce, ReviewIsRecorded, SkipIsApproved,
       DeadLettersAreExhausted
  <2>2. ASSUME NEW r \in Requests,
               \/ Submit(r) \/ Retry(r) \/ Approve(r)
               \/ HandlerStep(r) \/ HandlerCrash(r)
        PROVE GateInv'
    BY <2>2, HandlerGate
  <2>3. ASSUME NEW t \in Requests, Deliver(t) \/ AttemptStep(t) PROVE GateInv'
    BY <2>3, AttemptGate
  <2>4. ASSUME NEW t \in Requests,
               \/ StoreFault(t) \/ Escape(t) \/ ChildLost(t) \/ NodeLost(t)
               \/ DeadLetterDeliver(t) \/ DeadLetterStep(t) \/ DeadLetterFault(t)
        PROVE GateInv'
    BY <2>4, FaultGate
  <2>5. ASSUME NEW g \in Readers, ReaderStep(g) PROVE GateInv'
    BY <2>5, ReaderGate
  <2> QED
    BY <2>1, <2>2, <2>3, <2>4, <2>5 DEF Next
<1> QED
  BY <1>1, <1>2, TypeCorrect, PTL DEF Spec

(* No task executes steps on a classification of low confidence unless an  *)
(* approval published it, after an attempt had put the run in review; this *)
(* holds through retries, redeliveries, crashes and stale reads.           *)
THEOREM GateIsRespected == Spec => []LowConfidenceNeedsApproval
<1>1. TypeOK /\ GateInv => LowConfidenceNeedsApproval
  BY DEF GateInv, ReviewIsRecorded, SkipIsApproved, LowConfidenceNeedsApproval
<1> QED
  BY <1>1, GateInvariant, PTL

(* A run is DEAD_LETTER, in either store, only if one of its tasks has     *)
(* raised on its first attempt and on every retry.                         *)
THEOREM DeadLetterIsLast == Spec => []DeadLetterAfterAllRetries
<1>1. TypeOK /\ GateInv => DeadLetterAfterAllRetries
  BY DEF GateInv, DeadLettersAreExhausted, DeadLetterAfterAllRetries
<1> QED
  BY <1>1, GateInvariant, PTL

=============================================================================
