------------------------ MODULE Orchestrator_proofs ------------------------
(***************************************************************************)
(* Proofs about Orchestrator, for any plans, any limits of retries and     *)
(* replanning, and any number of attempts, store failures and crashes.     *)
(***************************************************************************)
EXTENDS Orchestrator, SequenceTheorems, FiniteSetTheorems, TLAPS

(* Where an attempt is: making its plan, in the loop, with a step that     *)
(* was taken off the queue, or writing its outcome.                        *)
Planning == {"plan", "savePlan", "create"}
OnStep == {"start", "tool", "record", "agent", "complete", "append",
           "fallback", "skip", "skipAgain"}
Looping == OnStep \cup {"next", "replan", "inject"}
Ending == {"dbOutcome", "redisOutcome", "quality", "return"}

(* The step may be COMPLETED already, and is not in the context.           *)
Owing == {"append", "fallback", "skip", "skipAgain"}

Entries(s) == {s[k] : k \in DOMAIN s}
Queued == Entries(frame.todo)
Injected == Entries(frame.new)
Listed == Entries(context)
Planned == {i \in Mine : ~steps[i].dynamic}

(* Injected steps that were or will be executed.                           *)
Taken == {i \in Mine :
            /\ steps[i].dynamic
            /\ \/ steps[i].status # "PENDING" \/ i \in Queued
               \/ frame.pc = "start" /\ i = frame.cur}

-----------------------------------------------------------------------------
(* The inductive invariant, part by part.                                  *)

(* What the locals of run_workflow say of each other.                      *)
FrameInv ==
    /\ frame.pc = "idle" => frame = Idle
    /\ frame.pc # "idle" => attempt > 0
    /\ frame.pc \in Ending <=> frame.outcome # "none"
    /\ ~frame.usable => faults < MaxStoreFaults
    /\ frame.pc \in {"plan", "savePlan"} => frame.todo = <<>>
    /\ frame.pc \in Planning => frame.replans = 0
    /\ frame.pc \in {"savePlan", "create"} =>
         frame.plan # <<>> /\ frame.nextOrder = Len(frame.plan) + Len(frame.todo) + 1
    /\ frame.pc \in {"replan", "inject"} => frame.replans < MaxReplanDepth
    /\ IF frame.pc = "inject"
       THEN frame.more > 0 /\ Len(frame.new) + frame.more <= MaxInject
       ELSE frame.new = <<>>

(* The row of the run, and the outcome that is being written to it.        *)
Faulty == faults < MaxStoreFaults \/ crashes < MaxCrashes

StoreInv ==
    /\ frame.pc \in Planning \cup Looping => status = "RUNNING"
    /\ frame.pc = "dbOutcome" =>
         status = "RUNNING" \/ (Faulty /\ frame.outcome = "FAILED")
    /\ frame.pc = "redisOutcome" => status = frame.outcome
    /\ frame.pc = "quality" => status = "COMPLETED" /\ live = "COMPLETED"
    /\ frame.pc = "return" => Faulty \/ (status # "RUNNING" /\ live = status)

(* The row of a step, while the step is executed and at other times.       *)
Logged(i) == steps[i].tool => steps[i].calls = 1

RowsInv ==
    /\ \A i \in DOMAIN steps :
         /\ steps[i].attempt <= attempt
         /\ steps[i].calls <= 1
         /\ steps[i].status = "PENDING" => steps[i].calls = 0
         /\ steps[i].status \in Closed => Logged(i)
    /\ frame.pc \in OnStep => frame.cur \in Mine
    /\ frame.pc = "start" => steps[frame.cur].status = "PENDING"
    /\ frame.pc \in {"tool", "record"} =>
         steps[frame.cur].status = "RUNNING" /\ steps[frame.cur].calls = 0
    /\ frame.pc \in {"agent", "complete"} =>
         steps[frame.cur].status = "RUNNING" /\ Logged(frame.cur)
    /\ frame.pc = "append" => steps[frame.cur].status = "COMPLETED"
    /\ frame.pc \in {"fallback", "skip", "skipAgain"} =>
         steps[frame.cur].status \in {"RUNNING", "COMPLETED"} /\ Logged(frame.cur)

(* The steps that are waiting to be executed.                              *)
QueueOrder ==
    /\ \A s \in Queued : s \in Mine /\ steps[s].status = "PENDING"
    /\ \A i, j \in DOMAIN frame.todo : j < i =>
         /\ frame.todo[j] # frame.todo[i]
         /\ steps[frame.todo[i]].dynamic => steps[frame.todo[j]].dynamic

QueueInv ==
    /\ QueueOrder
    /\ frame.pc \in OnStep => frame.cur \notin Queued
    /\ \A k \in DOMAIN frame.new :
         /\ frame.new[k] \in Mine /\ frame.new[k] \notin Queued
         /\ steps[frame.new[k]].status = "PENDING" /\ steps[frame.new[k]].dynamic
         /\ \A j \in DOMAIN frame.new : frame.new[j] = frame.new[k] => j = k
    /\ frame.pc \in {"plan", "savePlan"} => Mine = {}
    /\ frame.pc = "create" => Mine = Planned

(* The context lists the completed steps, except the one in hand.          *)
ContextInv ==
    /\ Listed \subseteq DOMAIN steps
    /\ \A k, l \in DOMAIN context : context[k] = context[l] => k = l
    /\ frame.pc \in Planning \cup Looping =>
         \A i \in Mine :
             i \in Listed <=>
                 /\ steps[i].status = "COMPLETED"
                 /\ ~(frame.pc \in Owing /\ i = frame.cur)

(* No step is forgotten, except one of an injection that failed.           *)
Settled(i) ==
    steps[i].status \in Closed \/ (steps[i].dynamic /\ faults < MaxStoreFaults)

OpenInv ==
    /\ frame.pc \in Planning \cup Looping =>
         \A i \in Mine : \/ Settled(i) \/ i \in Queued \cup Injected
                         \/ frame.pc \in OnStep /\ i = frame.cur
    /\ "COMPLETED" \in {frame.outcome, status} => \A i \in Mine : Settled(i)

(* Injected steps are numbered from after the plan onwards.                *)
OrderInv ==
    /\ \A i \in Mine : steps[i].dynamic => steps[i].order > Cardinality(Planned)
    /\ \A i, j \in Taken : steps[i].order = steps[j].order => i = j
    /\ frame.pc \in Looping =>
         /\ Cardinality(Planned) < frame.nextOrder
         /\ \A i \in Taken : steps[i].order < frame.nextOrder
    /\ frame.pc \in Planning => Cardinality(Planned) = Len(frame.todo)
    /\ \A k \in DOMAIN frame.new :
         steps[frame.new[k]].order = frame.nextOrder + k - 1

(* They are as many as the replanning decisions asked for.                 *)
CountInv ==
    /\ Cardinality(Taken) <= MaxReplanDepth * MaxInject
    /\ frame.pc \in Planning \cup Looping =>
         Cardinality(Taken) <= frame.replans * MaxInject

-----------------------------------------------------------------------------
(* Sequences.                                                              *)

LEMMA UpdatedSeq ==
    ASSUME NEW S, NEW s \in Seq(S), NEW i, NEW e, i \in DOMAIN s => e \in S
    PROVE  LET t == [s EXCEPT ![i] = e] IN
             /\ t \in Seq(S) /\ DOMAIN t = DOMAIN s
             /\ i \in DOMAIN s => t[i] = e
             /\ \A j \in DOMAIN s : j # i => t[j] = s[j]
<1>1. CASE i \in DOMAIN s
  <2>1. i \in 1 .. Len(s) /\ DOMAIN s = 1 .. Len(s)
    BY <1>1, LenProperties
  <2> QED
    BY <1>1, <2>1, ExceptSeq
<1>2. CASE i \notin DOMAIN s
  <2>1. [s EXCEPT ![i] = e] = s
    BY <1>2, LenProperties
  <2> QED
    BY <1>2, <2>1
<1> QED
  BY <1>1, <1>2

LEMMA AppendedSeq ==
    ASSUME NEW S, NEW s \in Seq(S), NEW e \in S
    PROVE  LET t == Append(s, e)
               n == Len(s) + 1
           IN  /\ t \in Seq(S) /\ Len(t) = n /\ n \in Nat \ {0}
               /\ n \notin DOMAIN s /\ DOMAIN t = DOMAIN s \cup {n}
               /\ t[n] = e /\ \A j \in DOMAIN s : t[j] = s[j]
<1>1. /\ Len(s) \in Nat /\ DOMAIN s = 1 .. Len(s)
      /\ Append(s, e) \in Seq(S) /\ Len(Append(s, e)) = Len(s) + 1
  BY LenProperties, AppendProperties
<1>2. DOMAIN Append(s, e) = 1 .. Len(s) + 1
  BY <1>1, LenProperties
<1>3. /\ Append(s, e)[Len(s) + 1] = e
      /\ \A j \in 1 .. Len(s) : Append(s, e)[j] = s[j]
  BY AppendProperties
<1>4. 1 .. Len(s) + 1 = (1 .. Len(s)) \cup {Len(s) + 1} /\ Len(s) + 1 \notin 1 .. Len(s)
  BY <1>1
<1> QED
  BY <1>1, <1>2, <1>3, <1>4

LEMMA PoppedSeq ==
    ASSUME NEW S, NEW s \in Seq(S), s # <<>>
    PROVE  LET t == Tail(s) IN
             /\ Head(s) \in S /\ t \in Seq(S) /\ Head(s) = s[1] /\ 1 \in DOMAIN s
             /\ Len(s) \in Nat \ {0} /\ Len(t) = Len(s) - 1
             /\ DOMAIN t = 1 .. Len(s) - 1
             /\ \A j \in DOMAIN t : j + 1 \in DOMAIN s /\ t[j] = s[j + 1]
<1>1. Len(s) \in Nat \ {0} /\ DOMAIN s = 1 .. Len(s)
  BY EmptySeq, LenProperties
<1>2. /\ Head(s) \in S /\ Tail(s) \in Seq(S) /\ Len(Tail(s)) = Len(s) - 1
      /\ \A j \in 1 .. Len(Tail(s)) : Tail(s)[j] = s[j + 1]
  BY HeadTailProperties
<1>3. DOMAIN Tail(s) = 1 .. Len(s) - 1
  BY <1>2, LenProperties
<1>4. \A j \in 1 .. Len(s) - 1 : j + 1 \in 1 .. Len(s)
  BY <1>1
<1> QED
  BY <1>1, <1>2, <1>3, <1>4

LEMMA JoinedSeq ==
    ASSUME NEW S, NEW s \in Seq(S), NEW t \in Seq(S)
    PROVE  LET q == s \o t
               m == Len(s)
               n == Len(t)
           IN
             /\ q \in Seq(S) /\ DOMAIN q = 1 .. m + n /\ m \in Nat /\ n \in Nat
             /\ \A k \in 1 .. m : k \in DOMAIN q /\ q[k] = s[k]
             /\ \A k \in 1 .. n : m + k \in DOMAIN q /\ q[m + k] = t[k]
             /\ \A k \in DOMAIN q : k \in 1 .. m \/ (k - m \in 1 .. n /\ m + (k - m) = k)
             /\ Entries(q) = Entries(s) \cup Entries(t)
<1> DEFINE q == s \o t
           m == Len(s)
           n == Len(t)
<1>1. m \in Nat /\ n \in Nat /\ DOMAIN s = 1 .. m /\ DOMAIN t = 1 .. n
  BY LenProperties
<1>2. /\ q \in Seq(S) /\ Len(q) = m + n
      /\ \A k \in 1 .. m + n : q[k] = IF k <= m THEN s[k] ELSE t[k - m]
  BY ConcatProperties
<1>3. DOMAIN q = 1 .. m + n
  BY <1>2, LenProperties
<1> HIDE DEF q, m, n
<1>4. \A k \in 1 .. m : k \in DOMAIN q /\ q[k] = s[k]
  BY <1>1, <1>2, <1>3
<1>5. \A k \in 1 .. n : m + k \in DOMAIN q /\ q[m + k] = t[k]
  <2> TAKE k \in 1 .. n
  <2>1. m + k \in 1 .. m + n /\ ~(m + k <= m) /\ (m + k) - m = k
    BY <1>1
  <2> QED
    BY <1>2, <1>3, <2>1
<1>6. \A k \in DOMAIN q : k \in 1 .. m \/ (k - m \in 1 .. n /\ m + (k - m) = k)
  BY <1>1, <1>3
<1>7. Entries(q) = Entries(s) \cup Entries(t)
  <2>1. \A k \in DOMAIN q : q[k] \in Entries(s) \cup Entries(t)
    <3> TAKE k \in DOMAIN q
    <3>1. CASE k \in 1 .. m
      BY <1>1, <1>4, <3>1 DEF Entries
    <3>2. CASE k - m \in 1 .. n /\ m + (k - m) = k
      BY <1>1, <1>5, <3>2 DEF Entries
    <3> QED
      BY <1>6, <3>1, <3>2
  <2>2. \A k \in DOMAIN s : s[k] \in Entries(q)
    BY <1>1, <1>4 DEF Entries
  <2>3. \A k \in DOMAIN t : t[k] \in Entries(q)
    BY <1>1, <1>5 DEF Entries
  <2> QED
    BY <2>1, <2>2, <2>3 DEF Entries
<1> QED
  BY <1>1, <1>2, <1>3, <1>4, <1>5, <1>6, <1>7 DEF q, m, n

-----------------------------------------------------------------------------
(* Where an exception ends up, whatever the table of handlers looks like:  *)
(* the frame it leaves keeps the plan, the queue and the step in hand.     *)
Handled(f, g) ==
    /\ g.plan = f.plan /\ g.todo = f.todo /\ g.cur = f.cur
    /\ g.replans = f.replans /\ g.nextOrder = f.nextOrder
    /\ f.pc \in ToolPcs => g.pc \in {"tool", "dbOutcome"}
    /\ f.pc \in {"agent", "complete", "append"} => g.pc = "fallback"
    /\ f.pc \in {"fallback", "skip"} => g.pc = "skipAgain"
    /\ f.pc \in {"replan", "inject"} => g.pc = "next"
    /\ f.pc \notin OnStep \cup {"replan", "inject"} \/ f.pc \in {"start", "skipAgain"} =>
         g.pc \in {"dbOutcome", "return"}
    /\ g.pc = "return" => f.pc \in {"dbOutcome", "redisOutcome"} /\ f.outcome = "FAILED"
    /\ g.outcome = IF g.pc = "dbOutcome" THEN "FAILED" ELSE f.outcome
    /\ g.new = IF f.pc \in {"replan", "inject"} THEN <<>> ELSE f.new

LEMMA FailingFacts ==
    ASSUME NEW f \in FrameType
    PROVE  /\ Failing(f) \in FrameType /\ Failing(f).usable = f.usable
           /\ f.pc \notin {"agent", "complete", "append", "fallback", "skip", "replan",
                           "inject"}
                => Handled(f, Failing(f))
<1>1. Failing(f) \in FrameType /\ Failing(f).usable = f.usable
  BY DEF Failing, FrameType, Pcs, DbPcs
<1>2. ASSUME f.pc \notin {"agent", "complete", "append", "fallback", "skip", "replan", "inject"}
      PROVE  Handled(f, Failing(f))
  BY <1>2 DEF Failing, FrameType, Handled
<1> QED
  BY <1>1, <1>2

LEMMA RaisedFacts ==
    ASSUME NEW f \in FrameType, f.pc \in AgentPcs \cup ToolPcs \cup DbPcs \cup RedisPcs
    PROVE  /\ Raised(f) \in FrameType /\ Raised(f).usable = f.usable
           /\ Handled(f, Raised(f))
<1> USE DEF Raised, RaisedWith, ToolPcs, OnStep
<1>0. MaxToolTries \in Nat \ {0} /\ f.tries \in 0 .. MaxToolTries - 1 /\ 0 \in 0 .. MaxInject
  BY OrchestratorConstants DEF OrchestratorConstants, FrameType
<1>1. CASE f.pc \in ToolPcs
  <2>1. CASE f.tries < MaxToolTries - 1
    <3>1. Raised(f) = NextTry(f)
      BY <1>1, <2>1
    <3>2. f.tries + 1 \in 0 .. MaxToolTries - 1
      BY <1>0, <2>1
    <3>3. NextTry(f) \in FrameType /\ NextTry(f).usable = f.usable
      BY <3>2 DEF NextTry, FrameType, Pcs
    <3>4. Handled(f, NextTry(f))
      BY <1>1 DEF NextTry, FrameType, Handled
    <3> QED
      BY <3>1, <3>3, <3>4
  <2>2. CASE ~(f.tries < MaxToolTries - 1)
    <3>1. Raised(f) = Failing(f)
      BY <1>1, <2>2
    <3> QED
      BY <1>1, <3>1, FailingFacts
  <2> QED
    BY <2>1, <2>2
<1>2. CASE f.pc \in {"agent", "complete", "append"}
  <2>1. Raised(f) = [f EXCEPT !.pc = "fallback", !.wants = FALSE]
    BY <1>2
  <2> QED
    BY <1>2, <2>1 DEF FrameType, Handled, Pcs, AgentPcs
<1>3. CASE f.pc \in {"fallback", "skip"}
  <2>1. Raised(f) = [f EXCEPT !.pc = "skipAgain"]
    BY <1>3
  <2> QED
    BY <1>3, <2>1 DEF FrameType, Handled, Pcs, DbPcs
<1>4. CASE f.pc \in {"replan", "inject"}
  <2>1. Raised(f) = [f EXCEPT !.pc = "next", !.new = <<>>, !.more = 0]
    BY <1>4
  <2>2. <<>> \in Seq(Nat)
    BY EmptySeq
  <2> QED
    BY <1>0, <1>4, <2>1, <2>2 DEF FrameType, Handled, Pcs, RedisPcs
<1>5. CASE f.pc \in {"dbOutcome", "redisOutcome"} /\ f.outcome = "FAILED"
  <2>1. Raised(f) = [f EXCEPT !.pc = "return"]
    BY <1>5
  <2> QED
    BY <1>5, <2>1 DEF FrameType, Handled, Pcs
<1>6. CASE /\ f.pc \notin ToolPcs \cup {"agent", "complete", "append", "fallback", "skip",
                                        "replan", "inject"}
           /\ ~(f.pc \in {"dbOutcome", "redisOutcome"} /\ f.outcome = "FAILED")
  <2>1. Raised(f) = Failing(f)
    BY <1>6
  <2> QED
    BY <1>6, <2>1, FailingFacts
<1> QED
  BY <1>1, <1>2, <1>3, <1>4, <1>5, <1>6

(* What every exception has in common.                                     *)
Unwinds ==
    /\ UNCHANGED <<stores, attempt, crashes>>
    /\ frame' \in FrameType /\ Handled(frame, frame')
    /\ frame.pc \in AgentPcs \cup ToolPcs \cup DbPcs \cup RedisPcs
    /\ faults' \in 0 .. MaxStoreFaults /\ faults' <= faults
    /\ frame'.usable \/ faults' < MaxStoreFaults
    /\ frame.pc \in {"inject"} \cup Ending => faults' < MaxStoreFaults

LEMMA UnwindFacts ==
    ASSUME TypeOK, FrameInv, WorkRaises \/ ToolKeyError \/ SessionFault \/ StoreFault
    PROVE  Unwinds
<1>1. /\ frame \in FrameType /\ faults \in 0 .. MaxStoreFaults /\ MaxStoreFaults \in Nat
      /\ ~frame.usable => faults < MaxStoreFaults
  BY OrchestratorConstants DEF OrchestratorConstants, TypeOK, FrameInv
<1>2. CASE WorkRaises \/ ToolKeyError
  <2>1. /\ UNCHANGED <<stores, attempt, faults, crashes>>
        /\ frame.pc \in AgentPcs \cup {"tool"}
    BY <1>2 DEF WorkRaises, ToolKeyError, OnlyFrame, At, ToolPcs
  <2>2. /\ frame' \in FrameType /\ frame'.usable = frame.usable /\ Handled(frame, frame')
    BY <1>1, <1>2, <2>1, RaisedFacts, FailingFacts DEF WorkRaises, ToolKeyError, At, ToolPcs
  <2>3. frame.pc \notin {"inject"} \cup Ending /\ faults <= faults
    BY <1>1, <2>1 DEF AgentPcs, Ending
  <2>4. frame'.usable \/ faults < MaxStoreFaults
    BY <1>1, <2>2 DEF FrameType
  <2> QED
    BY <1>1, <2>1, <2>2, <2>3, <2>4 DEF Unwinds, ToolPcs
<1>3. CASE SessionFault
  <2>1. /\ UNCHANGED <<stores, attempt, faults, crashes>>
        /\ frame.pc \in DbPcs /\ ~frame.usable
    BY <1>3 DEF SessionFault, OnlyFrame
  <2>2. /\ frame' \in FrameType /\ frame'.usable = frame.usable /\ Handled(frame, frame')
    BY <1>1, <1>3, <2>1, RaisedFacts DEF SessionFault
  <2> QED
    BY <1>1, <2>1, <2>2 DEF Unwinds
<1>4. CASE StoreFault
  <2>1. /\ UNCHANGED <<stores, attempt, crashes>>
        /\ faults' \in 0 .. MaxStoreFaults /\ faults' < faults /\ faults' < MaxStoreFaults
    BY <1>1, <1>4 DEF StoreFault
  <2>2. CASE frame.pc \in DbPcs \cup RedisPcs /\ frame' = Raised(frame)
    BY <1>1, <2>1, <2>2, RaisedFacts DEF Unwinds
  <2>3. CASE frame.pc \in DbPcs /\ frame' = Raised([frame EXCEPT !.usable = FALSE])
    <3> DEFINE f == [frame EXCEPT !.usable = FALSE]
    <3>1. f \in FrameType /\ f.pc = frame.pc
      BY <1>1 DEF FrameType
    <3>2. frame' \in FrameType /\ Handled(f, frame')
      BY <2>3, <3>1, RaisedFacts
    <3>3. Handled(frame, frame')
      BY <1>1, <3>2 DEF Handled, FrameType
    <3> HIDE DEF f
    <3>4. frame.pc \in DbPcs
      BY <2>3
    <3> QED
      BY <1>1, <2>1, <3>2, <3>3, <3>4 DEF Unwinds
  <2> QED
    BY <1>4, <2>2, <2>3 DEF StoreFault
<1> QED
  BY <1>2, <1>3, <1>4

-----------------------------------------------------------------------------
(* Types and locals.                                                       *)

LEMMA NoSteps == /\ <<>> \in Seq(Nat) /\ <<>> \in Seq(StepType) /\ Len(<<>>) = 0
                 /\ DOMAIN <<>> = {}
BY EmptySeq, LenProperties

LEMMA ConstantFacts ==
    /\ {MaxInject, MaxReplanDepth, MaxAttempts, MaxStoreFaults, MaxCrashes} \subseteq Nat
    /\ MaxToolTries \in Nat \ {0}
    /\ \A p \in Plans : p \in Seq(Nat) /\ p # <<>>
<1>1. \A p \in Plans : p \in Seq(Nat \ {0}) /\ p # <<>>
  BY OrchestratorConstants DEF OrchestratorConstants, ExecutionPlan
<1>2. \A p \in Plans : p \in Seq(Nat)
  <2> TAKE p \in Plans
  <2>1. p \in Seq(Nat \ {0}) /\ Nat \ {0} \subseteq Nat
    BY <1>1
  <2> QED
    BY <2>1, SeqMonotonic
<1> QED
  BY <1>1, <1>2, OrchestratorConstants DEF OrchestratorConstants

LEMMA IdleFacts == Idle \in FrameType /\ Idle.pc = "idle" /\ Idle.outcome = "none"
                   /\ Idle.todo = <<>> /\ Idle.new = <<>> /\ Idle.usable
BY NoSteps, ConstantFacts DEF Idle, FrameType, Pcs

LEMMA PcFacts == Planning \cup Looping \cup Ending \subseteq Pcs
BY DEF Planning, Looping, OnStep, Ending, Pcs, AgentPcs, ToolPcs, DbPcs, RedisPcs

LEMMA TypeInit == Init => TypeOK /\ FrameInv
<1> SUFFICES ASSUME Init PROVE TypeOK /\ FrameInv
  OBVIOUS
<1>1. TypeOK
  BY NoSteps, ConstantFacts, IdleFacts DEF Init, TypeOK
<1>2. FrameInv
  BY IdleFacts DEF Init, FrameInv, Planning, Ending
<1> QED
  BY <1>1, <1>2

(* The frame is as before, except for the place and the outcome.           *)
Resumes(f, g) ==
    /\ g \in FrameType
    /\ g.plan = f.plan /\ g.todo = f.todo /\ g.new = f.new /\ g.more = f.more /\ g.cur = f.cur
    /\ g.tries = f.tries /\ g.replans = f.replans /\ g.nextOrder = f.nextOrder
    /\ g.usable = f.usable

LEMMA GotoFacts ==
    ASSUME frame \in FrameType, NEW pc \in Pcs, Goto(pc)
    PROVE  Resumes(frame, frame') /\ frame'.pc = pc /\ frame'.outcome = frame.outcome
BY DEF Goto, FrameType, Resumes

(* The steps that change nothing but the frame, and not the queue in it.   *)
Control == \/ Plan \/ SavePlan \/ LoopEnds \/ CallTool \/ Synthesize \/ Fallback
           \/ Replan \/ WriteQuality

LEMMA TypeControl ==
    ASSUME TypeOK, FrameInv, Control
    PROVE  TypeOK' /\ FrameInv'
<1>1. /\ UNCHANGED <<stores, attempt, faults, crashes>>
      /\ frame \in FrameType
  BY DEF Control, Plan, SavePlan, LoopEnds, CallTool, Synthesize, Fallback, Replan,
     WriteQuality, OnlyFrame, TypeOK
<1>2. ASSUME frame' \in FrameType PROVE TypeOK'
  BY <1>1, <1>2 DEF TypeOK, stores
<1> USE DEF Planning, Ending, FrameInv
<1>3. CASE Plan
  <2>1. PICK p \in Plans :
          frame' = [frame EXCEPT !.pc = "savePlan", !.plan = p, !.nextOrder = Len(p) + 1]
    BY <1>3 DEF Plan
  <2>2. p \in Seq(Nat) /\ p # <<>> /\ Len(p) \in Nat
    BY ConstantFacts, LenProperties
  <2>3. frame' \in FrameType
    <3>1. "savePlan" \in Pcs /\ Len(p) + 1 \in Nat
      BY <2>2, PcFacts
    <3> QED
      BY <1>1, <2>1, <2>2, <3>1 DEF FrameType
  <2>4. frame.pc = "plan" /\ Len(frame.todo) = 0
    BY <1>3, NoSteps DEF Plan, At
  <2>5. /\ frame'.pc = "savePlan" /\ frame'.plan = p /\ frame'.nextOrder = Len(p) + 1
        /\ frame'.outcome = frame.outcome /\ frame'.todo = frame.todo /\ frame'.new = frame.new
        /\ frame'.replans = frame.replans /\ frame'.usable = frame.usable
    BY <1>1, <2>1 DEF FrameType
  <2>6. Len(p) + 1 = Len(p) + Len(frame.todo) + 1
    BY <2>2, <2>4
  <2>7. FrameInv'
    BY <1>1, <2>2, <2>4, <2>5, <2>6
  <2> QED
    BY <1>2, <2>3, <2>7
<1>4. CASE Replan
  <2>1. PICK n \in RePlanningDecision :
          frame' = [frame EXCEPT !.pc = IF n = 0 THEN "next" ELSE "inject", !.more = n]
    BY <1>4 DEF Replan
  <2>2. n \in 0 .. MaxInject
    BY DEF RePlanningDecision
  <2>3. frame' \in FrameType
    <3>1. {"next", "inject"} \subseteq Pcs
      BY PcFacts DEF Looping
    <3> QED
      BY <1>1, <2>1, <2>2, <3>1 DEF FrameType
  <2>4. frame.pc = "replan" /\ Len(frame.new) = 0 /\ frame.new = <<>>
    BY <1>4, NoSteps DEF Replan, At
  <2>5. MaxInject \in Nat
    BY ConstantFacts
  <2>6. FrameInv'
    <3>1. CASE n = 0
      BY <1>1, <2>1, <2>4, <3>1 DEF FrameType, stores
    <3>2. CASE n # 0
      BY <1>1, <2>1, <2>2, <2>4, <2>5, <3>2 DEF FrameType, stores
    <3> QED
      BY <3>1, <3>2
  <2> QED
    BY <1>2, <2>3, <2>6
<1>5. CASE SavePlan \/ LoopEnds \/ CallTool \/ Synthesize \/ Fallback \/ WriteQuality
  <2>1. {"create", "dbOutcome", "record", "complete", "skip", "return"} \subseteq Pcs
    BY PcFacts DEF Looping, OnStep
  <2>2. /\ Resumes(frame, frame')
        /\ \/ frame.pc = "savePlan" /\ frame'.pc = "create" /\ frame'.outcome = frame.outcome
           \/ frame.pc = "next" /\ frame'.pc = "dbOutcome" /\ frame'.outcome = "COMPLETED"
           \/ /\ frame.pc \in {"tool", "agent", "fallback"}
              /\ frame'.pc \in {"record", "complete", "skip"} /\ frame'.outcome = frame.outcome
           \/ frame.pc = "quality" /\ frame'.pc = "return" /\ frame'.outcome = frame.outcome
    <3>1. CASE SavePlan \/ CallTool \/ Fallback \/ WriteQuality
      <4>1. PICK pc \in Pcs :
              /\ Goto(pc)
              /\ \/ frame.pc = "savePlan" /\ pc = "create"
                 \/ frame.pc = "tool" /\ pc = "record"
                 \/ frame.pc = "fallback" /\ pc = "skip"
                 \/ frame.pc = "quality" /\ pc = "return"
        BY <2>1, <3>1 DEF SavePlan, CallTool, Fallback, WriteQuality, At
      <4> QED
        BY <1>1, <4>1, GotoFacts
    <3>2. CASE LoopEnds
      <4>1. /\ frame' = [frame EXCEPT !.pc = "dbOutcome", !.outcome = "COMPLETED"]
            /\ frame.pc = "next" /\ "dbOutcome" \in Pcs
        BY <2>1, <3>2 DEF LoopEnds, At
      <4> QED
        BY <1>1, <4>1 DEF FrameType, Resumes
    <3>3. CASE Synthesize
      <4>1. PICK w \in BOOLEAN : frame' = [frame EXCEPT !.pc = "complete", !.wants = w]
        BY <3>3 DEF Synthesize, NeedsReplan
      <4>2. frame.pc = "agent" /\ "complete" \in Pcs
        BY <2>1, <3>3 DEF Synthesize, At
      <4> QED
        BY <1>1, <4>1, <4>2 DEF FrameType, Resumes
    <3> QED
      BY <1>5, <3>1, <3>2, <3>3
  <2>3. FrameInv'
    BY <1>1, <2>2 DEF Resumes
  <2> QED
    BY <1>2, <2>2, <2>3 DEF Resumes
<1> QED
  BY <1>3, <1>4, <1>5 DEF Control

(* What the steps that write rows do to them.                              *)
Changed(i) ==
    /\ DOMAIN steps' = DOMAIN steps
    /\ \A j \in DOMAIN steps : j # i => steps'[j] = steps[j]

Added(n, order, dynamic) ==
    /\ n \in Nat /\ n \notin DOMAIN steps
    /\ DOMAIN steps' = DOMAIN steps \cup {n}
    /\ steps'[n] = Row(order, dynamic)
    /\ \A j \in DOMAIN steps : steps'[j] = steps[j]

LEMMA ChangedRow ==
    ASSUME TypeOK, NEW i, NEW r, i \in DOMAIN steps => r \in StepType,
           steps' = [steps EXCEPT ![i] = r]
    PROVE  steps' \in Seq(StepType) /\ Changed(i) /\ (i \in DOMAIN steps => steps'[i] = r)
<1>1. steps \in Seq(StepType)
  BY DEF TypeOK
<1> QED
  BY <1>1, UpdatedSeq DEF Changed

LEMMA RowFacts ==
    ASSUME TypeOK, NEW i \in DOMAIN steps
    PROVE  steps[i] \in StepType /\ i \in Nat
<1>1. steps \in Seq(StepType)
  BY DEF TypeOK
<1>2. DOMAIN steps = 1 .. Len(steps) /\ Len(steps) \in Nat
  BY <1>1, LenProperties
<1> QED
  BY <1>1, <1>2, ElementOfSeq

LEMMA SetStepFacts ==
    ASSUME TypeOK, NEW i, NEW st \in {"PENDING", "RUNNING", "COMPLETED", "SKIPPED"},
           SetStep(i, st)
    PROVE  /\ steps' \in Seq(StepType) /\ Changed(i)
           /\ i \in DOMAIN steps => steps'[i] = [steps[i] EXCEPT !.status = st]
<1>1. steps' = [steps EXCEPT ![i] = [steps[i] EXCEPT !.status = st]]
  BY DEF SetStep
<1>2. i \in DOMAIN steps => [steps[i] EXCEPT !.status = st] \in StepType
  BY RowFacts DEF StepType
<1> QED
  BY <1>1, <1>2, ChangedRow

LEMMA StartFacts ==
    ASSUME TypeOK, StartStep
    PROVE  \E tool \in BOOLEAN :
             /\ steps' \in Seq(StepType) /\ Changed(frame.cur)
             /\ frame.cur \in DOMAIN steps =>
                  steps'[frame.cur] =
                    [steps[frame.cur] EXCEPT !.status = "RUNNING", !.tool = tool]
             /\ Goto(IF tool THEN "tool" ELSE "agent")
<1> DEFINE i == frame.cur
<1>1. PICK tool \in BOOLEAN :
        /\ steps' = [steps EXCEPT ![i].status = "RUNNING", ![i].tool = tool]
        /\ Goto(IF tool THEN "tool" ELSE "agent")
  BY DEF StartStep
<1> DEFINE r == [steps[i] EXCEPT !.status = "RUNNING", !.tool = tool]
<1>2. steps' = [steps EXCEPT ![i] = r]
  BY <1>1
<1>3. i \in DOMAIN steps => r \in StepType
  <2>1. i \in DOMAIN steps => steps[i] \in StepType
    BY RowFacts
  <2> HIDE DEF i
  <2> QED
    BY <2>1 DEF StepType
<1>4. steps' \in Seq(StepType) /\ Changed(i) /\ (i \in DOMAIN steps => steps'[i] = r)
  <2> HIDE DEF i, r
  <2> QED
    BY <1>2, <1>3, ChangedRow
<1> QED
  BY <1>1, <1>4

LEMMA RecordFacts ==
    ASSUME TypeOK, RecordCall
    PROVE  /\ steps' \in Seq(StepType) /\ Changed(frame.cur)
           /\ frame.cur \in DOMAIN steps =>
                steps'[frame.cur] = [steps[frame.cur] EXCEPT !.calls = @ + 1]
<1> DEFINE i == frame.cur
           r == [steps[i] EXCEPT !.calls = @ + 1]
<1>1. steps' = [steps EXCEPT ![i] = r]
  BY DEF RecordCall
<1>2. i \in DOMAIN steps => r \in StepType
  BY RowFacts DEF StepType
<1> HIDE DEF i, r
<1>3. steps' \in Seq(StepType) /\ Changed(i) /\ (i \in DOMAIN steps => steps'[i] = r)
  BY <1>1, <1>2, ChangedRow
<1> QED
  BY <1>3 DEF i, r

LEMMA AddedRow ==
    ASSUME TypeOK, attempt > 0, NEW order \in Nat, NEW dynamic \in BOOLEAN,
           steps' = Append(steps, Row(order, dynamic))
    PROVE  steps' \in Seq(StepType) /\ Added(Len(steps) + 1, order, dynamic)
<1> DEFINE r == Row(order, dynamic)
<1>1. attempt \in 1 .. MaxAttempts /\ steps \in Seq(StepType)
  BY ConstantFacts DEF TypeOK
<1>2. r \in StepType /\ steps' = Append(steps, r)
  BY <1>1 DEF Row, StepType
<1> HIDE DEF r
<1>3. /\ steps' \in Seq(StepType) /\ Len(steps) + 1 \in Nat
      /\ Len(steps) + 1 \notin DOMAIN steps
      /\ DOMAIN steps' = DOMAIN steps \cup {Len(steps) + 1}
      /\ steps'[Len(steps) + 1] = r /\ \A j \in DOMAIN steps : steps'[j] = steps[j]
  BY <1>1, <1>2, AppendedSeq
<1> QED
  BY <1>3 DEF Added, r

-----------------------------------------------------------------------------
(* What they do to the queue.                                              *)

LEMMA CreateFacts ==
    ASSUME TypeOK, FrameInv, CreateStep
    PROVE  LET n == Len(steps) + 1 IN
             /\ frame' \in FrameType /\ steps' \in Seq(StepType)
             /\ Added(n, Head(frame.plan), FALSE)
             /\ frame'.todo = Append(frame.todo, n) /\ Queued' = Queued \cup {n}
             /\ Len(frame'.todo) = Len(frame.todo) + 1 /\ Len(frame.todo) \in Nat
             /\ frame' = [frame EXCEPT !.plan = frame'.plan, !.todo = frame'.todo,
                                       !.pc = frame'.pc]
             /\ \/ frame'.pc = "create" /\ frame'.plan # <<>>
                   /\ frame.nextOrder = Len(frame'.plan) + Len(frame'.todo) + 1
                \/ frame'.pc = "next" /\ frame.nextOrder = Len(frame'.todo) + 1
<1> DEFINE n == Len(steps) + 1
           p == Tail(frame.plan)
           q == Append(frame.todo, n)
           pc == IF Len(frame.plan) > 1 THEN "create" ELSE "next"
<1>1. /\ frame \in FrameType /\ frame.plan \in Seq(Nat) /\ frame.todo \in Seq(Nat)
      /\ frame.plan # <<>> /\ attempt > 0
      /\ frame.nextOrder = Len(frame.plan) + Len(frame.todo) + 1
  BY DEF CreateStep, At, TypeOK, FrameInv, FrameType
<1>2. /\ steps' = Append(steps, Row(Head(frame.plan), FALSE))
      /\ frame' = [frame EXCEPT !.plan = p, !.todo = q, !.pc = pc]
  BY DEF CreateStep
<1>3. /\ Head(frame.plan) \in Nat /\ p \in Seq(Nat) /\ Len(frame.plan) \in Nat \ {0}
      /\ Len(p) = Len(frame.plan) - 1
  BY <1>1, PoppedSeq
<1>3a. Len(frame.plan) \in Int /\ Len(frame.plan) >= 1 /\ Len(p) \in Int
  BY <1>3, LenProperties
<1>3b. Len(p) + 1 = Len(frame.plan)
  <2> HIDE DEF p
  <2> QED
    BY <1>3, <1>3a
<1>4. steps' \in Seq(StepType) /\ Added(n, Head(frame.plan), FALSE)
  BY <1>1, <1>2, <1>3, AddedRow
<1>5. n \in Nat
  BY <1>4 DEF Added
<1>6. /\ q \in Seq(Nat) /\ Len(q) = Len(frame.todo) + 1 /\ Len(frame.todo) \in Nat
      /\ DOMAIN q = DOMAIN frame.todo \cup {Len(frame.todo) + 1}
      /\ Len(frame.todo) + 1 \notin DOMAIN frame.todo
      /\ q[Len(frame.todo) + 1] = n /\ \A j \in DOMAIN frame.todo : q[j] = frame.todo[j]
  <2> HIDE DEF n
  <2>1. Len(frame.todo) + 1 \in Nat \ {0}
    BY <1>1, <1>5, AppendedSeq
  <2>2. Len(frame.todo) \in Nat
    BY <1>1, LenProperties
  <2> QED
    BY <1>1, <1>5, <2>2, AppendedSeq
<1>7. {"create", "next"} \subseteq Pcs
  BY PcFacts DEF Planning, Looping
<1>8. pc \in {"create", "next"} /\ (pc = "create" => p # <<>>) /\ (pc = "next" => Len(p) = 0)
  <2> HIDE DEF p
  <2>1. Len(p) > 0 => p # <<>>
    BY NoSteps
  <2> QED
    BY <1>3a, <1>3b, <2>1
<1> HIDE DEF n, p, q, pc
<1>9. frame' \in FrameType /\ frame'.todo = q /\ frame'.plan = p /\ frame'.pc = pc
  BY <1>1, <1>2, <1>3, <1>6, <1>7, <1>8 DEF FrameType
<1>10. Queued' = Queued \cup {n}
  BY <1>6, <1>9 DEF Queued, Entries
<1>11. frame.nextOrder = Len(p) + Len(q) + 1
  <2> DEFINE lp == Len(p)
             lq == Len(q)
             lt == Len(frame.todo)
             lf == Len(frame.plan)
  <2>1. frame.nextOrder = lf + lt + 1 /\ lt \in Int /\ lq = lt + 1 /\ lp \in Int /\ lp + 1 = lf
    BY <1>1, <1>6, <1>3a, <1>3b
  <2> HIDE DEF lp, lq, lt, lf
  <2>2. frame.nextOrder = lp + lq + 1
    BY <2>1
  <2> QED
    BY <2>2 DEF lp, lq
<1>12. pc = "next" => frame.nextOrder = Len(q) + 1
  BY <1>6, <1>8, <1>11
<1>13. frame' = [frame EXCEPT !.plan = p, !.todo = q, !.pc = pc]
  BY <1>2
<1> QED
  BY <1>4, <1>6, <1>8, <1>9, <1>10, <1>11, <1>12, <1>13 DEF n, q

LEMMA NextFacts ==
    ASSUME TypeOK, NextStep
    PROVE  /\ frame' \in FrameType
           /\ frame' = [frame EXCEPT !.pc = "start", !.cur = frame'.cur, !.todo = frame'.todo,
                                     !.tries = 0, !.wants = FALSE]
           /\ 1 \in DOMAIN frame.todo /\ frame'.cur = frame.todo[1]
           /\ DOMAIN frame.todo = 1 .. Len(frame.todo) /\ Len(frame.todo) \in Nat
           /\ DOMAIN frame'.todo = 1 .. Len(frame.todo) - 1
           /\ \A k \in DOMAIN frame'.todo :
                k + 1 \in DOMAIN frame.todo /\ frame'.todo[k] = frame.todo[k + 1]
           /\ Queued = Queued' \cup {frame'.cur}
<1> DEFINE h == Head(frame.todo)
           q == Tail(frame.todo)
<1>1. frame \in FrameType /\ frame.todo \in Seq(Nat) /\ frame.todo # <<>>
  BY DEF NextStep, TakeStep, TypeOK, FrameType
<1>2. frame' = [frame EXCEPT !.pc = "start", !.cur = h, !.todo = q, !.tries = 0,
                             !.wants = FALSE]
  BY DEF NextStep, TakeStep
<1>3. /\ h \in Nat /\ q \in Seq(Nat) /\ h = frame.todo[1] /\ 1 \in DOMAIN frame.todo
      /\ DOMAIN q = 1 .. Len(frame.todo) - 1
      /\ \A k \in DOMAIN q : k + 1 \in DOMAIN frame.todo /\ q[k] = frame.todo[k + 1]
  BY <1>1, PoppedSeq
<1>4. DOMAIN frame.todo = 1 .. Len(frame.todo) /\ Len(frame.todo) \in Nat
  BY <1>1, LenProperties
<1>5. "start" \in Pcs /\ 0 \in 0 .. MaxToolTries - 1
  BY PcFacts, ConstantFacts DEF Looping, OnStep
<1> HIDE DEF h, q
<1>6. frame' \in FrameType /\ frame'.cur = h /\ frame'.todo = q
  BY <1>1, <1>2, <1>3, <1>5 DEF FrameType
<1>7. Queued = Queued' \cup {h}
  <2>1. \A k \in DOMAIN frame.todo : k = 1 \/ (k - 1 \in DOMAIN q /\ frame.todo[k] = q[k - 1])
    <3> TAKE k \in DOMAIN frame.todo
    <3>1. k \in 1 .. Len(frame.todo)
      BY <1>4
    <3>2. k # 1 => k - 1 \in 1 .. Len(frame.todo) - 1 /\ (k - 1) + 1 = k
      BY <1>4, <3>1
    <3> QED
      BY <1>3, <3>2
  <2>2. Queued' = {q[k] : k \in DOMAIN q} /\ Queued = {frame.todo[k] : k \in DOMAIN frame.todo}
    BY <1>6 DEF Queued, Entries
  <2>3. Queued \subseteq Queued' \cup {h}
    BY <1>3, <2>1, <2>2
  <2>4. Queued' \cup {h} \subseteq Queued
    BY <1>3, <2>2
  <2> QED
    BY <2>3, <2>4
<1> QED
  BY <1>2, <1>3, <1>4, <1>6, <1>7

LEMMA InjectFacts ==
    ASSUME TypeOK, FrameInv, InjectStep
    PROVE  LET n == Len(steps) + 1
               new == Append(frame.new, n)
           IN  /\ frame' \in FrameType /\ steps' \in Seq(StepType)
               /\ Added(n, frame.nextOrder + Len(frame.new), TRUE)
               /\ Len(frame.new) \in Nat /\ Len(new) = Len(frame.new) + 1
               /\ Len(new) <= MaxInject /\ frame.nextOrder + Len(frame.new) \in Nat
               /\ DOMAIN frame.new = 1 .. Len(frame.new) /\ DOMAIN new = 1 .. Len(new)
               /\ new[Len(new)] = n /\ \A k \in DOMAIN frame.new : new[k] = frame.new[k]
               /\ \/ /\ frame' = [frame EXCEPT !.new = new, !.more = @ - 1]
                     /\ frame.more > 1 /\ frame'.new = new
                     /\ Queued' = Queued
                  \/ /\ frame' = [frame EXCEPT !.new = <<>>, !.more = 0, !.pc = "next",
                                               !.todo = frame'.todo,
                                               !.nextOrder = @ + Len(new), !.replans = @ + 1]
                     /\ frame'.todo = new \o frame.todo
                     /\ Queued' = Entries(new) \cup Queued
<1> DEFINE n == Len(steps) + 1
           new == Append(frame.new, n)
           q == new \o frame.todo
<1>1. /\ frame \in FrameType /\ frame.new \in Seq(Nat) /\ frame.todo \in Seq(Nat)
      /\ frame.pc = "inject" /\ attempt > 0 /\ frame.replans < MaxReplanDepth
      /\ frame.more > 0 /\ Len(frame.new) + frame.more <= MaxInject
      /\ frame.more \in 0 .. MaxInject /\ frame.nextOrder \in Nat
      /\ frame.replans \in 0 .. MaxReplanDepth
  BY DEF InjectStep, InjectStepAt, At, TypeOK, FrameInv, FrameType
<1>2. MaxInject \in Nat /\ MaxReplanDepth \in Nat
  BY ConstantFacts
<1>3. /\ steps' = Append(steps, Row(frame.nextOrder + Len(frame.new), TRUE))
      /\ frame' = IF frame.more > 1
                  THEN [frame EXCEPT !.new = new, !.more = @ - 1]
                  ELSE [frame EXCEPT !.new = <<>>, !.more = 0, !.pc = "next", !.todo = q,
                                     !.nextOrder = @ + 1 * Len(new), !.replans = @ + 1]
  BY DEF InjectStep, InjectStepAt
<1>4. Len(frame.new) \in Nat /\ DOMAIN frame.new = 1 .. Len(frame.new)
  BY <1>1, LenProperties
<1>5. frame.nextOrder + Len(frame.new) \in Nat
  BY <1>1, <1>4
<1>6. steps' \in Seq(StepType) /\ Added(n, frame.nextOrder + Len(frame.new), TRUE)
  BY <1>1, <1>3, <1>5, AddedRow
<1>7. n \in Nat
  BY <1>6 DEF Added
<1>8. /\ new \in Seq(Nat) /\ Len(new) = Len(frame.new) + 1
      /\ new[Len(frame.new) + 1] = n /\ \A k \in DOMAIN frame.new : new[k] = frame.new[k]
  <2> HIDE DEF n
  <2>1. frame.new \in Seq(Nat)
    BY <1>1
  <2> QED
    BY <2>1, <1>7, AppendedSeq
<1>9. DOMAIN new = 1 .. Len(new)
  BY <1>8, LenProperties
<1>10. q \in Seq(Nat) /\ Entries(q) = Entries(new) \cup Entries(frame.todo)
  <2> HIDE DEF new
  <2>1. new \in Seq(Nat) /\ frame.todo \in Seq(Nat)
    BY <1>1, <1>8
  <2> QED
    BY <2>1, JoinedSeq
<1>11. {"next", "inject"} \subseteq Pcs /\ <<>> \in Seq(Nat)
  BY PcFacts, NoSteps DEF Looping
<1> HIDE DEF n, new, q
<1> DEFINE ln == Len(new)
<1>12. ln = Len(frame.new) + 1 /\ ln \in Nat /\ 1 * ln = ln
  BY <1>4, <1>8
<1>13. Len(new) <= MaxInject
  BY <1>1, <1>2, <1>4, <1>12
<1> HIDE DEF ln
<1>14. CASE frame.more > 1
  <2>1. frame' = [frame EXCEPT !.new = new, !.more = @ - 1]
    BY <1>3, <1>14
  <2>2. frame.more - 1 \in 0 .. MaxInject
    BY <1>1, <1>2, <1>14
  <2>3. frame' \in FrameType /\ frame'.new = new /\ frame'.todo = frame.todo
    BY <1>1, <1>8, <2>1, <2>2 DEF FrameType
  <2>4. Queued' = Queued
    BY <2>3 DEF Queued
  <2> QED
    BY <1>4, <1>5, <1>6, <1>8, <1>9, <1>13, <1>14, <2>1, <2>3, <2>4 DEF n, new
<1>15. CASE ~(frame.more > 1)
  <2>1. frame' = [frame EXCEPT !.new = <<>>, !.more = 0, !.pc = "next", !.todo = q,
                               !.nextOrder = @ + ln, !.replans = @ + 1]
    BY <1>3, <1>12, <1>15 DEF ln
  <2>2. /\ 0 \in 0 .. MaxInject /\ frame.nextOrder + ln \in Nat
        /\ frame.replans + 1 \in 0 .. MaxReplanDepth
    <3>1. /\ frame.nextOrder \in Nat /\ ln \in Nat
          /\ frame.replans \in 0 .. MaxReplanDepth /\ frame.replans < MaxReplanDepth
      BY <1>1, <1>12
    <3> QED
      BY <1>2, <3>1
  <2>3. frame' \in FrameType /\ frame'.todo = q
    BY <1>1, <1>10, <1>11, <2>1, <2>2 DEF FrameType
  <2>4. Queued' = Entries(new) \cup Queued
    BY <1>10, <2>3 DEF Queued
  <2>5. frame' = [frame EXCEPT !.new = <<>>, !.more = 0, !.pc = "next", !.todo = frame'.todo,
                               !.nextOrder = @ + Len(new), !.replans = @ + 1]
    BY <2>1, <2>3 DEF ln
  <2> QED
    BY <1>4, <1>5, <1>6, <1>8, <1>9, <1>13, <2>3, <2>4, <2>5 DEF n, new, q
<1> QED
  BY <1>14, <1>15

-----------------------------------------------------------------------------
(* Types and locals, for the steps that change the queue or the stores.    *)

LEMMA TypeQueue ==
    ASSUME TypeOK, FrameInv, CreateStep \/ NextStep \/ InjectStep
    PROVE  TypeOK' /\ FrameInv'
<1> USE DEF Planning, Ending, FrameInv
<1>1. UNCHANGED <<status, live, context, attempt, faults, crashes>> /\ frame \in FrameType
  BY DEF CreateStep, NextStep, TakeStep, InjectStep, InjectStepAt, OnlySteps, OnlyFrame,
     stores, TypeOK
<1>2. ASSUME frame' \in FrameType, steps' \in Seq(StepType) PROVE TypeOK'
  BY <1>1, <1>2 DEF TypeOK
<1>3. CASE CreateStep
  <2>1. /\ frame' \in FrameType /\ steps' \in Seq(StepType)
        /\ frame' = [frame EXCEPT !.plan = frame'.plan, !.todo = frame'.todo,
                                  !.pc = frame'.pc]
        /\ \/ frame'.pc = "create" /\ frame'.plan # <<>>
              /\ frame.nextOrder = Len(frame'.plan) + Len(frame'.todo) + 1
           \/ frame'.pc = "next"
    BY <1>3, CreateFacts
  <2>2. frame.pc = "create"
    BY <1>3 DEF CreateStep, At
  <2> QED
    BY <1>1, <1>2, <2>1, <2>2 DEF FrameType
<1>4. CASE NextStep
  <2>1. /\ frame' \in FrameType
        /\ frame' = [frame EXCEPT !.pc = "start", !.cur = frame'.cur, !.todo = frame'.todo,
                                  !.tries = 0, !.wants = FALSE]
    BY <1>4, NextFacts
  <2>2. frame.pc = "next" /\ steps' = steps
    BY <1>4 DEF NextStep, TakeStep, At, OnlyFrame, stores
  <2>3. steps' \in Seq(StepType)
    BY <2>2 DEF TypeOK
  <2> QED
    BY <1>1, <1>2, <2>1, <2>2, <2>3 DEF FrameType
<1>5. CASE InjectStep
  <2> DEFINE new == Append(frame.new, Len(steps) + 1)
  <2>1. /\ frame' \in FrameType /\ steps' \in Seq(StepType)
        /\ Len(frame.new) \in Nat /\ Len(new) = Len(frame.new) + 1
        /\ \/ frame' = [frame EXCEPT !.new = new, !.more = @ - 1] /\ frame.more > 1
           \/ frame' = [frame EXCEPT !.new = <<>>, !.more = 0, !.pc = "next",
                                     !.todo = frame'.todo,
                                     !.nextOrder = @ + Len(new), !.replans = @ + 1]
    BY <1>5, InjectFacts
  <2>2. /\ frame.pc = "inject" /\ frame.more \in Int /\ MaxInject \in Int
        /\ Len(frame.new) + frame.more <= MaxInject
    BY <1>1, <1>5, ConstantFacts DEF InjectStep, InjectStepAt, At, FrameType
  <2> HIDE DEF new
  <2>3. CASE frame' = [frame EXCEPT !.new = new, !.more = @ - 1] /\ frame.more > 1
    <3>1. frame'.new = new /\ frame'.more = frame.more - 1
      BY <1>1, <2>3 DEF FrameType
    <3> DEFINE ln == Len(new)
               lf == Len(frame.new)
    <3>2. ln = lf + 1 /\ lf \in Int /\ lf + frame.more <= MaxInject
      BY <2>1, <2>2
    <3> HIDE DEF ln, lf
    <3>3. ln + (frame.more - 1) <= MaxInject /\ frame.more - 1 > 0
      BY <2>2, <2>3, <3>2
    <3>4. Len(frame'.new) + frame'.more <= MaxInject /\ frame'.more > 0
      BY <3>1, <3>3 DEF ln
    <3> QED
      BY <1>1, <1>2, <2>1, <2>2, <2>3, <3>4 DEF FrameType
  <2>4. CASE frame' = [frame EXCEPT !.new = <<>>, !.more = 0, !.pc = "next",
                                    !.todo = frame'.todo,
                                    !.nextOrder = @ + Len(new), !.replans = @ + 1]
    BY <1>1, <1>2, <2>1, <2>2, <2>4 DEF FrameType
  <2> QED
    BY <2>1, <2>3, <2>4
<1> QED
  BY <1>3, <1>4, <1>5

(* The steps that write the row of the step in hand, or the context.       *)
OneStep == StartStep \/ RecordCall \/ CompleteStep \/ SkipStep \/ AppendContext

LEMMA TypeOneStep ==
    ASSUME TypeOK, FrameInv, OneStep
    PROVE  TypeOK' /\ FrameInv'
<1> USE DEF Planning, Ending, FrameInv
<1>1. UNCHANGED <<status, live, attempt, faults, crashes>> /\ frame \in FrameType
  BY DEF OneStep, StartStep, RecordCall, CompleteStep, SkipStep, AppendContext, OnlySteps,
     TypeOK
<1>2. steps' \in Seq(StepType)
  <2>1. ASSUME StartStep PROVE steps' \in Seq(StepType)
    BY <2>1, StartFacts
  <2>2. ASSUME RecordCall PROVE steps' \in Seq(StepType)
    BY <2>2, RecordFacts
  <2>3. ASSUME CompleteStep \/ SkipStep PROVE steps' \in Seq(StepType)
    BY <2>3, SetStepFacts DEF CompleteStep, SkipStep
  <2>4. ASSUME AppendContext PROVE steps' \in Seq(StepType)
    BY <2>4 DEF AppendContext, TypeOK
  <2> QED
    BY <2>1, <2>2, <2>3, <2>4 DEF OneStep
<1>3. context' \in Seq(Nat)
  <2>1. CASE AppendContext
    <3>1. frame.cur \in Nat /\ context \in Seq(Nat)
      BY <1>1 DEF FrameType, TypeOK
    <3> QED
      BY <2>1, <3>1, AppendedSeq DEF AppendContext
  <2>2. CASE ~AppendContext
    BY <2>2 DEF OneStep, StartStep, RecordCall, CompleteStep, SkipStep, OnlySteps, TypeOK
  <2> QED
    BY <2>1, <2>2
<1>4. /\ frame.pc \in OnStep
      /\ \E pc \in OnStep \cup {"next", "replan"} :
           /\ frame' = [frame EXCEPT !.pc = pc]
           /\ pc = "replan" => frame.replans < MaxReplanDepth
  <2>1. CASE StartStep
    BY <2>1 DEF StartStep, Goto, At, OnStep
  <2>2. CASE RecordCall \/ CompleteStep \/ SkipStep
    BY <2>2 DEF RecordCall, CompleteStep, SkipStep, Goto, At, OnStep
  <2>3. CASE AppendContext
    BY <2>3 DEF AppendContext, AfterStep, Goto, At, OnStep
  <2> QED
    BY <2>1, <2>2, <2>3 DEF OneStep
<1>5. PICK pc \in OnStep \cup {"next", "replan"} :
        /\ frame' = [frame EXCEPT !.pc = pc]
        /\ pc = "replan" => frame.replans < MaxReplanDepth
  BY <1>4
<1>6. pc \in Pcs
  BY PcFacts DEF Looping
<1>7. frame' \in FrameType
  BY <1>1, <1>5, <1>6 DEF FrameType
<1>8. TypeOK'
  BY <1>1, <1>2, <1>3, <1>7 DEF TypeOK
<1>9. /\ frame'.pc = pc /\ frame'.outcome = frame.outcome /\ frame'.usable = frame.usable
      /\ frame'.replans = frame.replans /\ frame'.new = frame.new
  BY <1>1, <1>5 DEF FrameType
<1> QED
  BY <1>1, <1>4, <1>5, <1>8, <1>9 DEF OnStep

LEMMA TypeOutcome ==
    ASSUME TypeOK, FrameInv,
           Begin \/ WriteOutcomeDb \/ WriteOutcomeRedis \/ Return \/ Crash
    PROVE  TypeOK' /\ FrameInv'
<1> USE DEF Planning, Ending, FrameInv
<1>1. frame \in FrameType /\ steps' = steps /\ context' = context
  BY DEF Begin, WriteOutcomeDb, WriteOutcomeRedis, Return, Crash, OnlyFrame, TypeOK, stores
<1>2. CASE Begin
  <2>1. /\ frame' = [frame EXCEPT !.pc = "plan"] /\ frame = Idle
        /\ attempt' = attempt + 1 /\ attempt < MaxAttempts
        /\ status' = "RUNNING" /\ live' = "RUNNING" /\ UNCHANGED <<faults, crashes>>
    BY <1>2 DEF Begin, At, Goto
  <2>2. attempt' \in 0 .. MaxAttempts /\ attempt' > 0
    BY <2>1, ConstantFacts DEF TypeOK
  <2>3. "plan" \in Pcs
    BY PcFacts
  <2>4. frame' \in FrameType
    BY <1>1, <2>1, <2>3 DEF FrameType
  <2>5. TypeOK'
    BY <1>1, <2>1, <2>2, <2>4 DEF TypeOK
  <2>6. frame'.replans = 0
    BY <1>1, <2>1 DEF Idle
  <2> QED
    BY <1>1, <2>1, <2>2, <2>5, <2>6, IdleFacts DEF FrameType
<1>3. CASE WriteOutcomeDb \/ WriteOutcomeRedis
  <2>1. /\ frame.pc \in Ending /\ frame.outcome \in {"COMPLETED", "FAILED"}
        /\ UNCHANGED <<attempt, faults, crashes>>
        /\ status' \in {status, frame.outcome} /\ live' \in {live, frame.outcome}
        /\ \E pc \in {"redisOutcome", "quality", "return"} : Goto(pc)
    BY <1>1, <1>3 DEF WriteOutcomeDb, WriteOutcomeRedis, At, Goto, FrameType
  <2>2. /\ Resumes(frame, frame') /\ frame'.outcome = frame.outcome
        /\ frame'.pc \in {"redisOutcome", "quality", "return"}
    <3>1. {"redisOutcome", "quality", "return"} \subseteq Pcs
      BY PcFacts
    <3> QED
      BY <1>1, <2>1, <3>1, GotoFacts
  <2>3. TypeOK'
    BY <1>1, <2>1, <2>2 DEF TypeOK, Resumes
  <2>4. FrameInv'
    BY <2>1, <2>2 DEF Resumes
  <2> QED
    BY <2>3, <2>4
<1>4. CASE Return \/ Crash
  <2>1. /\ frame' = Idle /\ UNCHANGED <<status, live, attempt, faults>>
        /\ crashes' \in 0 .. MaxCrashes
    BY <1>4, ConstantFacts DEF Return, Crash, OnlyFrame, stores, TypeOK
  <2> QED
    BY <1>1, <2>1, IdleFacts DEF TypeOK
<1> QED
  BY <1>2, <1>3, <1>4

LEMMA TypeUnwind ==
    ASSUME TypeOK, FrameInv, Unwinds
    PROVE  TypeOK' /\ FrameInv'
<1> USE DEF Planning, Ending, FrameInv
<1>1. /\ UNCHANGED <<status, live, steps, context, attempt, crashes>>
      /\ frame' \in FrameType /\ Handled(frame, frame')
      /\ frame.pc \in AgentPcs \cup ToolPcs \cup DbPcs \cup RedisPcs
      /\ faults' \in 0 .. MaxStoreFaults /\ faults' <= faults
      /\ frame'.usable \/ faults' < MaxStoreFaults
  BY DEF Unwinds, stores
<1>2. TypeOK'
  BY <1>1 DEF TypeOK
<1>3. frame \in FrameType
  BY DEF TypeOK
<1>4. frame.pc \in Planning \cup Looping \cup Ending /\ frame.pc # "return"
  BY <1>1 DEF Looping, OnStep, AgentPcs, ToolPcs, DbPcs, RedisPcs
<1>5. /\ frame'.pc \in {"tool", "fallback", "skipAgain", "next", "dbOutcome", "return"}
      /\ frame'.pc \in {"dbOutcome", "return"} <=> frame'.outcome # "none"
  BY <1>1, <1>3, <1>4 DEF Handled, Looping, OnStep, ToolPcs
<1>6. frame'.new = <<>>
  BY <1>1 DEF Handled
<1> QED
  BY <1>1, <1>2, <1>4, <1>5, <1>6 DEF Looping, OnStep

LEMMA TypeStep == TypeOK /\ FrameInv /\ [Next]_vars => TypeOK' /\ FrameInv'
<1> SUFFICES ASSUME TypeOK, FrameInv, [Next]_vars PROVE TypeOK' /\ FrameInv'
  OBVIOUS
<1>1. CASE UNCHANGED vars
  <2>1. TypeOK'
    BY <1>1 DEF vars, TypeOK
  <2>2. FrameInv'
    BY <1>1 DEF vars, FrameInv
  <2> QED
    BY <2>1, <2>2
<1>2. CASE Next
  BY <1>2, TypeControl, TypeQueue, TypeOneStep, TypeOutcome, TypeUnwind, UnwindFacts
     DEF Next, Progress, Control, OneStep
<1> QED
  BY <1>1, <1>2

(* Every variable has its type; in particular a tool call is tried at most *)
(* max_tool_retries times (executor.py:123).                               *)
THEOREM TypeCorrect == Spec => []TypeOK
<1> QED
  BY TypeInit, TypeStep, PTL DEF Spec

-----------------------------------------------------------------------------
(* The two stores, and AttemptContract.                                    *)

LEMMA FaultsCount ==
    TypeOK /\ FrameInv =>
        /\ faults \in Nat /\ crashes \in Nat /\ attempt \in Nat
        /\ MaxStoreFaults \in Nat /\ MaxCrashes \in Nat
        /\ faults <= MaxStoreFaults /\ crashes <= MaxCrashes
BY ConstantFacts DEF TypeOK

(* The steps between two steps of the plan and within one.                 *)
Works == \/ Plan \/ SavePlan \/ CallTool \/ Synthesize \/ Fallback \/ Replan
         \/ CreateStep \/ NextStep \/ InjectStep \/ OneStep

LEMMA WorkFacts ==
    ASSUME TypeOK, FrameInv, Works
    PROVE  /\ UNCHANGED <<status, live, attempt, faults, crashes>>
           /\ frame.pc \in Planning \cup Looping /\ frame'.pc \in Planning \cup Looping
           /\ frame'.pc = "plan" <=> FALSE
           /\ frame'.pc \in Planning => frame.pc \in Planning
           /\ frame'.outcome = frame.outcome
<1> USE DEF Planning, Looping, OnStep
<1>1. frame \in FrameType
  BY DEF TypeOK
<1>2. CASE Plan \/ SavePlan \/ CallTool \/ Synthesize \/ Fallback \/ Replan
  BY <1>1, <1>2 DEF Plan, SavePlan, CallTool, Synthesize, Fallback, Replan, Goto, At, OnlyFrame,
     stores, FrameType
<1>3. CASE CreateStep \/ NextStep \/ InjectStep
  <2>1. CASE CreateStep
    BY <1>1, <2>1 DEF CreateStep, At, OnlySteps, FrameType
  <2>2. CASE NextStep
    BY <1>1, <2>2 DEF NextStep, TakeStep, At, OnlyFrame, stores, FrameType
  <2>3. CASE InjectStep
    BY <1>1, <2>3 DEF InjectStep, InjectStepAt, At, OnlySteps, FrameType
  <2> QED
    BY <1>3, <2>1, <2>2, <2>3
<1>4. CASE OneStep
  BY <1>1, <1>4 DEF OneStep, StartStep, RecordCall, CompleteStep, SkipStep, AppendContext,
     AfterStep, Goto, At, OnlySteps, FrameType
<1> QED
  BY <1>2, <1>3, <1>4 DEF Works

LEMMA NextCases ==
    ASSUME TypeOK, FrameInv, Next
    PROVE  \/ Works \/ Begin \/ LoopEnds \/ WriteQuality
           \/ WriteOutcomeDb \/ WriteOutcomeRedis \/ Return \/ Crash \/ Unwinds
BY UnwindFacts DEF Next, Progress, Works, OneStep

LEMMA StoreStep ==
    ASSUME TypeOK, FrameInv, StoreInv, [Next]_vars
    PROVE  StoreInv'
<1> USE DEF Planning, Ending, StoreInv, Faulty
<1>1. frame \in FrameType /\ frame' \in FrameType /\ FrameInv'
  BY TypeStep DEF TypeOK
<1>2. CASE UNCHANGED vars
  BY <1>2 DEF vars
<1>3. CASE Works
  BY <1>3, WorkFacts DEF Looping, OnStep
<1>4. CASE Begin
  <2>1. frame'.pc = "plan" /\ status' = "RUNNING"
    BY <1>1, <1>4 DEF Begin, Goto, FrameType
  <2> QED
    BY <2>1
<1>5. CASE LoopEnds
  <2>1. frame'.pc = "dbOutcome" /\ frame.pc = "next" /\ status' = status
    BY <1>1, <1>5 DEF LoopEnds, At, OnlyFrame, stores, FrameType
  <2> QED
    BY <2>1 DEF Looping
<1>6. CASE WriteQuality
  <2>1. frame'.pc = "return" /\ frame.pc = "quality" /\ UNCHANGED <<status, live>>
    BY <1>1, <1>6 DEF WriteQuality, At, Goto, OnlyFrame, stores, FrameType
  <2> QED
    BY <2>1 DEF Looping, OnStep
<1>7. CASE WriteOutcomeDb
  <2>1. frame'.pc = "redisOutcome" /\ status' = frame'.outcome
    BY <1>1, <1>7 DEF WriteOutcomeDb, Goto, FrameType
  <2> QED
    BY <2>1 DEF Looping, OnStep
<1>8. CASE WriteOutcomeRedis
  <2>1. /\ frame.pc = "redisOutcome" /\ live' = frame.outcome /\ status' = status
        /\ frame'.pc = IF frame.outcome = "COMPLETED" THEN "quality" ELSE "return"
        /\ frame.outcome \in {"COMPLETED", "FAILED"}
    BY <1>1, <1>8 DEF WriteOutcomeRedis, At, Goto, FrameType, FrameInv
  <2> QED
    BY <2>1 DEF Looping, OnStep
<1>9. CASE Return \/ Crash
  <2>1. frame'.pc = "idle"
    BY <1>9, IdleFacts DEF Return, Crash
  <2> QED
    BY <2>1 DEF Looping, OnStep
<1>10. CASE Unwinds
  <2>1. /\ UNCHANGED <<status, live, crashes>> /\ Handled(frame, frame')
        /\ faults' <= faults /\ faults' \in Nat /\ frame.pc # "return" /\ frame.pc # "idle"
        /\ frame.pc \in Ending => faults' < MaxStoreFaults
        /\ frame.pc \in Planning \cup Looping \cup Ending
    BY <1>10, FaultsCount DEF Unwinds, stores, AgentPcs, ToolPcs, DbPcs, RedisPcs, Looping, OnStep
  <2>2. Faulty => Faulty'
    BY <2>1, FaultsCount
  <2>3. /\ frame'.pc \in Looping \cup {"dbOutcome", "return"}
        /\ frame'.pc = "dbOutcome" => frame'.outcome = "FAILED"
        /\ frame'.pc \in Looping => frame.pc \in Looping
        /\ frame'.pc = "return" => frame.pc \in Ending
    BY <2>1 DEF Handled, Looping, OnStep, ToolPcs
  <2> QED
    BY <2>1, <2>2, <2>3 DEF Looping, OnStep
<1> QED
  BY <1>2, <1>3, <1>4, <1>5, <1>6, <1>7, <1>8, <1>9, <1>10, NextCases

LEMMA StoreInvariant == Spec => [](TypeOK /\ FrameInv /\ StoreInv)
<1>1. Init => StoreInv
  BY IdleFacts DEF Init, StoreInv, Planning, Looping, OnStep
<1> QED
  BY <1>1, TypeInit, TypeStep, StoreStep, PTL DEF Spec

Phase == IF frame.pc = "idle" THEN "idle"
         ELSE IF status = "RUNNING" THEN "working" ELSE "announcing"

(* What AttemptContract says of steps.                                     *)
ContractSteps == Contract!Init /\ [][Contract!Next]_(Contract!contract)

LEMMA ContractStep ==
    ASSUME TypeOK, FrameInv, StoreInv, [Next]_vars
    PROVE  [Contract!Next]_(Contract!contract)
<1> USE DEF Contract!contract, Contract!Next
<1>1. /\ frame \in FrameType /\ frame' \in FrameType /\ FrameInv' /\ StoreInv'
      /\ frame.pc \in Ending <=> frame.outcome # "none"
  BY TypeStep, StoreStep DEF TypeOK, FrameInv
<1>2. CASE UNCHANGED vars
  BY <1>2 DEF vars
<1>3. CASE Works \/ LoopEnds \/ WriteQuality
  <2>1. UNCHANGED <<status, live, faults, crashes>>
    BY <1>3, WorkFacts DEF LoopEnds, WriteQuality, OnlyFrame, stores
  <2>2. frame.pc # "idle" /\ frame'.pc # "idle"
    <3>1. CASE Works
      BY <3>1, WorkFacts DEF Planning, Looping, OnStep
    <3>2. CASE LoopEnds \/ WriteQuality
      BY <1>1, <3>2 DEF LoopEnds, WriteQuality, At, Goto, FrameType
    <3> QED
      BY <1>3, <3>1, <3>2
  <2> QED
    BY <2>1, <2>2
<1>4. CASE Begin
  <2>1. /\ frame.pc = "idle" /\ frame'.pc = "plan"
        /\ status' = "RUNNING" /\ live' = "RUNNING" /\ UNCHANGED <<faults, crashes>>
    BY <1>1, <1>4 DEF Begin, At, Goto, FrameType
  <2> QED
    BY <2>1 DEF Contract!Begin
<1>5. CASE WriteOutcomeDb
  <2>1. /\ frame.pc = "dbOutcome" /\ frame'.pc = "redisOutcome" /\ status' = frame.outcome
        /\ frame.outcome \in {"COMPLETED", "FAILED"} /\ UNCHANGED <<live, faults, crashes>>
    BY <1>1, <1>5 DEF WriteOutcomeDb, At, Goto, FrameType, Ending
  <2>2. CASE status = "RUNNING"
    BY <2>1, <2>2 DEF Contract!Settle
  <2>3. CASE status # "RUNNING"
    <3>1. Faulty /\ frame.outcome = "FAILED"
      BY <2>1, <2>3 DEF StoreInv
    <3> QED
      BY <2>1, <2>3, <3>1 DEF Contract!Revise, Faulty
  <2> QED
    BY <2>2, <2>3
<1>6. CASE WriteOutcomeRedis
  <2>1. /\ frame.pc = "redisOutcome" /\ live' = frame.outcome
        /\ frame'.pc \in {"quality", "return"}
        /\ frame.outcome \in {"COMPLETED", "FAILED"} /\ UNCHANGED <<status, faults, crashes>>
    BY <1>1, <1>6 DEF WriteOutcomeRedis, At, Goto, FrameType, Ending
  <2>2. status = frame.outcome
    BY <2>1 DEF StoreInv
  <2> QED
    BY <2>1, <2>2 DEF Contract!Announce
<1>7. CASE Return
  <2>1. frame.pc = "return" /\ frame'.pc = "idle" /\ UNCHANGED <<status, live, faults, crashes>>
    BY <1>7, IdleFacts DEF Return, At, OnlyFrame, stores
  <2>2. Faulty \/ (status # "RUNNING" /\ live = status)
    BY <2>1 DEF StoreInv
  <2> QED
    BY <2>1, <2>2 DEF Contract!Return, Faulty
<1>8. CASE Crash
  <2>1. /\ frame.pc # "idle" /\ frame'.pc = "idle" /\ UNCHANGED <<status, live, faults>>
        /\ crashes' < MaxCrashes
    BY <1>8, IdleFacts, FaultsCount DEF Crash, stores
  <2> QED
    BY <2>1 DEF Contract!Break
<1>9. CASE Unwinds
  <2>1. /\ UNCHANGED <<status, live, crashes>>
        /\ frame.pc # "idle" /\ frame'.pc # "idle"
        /\ faults' = faults \/ faults' < MaxStoreFaults
    <3>1. /\ UNCHANGED <<status, live, crashes>> /\ Handled(frame, frame')
          /\ frame.pc \in AgentPcs \cup ToolPcs \cup DbPcs \cup RedisPcs
          /\ faults' \in Nat /\ faults' <= faults
      BY <1>9, FaultsCount DEF Unwinds, stores
    <3>2. frame.pc # "idle" /\ frame'.pc # "idle"
      BY <3>1 DEF Handled, AgentPcs, ToolPcs, DbPcs, RedisPcs, OnStep
    <3>3. faults' = faults \/ faults' < MaxStoreFaults
      BY <3>1, FaultsCount
    <3> QED
      BY <3>1, <3>2, <3>3
  <2>2. CASE faults' = faults
    BY <2>1, <2>2
  <2>3. CASE faults' < MaxStoreFaults
    BY <2>1, <2>3 DEF Contract!Break
  <2> QED
    BY <2>1, <2>2, <2>3
<1> QED
  BY <1>2, <1>3, <1>4, <1>5, <1>6, <1>7, <1>8, <1>9, NextCases

(* Every step of run_workflow is a step of AttemptContract or leaves both  *)
(* stores alone: the outcome is in the row before it is in Redis, both     *)
(* have it when run_workflow returns, and no outcome is revised, unless a  *)
(* store has failed (orchestrator.py:260-304, 378-386).                    *)
THEOREM StepsKeepContract == Spec => ContractSteps
<1>1. Init => Contract!Init
  BY IdleFacts, ConstantFacts DEF Init, Contract!Init
<1> QED
  BY <1>1, ContractStep, StoreInvariant, PTL DEF Spec, ContractSteps

-----------------------------------------------------------------------------
(* The rows of the steps.                                                  *)

(* The steps after which no step is in hand, and which write no row.       *)
Quiet == \/ Plan \/ SavePlan \/ Replan \/ LoopEnds \/ WriteQuality
         \/ WriteOutcomeDb \/ WriteOutcomeRedis \/ Return \/ Crash

LEMMA QuietFacts ==
    ASSUME TypeOK, FrameInv, Quiet
    PROVE  /\ UNCHANGED <<steps, context, attempt, faults>>
           /\ frame'.pc \notin OnStep
           /\ frame'.pc = "plan" <=> FALSE
           /\ frame'.pc = "savePlan" => frame.pc = "plan"
           /\ frame'.pc = "create" => frame.pc = "savePlan"
           /\ frame'.pc \in Looping => frame.pc = "replan"
           /\ frame'.new = <<>>
           /\ frame' = Idle \/ frame'.todo = frame.todo
<1>1. frame \in FrameType
  BY DEF TypeOK
<1> USE DEF Looping, OnStep, At, Goto, OnlyFrame, stores
<1>2. CASE Plan \/ SavePlan \/ Replan
  <2>1. frame.new = <<>>
    BY <1>2 DEF Plan, SavePlan, Replan, FrameInv
  <2>2. CASE Plan
    BY <1>1, <2>1, <2>2 DEF Plan, FrameType
  <2>3. CASE SavePlan
    BY <1>1, <2>1, <2>3 DEF SavePlan, FrameType
  <2>4. CASE Replan
    BY <1>1, <2>1, <2>4 DEF Replan, FrameType
  <2> QED
    BY <1>2, <2>2, <2>3, <2>4
<1>3. CASE LoopEnds \/ WriteQuality \/ WriteOutcomeDb \/ WriteOutcomeRedis
  BY <1>1, <1>3 DEF LoopEnds, WriteQuality, WriteOutcomeDb, WriteOutcomeRedis, FrameType,
     FrameInv
<1>4. CASE Return
  BY <1>4, IdleFacts DEF Return
<1>5. CASE Crash
  <2>1. frame' = Idle /\ UNCHANGED <<steps, context, attempt, faults>>
    BY <1>5 DEF Crash
  <2> QED
    BY <2>1, IdleFacts
<1> QED
  BY <1>2, <1>3, <1>4, <1>5 DEF Quiet

(* The steps that go on with the step in hand without writing its row.     *)
GoesOn == CallTool \/ Synthesize \/ Fallback

LEMMA GoesOnFacts ==
    ASSUME TypeOK, FrameInv, GoesOn
    PROVE  /\ UNCHANGED <<steps, context, attempt, faults>>
           /\ <<frame.pc, frame'.pc>> \in
                {<<"tool", "record">>, <<"agent", "complete">>, <<"fallback", "skip">>}
           /\ frame'.cur = frame.cur /\ frame'.todo = frame.todo /\ frame'.new = frame.new
           /\ frame'.nextOrder = frame.nextOrder /\ frame'.replans = frame.replans
<1>1. frame \in FrameType
  BY DEF TypeOK
<1> QED
  BY <1>1 DEF GoesOn, CallTool, Synthesize, Fallback, At, Goto, OnlyFrame, stores, FrameType

(* The steps that write the row of the step in hand.                       *)
LEMMA OneStepFacts ==
    ASSUME TypeOK, FrameInv, RowsInv, OneStep
    PROVE  /\ Changed(frame.cur) /\ frame.cur \in Mine /\ frame.cur \in DOMAIN steps
           /\ frame'.cur = frame.cur /\ frame'.todo = frame.todo /\ frame'.new = frame.new
           /\ frame'.nextOrder = frame.nextOrder /\ frame'.replans = frame.replans
           /\ UNCHANGED <<attempt, faults>>
           /\ \/ /\ frame.pc = "start" /\ frame'.pc \in {"tool", "agent"}
                 /\ \E tool \in BOOLEAN :
                      /\ steps'[frame.cur] =
                           [steps[frame.cur] EXCEPT !.status = "RUNNING", !.tool = tool]
                      /\ frame'.pc = "agent" => tool = FALSE
              \/ /\ frame.pc = "record" /\ frame'.pc = "agent"
                 /\ steps'[frame.cur] = [steps[frame.cur] EXCEPT !.calls = @ + 1]
              \/ /\ frame.pc = "complete" /\ frame'.pc = "append"
                 /\ steps'[frame.cur] = [steps[frame.cur] EXCEPT !.status = "COMPLETED"]
              \/ /\ frame.pc \in {"skip", "skipAgain"} /\ frame'.pc = "next"
                 /\ steps'[frame.cur] = [steps[frame.cur] EXCEPT !.status = "SKIPPED"]
              \/ /\ frame.pc = "append" /\ frame'.pc \in {"next", "replan"}
                 /\ steps' = steps
           /\ frame.pc # "append" => context' = context
<1>1. frame \in FrameType /\ frame.pc \in OnStep
  BY DEF TypeOK, OneStep, StartStep, RecordCall, CompleteStep, SkipStep, AppendContext, At,
     OnStep
<1>2. frame.cur \in Mine /\ frame.cur \in DOMAIN steps
  BY <1>1 DEF RowsInv, Mine
<1>3. /\ UNCHANGED <<attempt, faults>>
      /\ frame'.cur = frame.cur /\ frame'.todo = frame.todo /\ frame'.new = frame.new
      /\ frame'.nextOrder = frame.nextOrder /\ frame'.replans = frame.replans
  BY <1>1 DEF OneStep, StartStep, RecordCall, CompleteStep, SkipStep, AppendContext, Goto,
     OnlySteps, FrameType
<1>4. CASE StartStep
  <2>1. frame.pc = "start" /\ context' = context
    BY <1>4 DEF StartStep, At, OnlySteps
  <2>2. PICK tool \in BOOLEAN :
          /\ Changed(frame.cur)
          /\ frame.cur \in DOMAIN steps =>
               steps'[frame.cur] =
                 [steps[frame.cur] EXCEPT !.status = "RUNNING", !.tool = tool]
          /\ Goto(IF tool THEN "tool" ELSE "agent")
    BY <1>4, StartFacts
  <2>3. frame'.pc = IF tool THEN "tool" ELSE "agent"
    BY <1>1, <2>2 DEF Goto, FrameType
  <2> QED
    BY <1>2, <1>3, <2>1, <2>2, <2>3
<1>5. CASE RecordCall
  <2>1. frame.pc = "record" /\ frame'.pc = "agent" /\ context' = context
    BY <1>1, <1>5 DEF RecordCall, At, OnlySteps, Goto, FrameType
  <2> QED
    BY <1>2, <1>3, <1>5, <2>1, RecordFacts
<1>6. CASE CompleteStep
  <2>1. /\ frame.pc = "complete" /\ frame'.pc = "append" /\ context' = context
        /\ SetStep(frame.cur, "COMPLETED")
    BY <1>1, <1>6 DEF CompleteStep, At, OnlySteps, Goto, FrameType
  <2> QED
    BY <1>2, <1>3, <2>1, SetStepFacts
<1>7. CASE SkipStep
  <2>1. /\ frame.pc \in {"skip", "skipAgain"} /\ frame'.pc = "next" /\ context' = context
        /\ SetStep(frame.cur, "SKIPPED")
    BY <1>1, <1>7 DEF SkipStep, At, OnlySteps, Goto, FrameType
  <2> QED
    BY <1>2, <1>3, <2>1, SetStepFacts
<1>8. CASE AppendContext
  <2>1. frame.pc = "append" /\ frame'.pc \in {"next", "replan"} /\ steps' = steps
    BY <1>1, <1>8 DEF AppendContext, AfterStep, At, Goto, FrameType
  <2> QED
    BY <1>2, <1>3, <2>1 DEF Changed
<1> QED
  BY <1>4, <1>5, <1>6, <1>7, <1>8 DEF OneStep

(* The rows of this attempt stay so, and a new row belongs to it.          *)
LEMMA MineChanged ==
    ASSUME TypeOK, FrameInv, RowsInv, OneStep
    PROVE  /\ Mine' = Mine
           /\ \A i \in DOMAIN steps : /\ steps'[i].attempt = steps[i].attempt
                                      /\ steps'[i].dynamic = steps[i].dynamic
                                      /\ steps'[i].order = steps[i].order
<1>1. /\ Changed(frame.cur) /\ frame.cur \in DOMAIN steps /\ attempt' = attempt
      /\ steps[frame.cur] \in StepType
  BY OneStepFacts, RowFacts
<1>2. /\ steps'[frame.cur].attempt = steps[frame.cur].attempt
      /\ steps'[frame.cur].dynamic = steps[frame.cur].dynamic
      /\ steps'[frame.cur].order = steps[frame.cur].order
  BY <1>1, OneStepFacts DEF StepType
<1>3. \A i \in DOMAIN steps : /\ steps'[i].attempt = steps[i].attempt
                              /\ steps'[i].dynamic = steps[i].dynamic
                              /\ steps'[i].order = steps[i].order
  BY <1>1, <1>2 DEF Changed
<1> QED
  BY <1>1, <1>3 DEF Mine, Changed

LEMMA MineAdded ==
    ASSUME NEW n, NEW order, NEW dynamic, Added(n, order, dynamic), attempt' = attempt
    PROVE  /\ Mine' = Mine \cup {n} /\ n \notin Mine
           /\ steps'[n].order = order /\ steps'[n].dynamic = dynamic
           /\ steps'[n].status = "PENDING" /\ steps'[n].calls = 0
           /\ steps'[n].attempt = attempt /\ steps'[n].tool = FALSE
BY DEF Added, Row, Mine

LEMMA RowCases ==
    ASSUME TypeOK, FrameInv, [Next]_vars
    PROVE  \/ UNCHANGED vars \/ Quiet \/ GoesOn \/ OneStep \/ Begin
           \/ CreateStep \/ NextStep \/ InjectStep \/ Unwinds
BY NextCases DEF Works, Quiet, GoesOn

LEMMA UnwindPcs ==
    ASSUME Unwinds
    PROVE  /\ UNCHANGED <<status, live, steps, context, attempt>>
           /\ frame'.cur = frame.cur /\ frame'.todo = frame.todo
           /\ frame'.nextOrder = frame.nextOrder /\ frame'.replans = frame.replans
           /\ frame.pc # "idle"
           /\ \/ frame.pc \in {"tool", "record"} /\ frame'.pc = "tool"
              \/ frame.pc \in {"agent", "complete", "append"} /\ frame'.pc = "fallback"
              \/ frame.pc \in {"fallback", "skip"} /\ frame'.pc = "skipAgain"
              \/ frame.pc \in {"replan", "inject"} /\ frame'.pc = "next"
              \/ frame'.pc \in {"dbOutcome", "return"}
           /\ frame'.pc \in {"dbOutcome", "return"} => frame.pc # "inject"
<1>1. /\ UNCHANGED <<status, live, steps, context, attempt>> /\ Handled(frame, frame')
      /\ frame.pc \in AgentPcs \cup ToolPcs \cup DbPcs \cup RedisPcs
  BY DEF Unwinds, stores
<1>2. frame.pc # "idle"
  BY <1>1 DEF AgentPcs, ToolPcs, DbPcs, RedisPcs
<1> QED
  BY <1>1, <1>2 DEF Handled, ToolPcs, OnStep

LEMMA RowsStep ==
    ASSUME TypeOK, FrameInv, RowsInv, QueueInv, [Next]_vars
    PROVE  RowsInv'
<1>1. /\ FrameInv' /\ attempt \in Nat
      /\ \A i \in DOMAIN steps : steps[i] \in StepType
  BY TypeStep, FaultsCount, RowFacts
<1>2. CASE UNCHANGED vars
  BY <1>2 DEF vars, RowsInv, Mine, Logged
<1>3. CASE Quiet
  BY <1>3, QuietFacts DEF RowsInv, Mine, Logged, OnStep
<1>4. CASE GoesOn
  <2>1. /\ UNCHANGED <<steps, attempt>> /\ frame'.cur = frame.cur
        /\ \/ frame.pc = "tool" /\ frame'.pc = "record"
           \/ frame.pc = "agent" /\ frame'.pc = "complete"
           \/ frame.pc = "fallback" /\ frame'.pc = "skip"
    BY <1>4, GoesOnFacts
  <2> QED
    BY <2>1 DEF RowsInv, Mine, Logged, OnStep
<1>5. CASE OneStep
  <2>0. PICK c : c = frame.cur
    OBVIOUS
  <2>1. /\ Mine' = Mine /\ c \in Mine /\ c \in DOMAIN steps /\ frame'.cur = c
        /\ attempt' = attempt /\ DOMAIN steps' = DOMAIN steps
        /\ \A j \in DOMAIN steps : j # c => steps'[j] = steps[j]
        /\ \A j \in DOMAIN steps : steps'[j].attempt = steps[j].attempt
    BY <1>5, <2>0, OneStepFacts, MineChanged DEF Changed
  <2>2. steps[c] \in StepType
    BY <1>1, <2>1
  <2> DEFINE Sound(i) == /\ steps[i].attempt <= attempt
                         /\ steps[i].calls <= 1
                         /\ steps[i].status = "PENDING" => steps[i].calls = 0
                         /\ steps[i].status \in Closed => Logged(i)
  <2>a. Sound(c)' => \A i \in DOMAIN steps' : Sound(i)'
    <3>1. \A i \in DOMAIN steps : i # c => Sound(i)'
      BY <2>1 DEF RowsInv, Logged
    <3> QED
      BY <2>1, <3>1
  <2>b. steps'[c].attempt <= attempt'
    BY <2>1 DEF RowsInv
  <2>3. CASE /\ frame.pc = "start" /\ frame'.pc \in {"tool", "agent"}
             /\ \E tool \in BOOLEAN :
                  /\ steps'[c] = [steps[c] EXCEPT !.status = "RUNNING", !.tool = tool]
                  /\ frame'.pc = "agent" => tool = FALSE
    <3>1. /\ steps'[c].status = "RUNNING" /\ steps'[c].calls = 0
          /\ frame'.pc = "agent" => ~steps'[c].tool
      BY <2>1, <2>2, <2>3, <2>0 DEF StepType, RowsInv
    <3>2. \A i \in DOMAIN steps' : Sound(i)'
      BY <2>a, <2>b, <3>1 DEF Logged, Closed
    <3> QED
      BY <2>1, <2>3, <3>1, <3>2 DEF RowsInv, Logged, OnStep
  <2>4. CASE /\ frame.pc = "record" /\ frame'.pc = "agent"
             /\ steps'[c] = [steps[c] EXCEPT !.calls = @ + 1]
    <3>1. steps'[c].status = "RUNNING" /\ steps'[c].calls = 1
      BY <2>1, <2>2, <2>4, <2>0 DEF StepType, RowsInv
    <3>2. \A i \in DOMAIN steps' : Sound(i)'
      BY <2>a, <2>b, <3>1 DEF Logged, Closed
    <3> QED
      BY <2>1, <2>4, <3>1, <3>2 DEF RowsInv, Logged, OnStep
  <2>5. CASE /\ frame.pc = "complete" /\ frame'.pc = "append"
             /\ steps'[c] = [steps[c] EXCEPT !.status = "COMPLETED"]
    <3>1. /\ steps'[c].status = "COMPLETED" /\ steps'[c].calls = steps[c].calls
          /\ steps'[c].tool = steps[c].tool /\ Logged(c) /\ steps[c].calls <= 1
      BY <2>1, <2>2, <2>5, <2>0 DEF StepType, RowsInv
    <3>2. \A i \in DOMAIN steps' : Sound(i)'
      BY <2>a, <2>b, <3>1 DEF Logged, Closed
    <3> QED
      BY <2>1, <2>5, <3>1, <3>2 DEF RowsInv, Logged, OnStep
  <2>6. CASE /\ frame.pc \in {"skip", "skipAgain"} /\ frame'.pc = "next"
             /\ steps'[c] = [steps[c] EXCEPT !.status = "SKIPPED"]
    <3>1. /\ steps'[c].status = "SKIPPED" /\ steps'[c].calls = steps[c].calls
          /\ steps'[c].tool = steps[c].tool /\ Logged(c) /\ steps[c].calls <= 1
      BY <2>1, <2>2, <2>6, <2>0 DEF StepType, RowsInv
    <3>2. \A i \in DOMAIN steps' : Sound(i)'
      BY <2>a, <2>b, <3>1 DEF Logged, Closed
    <3> QED
      BY <2>1, <2>6, <3>1, <3>2 DEF RowsInv, Logged, OnStep
  <2>7. CASE frame.pc = "append" /\ frame'.pc \in {"next", "replan"} /\ steps' = steps
    BY <2>1, <2>7 DEF RowsInv, Logged, OnStep
  <2> QED
    BY <1>5, <2>0, <2>3, <2>4, <2>5, <2>6, <2>7, OneStepFacts
<1>6. CASE Begin
  <2>1. steps' = steps /\ attempt' = attempt + 1 /\ frame'.pc = "plan"
    BY <1>6 DEF Begin, Goto, TypeOK, FrameType
  <2>2. \A i \in DOMAIN steps : steps[i].attempt <= attempt'
    BY <1>1, <2>1 DEF RowsInv, StepType
  <2> QED
    BY <2>1, <2>2 DEF RowsInv, Logged, OnStep
<1>7. CASE CreateStep \/ InjectStep
  <2>1. PICK n, order, dynamic : Added(n, order, dynamic)
    BY <1>7, CreateFacts, InjectFacts
  <2>2. attempt' = attempt
    BY <1>7 DEF CreateStep, InjectStep, InjectStepAt, OnlySteps
  <2>3. frame'.pc \notin OnStep
    <3>1. CASE CreateStep
      BY <3>1, CreateFacts DEF OnStep
    <3>2. CASE InjectStep
      BY <3>2, InjectFacts DEF OnStep, InjectStep, InjectStepAt, At, TypeOK, FrameType
    <3> QED
      BY <1>7, <3>1, <3>2
  <2>4. /\ steps'[n].status = "PENDING" /\ steps'[n].calls = 0 /\ steps'[n].attempt = attempt
    BY <2>1, <2>2, MineAdded
  <2>5. \A i \in DOMAIN steps' : i = n \/ (i \in DOMAIN steps /\ steps'[i] = steps[i])
    BY <2>1 DEF Added
  <2> QED
    BY <1>1, <2>2, <2>3, <2>4, <2>5 DEF RowsInv, Logged, Closed, OnStep
<1>8. CASE NextStep
  <2>1. /\ frame'.pc = "start" /\ 1 \in DOMAIN frame.todo /\ frame'.cur = frame.todo[1]
    BY <1>8, NextFacts DEF TypeOK, FrameType
  <2>2. UNCHANGED <<steps, attempt>>
    BY <1>8 DEF NextStep, TakeStep, OnlyFrame, stores
  <2>3. frame'.cur \in Mine /\ steps[frame'.cur].status = "PENDING"
    BY <2>1 DEF QueueInv, QueueOrder, Queued, Entries
  <2> QED
    BY <2>1, <2>2, <2>3 DEF RowsInv, Mine, Logged, OnStep
<1>9. CASE Unwinds
  <2>1. frame.pc \in {"agent", "complete", "append", "fallback", "skip", "tool", "record"}
          => frame.cur \in DOMAIN steps
    BY DEF RowsInv, Mine, OnStep
  <2> QED
    BY <1>9, <2>1, UnwindPcs DEF RowsInv, Mine, Logged, Closed, OnStep
<1> QED
  BY <1>2, <1>3, <1>4, <1>5, <1>6, <1>7, <1>8, <1>9, RowCases

-----------------------------------------------------------------------------
(* The queue.                                                              *)

LEMMA EmptyEntries == Entries(<<>>) = {}
BY NoSteps DEF Entries

LEMMA QueuedFacts ==
    ASSUME QueueOrder
    PROVE  Queued \subseteq Mine /\ Mine \subseteq DOMAIN steps
BY DEF QueueOrder, Mine

(* A queue stays in order when its rows are left alone.                    *)
LEMMA KeptQueue ==
    ASSUME QueueOrder, frame'.todo = frame.todo,
           \A s \in Queued : s \in Mine' /\ steps'[s] = steps[s]
    PROVE  QueueOrder' /\ Queued' = Queued
<1>1. \A i \in DOMAIN frame.todo : frame.todo[i] \in Queued
  BY DEF Queued, Entries
<1>2. Queued' = Queued
  BY DEF Queued
<1>3. \A i \in DOMAIN frame.todo : steps'[frame.todo[i]] = steps[frame.todo[i]]
  BY <1>1
<1> QED
  BY <1>2, <1>3 DEF QueueOrder

LEMMA QueueTaken ==
    ASSUME TypeOK, QueueInv, NextStep
    PROVE  QueueInv'
<1>1. /\ frame'.pc = "start" /\ frame'.cur = frame.todo[1] /\ frame.pc = "next"
      /\ 1 \in DOMAIN frame.todo /\ frame'.new = frame.new
      /\ DOMAIN frame.todo = 1 .. Len(frame.todo) /\ Len(frame.todo) \in Nat
      /\ DOMAIN frame'.todo = 1 .. Len(frame.todo) - 1
      /\ \A k \in DOMAIN frame'.todo :
           k + 1 \in DOMAIN frame.todo /\ frame'.todo[k] = frame.todo[k + 1]
      /\ Queued = Queued' \cup {frame'.cur}
  BY NextFacts DEF NextStep, TakeStep, At, TypeOK, FrameType
<1>2. steps' = steps /\ Mine' = Mine /\ Planned' = Planned
  BY DEF NextStep, TakeStep, OnlyFrame, stores, Mine, Planned
<1>3. QueueOrder'
  <2>1. \A i, j \in DOMAIN frame'.todo : j < i => j + 1 < i + 1
    BY <1>1
  <2>2. \A i, j \in DOMAIN frame'.todo : j < i =>
          /\ frame.todo[j + 1] # frame.todo[i + 1]
          /\ steps[frame.todo[i + 1]].dynamic => steps[frame.todo[j + 1]].dynamic
    BY <1>1, <2>1 DEF QueueInv, QueueOrder
  <2>3. \A s \in Queued' : s \in Mine' /\ steps'[s].status = "PENDING"
    BY <1>1, <1>2 DEF QueueInv, QueueOrder
  <2>4. \A i, j \in DOMAIN frame'.todo : j < i =>
          /\ frame'.todo[j] # frame'.todo[i]
          /\ steps'[frame'.todo[i]].dynamic => steps'[frame'.todo[j]].dynamic
    <3> TAKE i, j \in DOMAIN frame'.todo
    <3>1. frame'.todo[i] = frame.todo[i + 1] /\ frame'.todo[j] = frame.todo[j + 1]
      BY <1>1
    <3> QED
      BY <1>2, <2>2, <3>1
  <2> QED
    BY <2>3, <2>4 DEF QueueOrder
<1>4. frame'.cur \notin Queued'
  <2>1. \A k \in DOMAIN frame'.todo : 1 < k + 1
    BY <1>1
  <2>2. \A k \in DOMAIN frame'.todo : frame.todo[k + 1] # frame.todo[1]
    BY <1>1, <2>1 DEF QueueInv, QueueOrder
  <2> QED
    BY <1>1, <2>2 DEF Queued, Entries
<1>5. Entries(frame'.new) = Entries(frame.new)
  BY <1>1
<1> QED
  BY <1>1, <1>2, <1>3, <1>4 DEF QueueInv, OnStep

LEMMA QueueCreated ==
    ASSUME TypeOK, FrameInv, QueueInv, CreateStep
    PROVE  QueueInv'
<1>0. /\ frame.pc = "create" /\ attempt' = attempt /\ frame.todo \in Seq(Nat)
      /\ steps \in Seq(StepType) /\ Mine = Planned /\ QueueOrder /\ frame.new = <<>>
  BY DEF CreateStep, At, OnlySteps, TypeOK, FrameType, FrameInv, QueueInv
<1>1. PICK n, order :
        /\ frame'.new = frame.new /\ Added(n, order, FALSE)
        /\ frame'.todo = Append(frame.todo, n) /\ Queued' = Queued \cup {n}
        /\ frame'.pc \in {"create", "next"}
  BY CreateFacts DEF TypeOK, FrameType
<1>2. n \in Nat
  BY <1>1 DEF Added
<1>3. /\ Mine' = Mine \cup {n} /\ n \notin Mine /\ steps'[n].dynamic = FALSE
      /\ steps'[n].status = "PENDING"
      /\ \A s \in DOMAIN steps : steps'[s] = steps[s]
  <2>1. Added(n, order, FALSE) /\ attempt' = attempt
    BY <1>0, <1>1
  <2>2. \A s \in DOMAIN steps : steps'[s] = steps[s]
    BY <2>1 DEF Added
  <2> QED
    BY <2>1, <2>2, MineAdded
<1>4. PICK m : m = Len(frame.todo)
  OBVIOUS
<1>5. /\ DOMAIN frame'.todo = DOMAIN frame.todo \cup {m + 1}
      /\ frame'.todo[m + 1] = n /\ \A j \in DOMAIN frame.todo : frame'.todo[j] = frame.todo[j]
      /\ DOMAIN frame.todo = 1 .. m /\ m \in Nat
  BY <1>0, <1>1, <1>2, <1>4, AppendedSeq, LenProperties
<1>6. \A s \in Mine : /\ steps'[s] = steps[s] /\ ~steps[s].dynamic
  BY <1>0, <1>3, QueuedFacts DEF Planned
<1>7. \A s \in Mine' : ~steps'[s].dynamic
  BY <1>3, <1>6
<1>8. Mine' = Planned'
  BY <1>7 DEF Planned
<1>9. \A s \in Queued' : s \in Mine' /\ steps'[s].status = "PENDING"
  BY <1>0, <1>1, <1>3, <1>6 DEF QueueOrder
<1>10. \A i \in DOMAIN frame'.todo : frame'.todo[i] \in Queued'
  BY DEF Queued, Entries
<1>11. \A i, j \in DOMAIN frame'.todo : j < i => frame'.todo[j] # frame'.todo[i]
  <2> SUFFICES ASSUME NEW i \in DOMAIN frame'.todo, NEW j \in DOMAIN frame'.todo, j < i
               PROVE  frame'.todo[j] # frame'.todo[i]
    OBVIOUS
  <2>1. j \in DOMAIN frame.todo /\ (i \in DOMAIN frame.todo \/ i = m + 1)
    BY <1>5
  <2>2. frame.todo[j] \in Mine
    BY <1>0, <2>1 DEF QueueOrder, Queued, Entries
  <2>3. CASE i \in DOMAIN frame.todo
    BY <1>0, <1>5, <2>1, <2>3 DEF QueueOrder
  <2>4. CASE i = m + 1
    BY <1>3, <1>5, <2>1, <2>2, <2>4
  <2> QED
    BY <2>1, <2>3, <2>4
<1>12. QueueOrder'
  BY <1>7, <1>9, <1>10, <1>11 DEF QueueOrder
<1> QED
  BY <1>0, <1>1, <1>8, <1>12, NoSteps DEF QueueInv, OnStep

(* The same for its users: row n joins the rows new of the decision.       *)
Injects(n, new, order) ==
    /\ n = Len(steps) + 1 /\ new = Append(frame.new, n)
    /\ order = frame.nextOrder + Len(frame.new) /\ order \in Nat
    /\ Added(n, order, TRUE)
    /\ Len(frame.new) \in Nat /\ Len(new) = Len(frame.new) + 1 /\ Len(new) <= MaxInject
    /\ DOMAIN frame.new = 1 .. Len(frame.new) /\ DOMAIN new = 1 .. Len(new)
    /\ new[Len(new)] = n /\ \A k \in DOMAIN frame.new : new[k] = frame.new[k]
    /\ \/ /\ frame' = [frame EXCEPT !.new = new, !.more = @ - 1] /\ frame'.new = new
          /\ Queued' = Queued
       \/ /\ frame' = [frame EXCEPT !.new = <<>>, !.more = 0, !.pc = "next",
                                    !.todo = frame'.todo,
                                    !.nextOrder = @ + Len(new), !.replans = @ + 1]
          /\ frame'.todo = new \o frame.todo
          /\ Queued' = Entries(new) \cup Queued

LEMMA InjectCases ==
    ASSUME TypeOK, FrameInv, InjectStep
    PROVE  \E n, new, order : Injects(n, new, order)
<1> DEFINE n == Len(steps) + 1
           new == Append(frame.new, n)
           order == frame.nextOrder + Len(frame.new)
<1>1. Injects(n, new, order)
  BY InjectFacts DEF Injects
<1> HIDE DEF n, new, order
<1> QED
  BY <1>1

LEMMA QueueInjected ==
    ASSUME TypeOK, FrameInv, QueueInv, InjectStep
    PROVE  QueueInv'
<1>0. /\ frame.pc = "inject" /\ attempt' = attempt /\ frame.todo \in Seq(Nat)
      /\ frame.new \in Seq(Nat) /\ frame \in FrameType /\ QueueOrder
  BY DEF InjectStep, InjectStepAt, At, OnlySteps, TypeOK, FrameType, QueueInv
<1>1. PICK n, new, order : Injects(n, new, order)
  BY InjectCases
<1>1a. Added(n, order, TRUE)
  BY <1>1 DEF Injects
<1>2. n \in Nat /\ n \notin DOMAIN steps /\ \A s \in DOMAIN steps : steps'[s] = steps[s]
  BY <1>1a DEF Added
<1>3. /\ Mine' = Mine \cup {n} /\ n \notin Mine /\ steps'[n].dynamic = TRUE
      /\ steps'[n].status = "PENDING"
  BY <1>0, <1>1a, MineAdded
<1> USE DEF Injects
<1>4. new \in Seq(Nat)
  BY <1>0, <1>1, <1>2, AppendedSeq
<1>5. /\ \A s \in Mine : steps'[s] = steps[s] /\ s \in Mine' /\ s # n
      /\ Queued \subseteq Mine /\ \A k \in DOMAIN frame.new : frame.new[k] \in Mine
  BY <1>0, <1>2, <1>3, QueuedFacts DEF QueueInv
<1>6. \A k \in DOMAIN new : (k \in DOMAIN frame.new /\ new[k] = frame.new[k]) \/ k = Len(new)
  <2>1. PICK l : l = Len(frame.new)
    OBVIOUS
  <2>2. \A k \in 1 .. l + 1 : k \in 1 .. l \/ k = l + 1
    BY <1>1, <2>1
  <2> QED
    BY <1>1, <2>1, <2>2
<1>7. \A k \in DOMAIN new :
        /\ new[k] \in Mine' /\ new[k] \notin Queued
        /\ steps'[new[k]].status = "PENDING" /\ steps'[new[k]].dynamic
  <2> SUFFICES ASSUME NEW k \in DOMAIN new
               PROVE  /\ new[k] \in Mine' /\ new[k] \notin Queued
                      /\ steps'[new[k]].status = "PENDING" /\ steps'[new[k]].dynamic
    OBVIOUS
  <2>1. CASE k \in DOMAIN frame.new /\ new[k] = frame.new[k]
    <3>1. /\ new[k] \in Mine /\ new[k] \notin Queued
          /\ steps[new[k]].status = "PENDING" /\ steps[new[k]].dynamic
      BY <2>1 DEF QueueInv
    <3> QED
      BY <1>5, <3>1
  <2>2. CASE k = Len(new)
    BY <1>1, <1>3, <1>5, <2>2
  <2> QED
    BY <1>6, <2>1, <2>2
<1>8. \A j, k \in DOMAIN new : new[j] = new[k] => j = k
  BY <1>1, <1>5, <1>6 DEF QueueInv
<1>9. CASE frame' = [frame EXCEPT !.new = new, !.more = @ - 1] /\ Queued' = Queued
           /\ frame'.new = new
  <2>1. frame'.pc = "inject" /\ frame'.todo = frame.todo
    BY <1>0, <1>9 DEF FrameType
  <2>2. QueueOrder'
    BY <1>0, <1>5, <2>1, KeptQueue
  <2> QED
    BY <1>7, <1>8, <1>9, <2>1, <2>2 DEF QueueInv, OnStep
<1>10. CASE /\ frame' = [frame EXCEPT !.new = <<>>, !.more = 0, !.pc = "next",
                                      !.todo = frame'.todo,
                                      !.nextOrder = @ + Len(new), !.replans = @ + 1]
            /\ frame'.todo = new \o frame.todo
            /\ Queued' = Entries(new) \cup Queued
  <2>1. frame'.pc = "next" /\ frame'.new = <<>>
    BY <1>0, <1>10 DEF FrameType
  <2>2. PICK q, m, l : q = new \o frame.todo /\ m = Len(new) /\ l = Len(frame.todo)
    OBVIOUS
  <2>3. /\ DOMAIN q = 1 .. m + l /\ m \in Nat /\ l \in Nat
        /\ \A k \in 1 .. m : q[k] = new[k]
        /\ \A k \in 1 .. l : q[m + k] = frame.todo[k]
        /\ \A k \in DOMAIN q : k \in 1 .. m \/ (k - m \in 1 .. l /\ m + (k - m) = k)
    BY <1>0, <1>4, <2>2, JoinedSeq
  <2>4. DOMAIN frame.todo = 1 .. l /\ DOMAIN new = 1 .. m
    BY <1>0, <1>1, <2>2, LenProperties
  <2>5. \A s \in Queued' : s \in Mine' /\ steps'[s].status = "PENDING"
    BY <1>0, <1>5, <1>7, <1>10 DEF QueueOrder, Entries
  <2>6. ASSUME NEW i \in DOMAIN q, NEW j \in DOMAIN q, j < i
        PROVE  /\ q[j] # q[i]
               /\ steps'[q[i]].dynamic => steps'[q[j]].dynamic
    <3>1. CASE i \in 1 .. m
      <4>1. j \in 1 .. m /\ j # i
        BY <2>3, <2>6, <3>1
      <4> QED
        BY <1>7, <1>8, <2>3, <2>4, <3>1, <4>1
    <3>2. CASE i - m \in 1 .. l /\ m + (i - m) = i
      <4>1. q[i] = frame.todo[i - m] /\ frame.todo[i - m] \in Queued
        BY <2>3, <2>4, <3>2 DEF Queued, Entries
      <4>2. CASE j \in 1 .. m
        BY <1>7, <2>3, <2>4, <4>1, <4>2
      <4>3. CASE j - m \in 1 .. l /\ m + (j - m) = j
        <5>1. q[j] = frame.todo[j - m] /\ frame.todo[j - m] \in Queued
          BY <2>3, <2>4, <4>3 DEF Queued, Entries
        <5>2. j - m < i - m
          BY <2>3, <2>6
        <5>3. /\ frame.todo[j - m] # frame.todo[i - m]
              /\ steps[frame.todo[i - m]].dynamic => steps[frame.todo[j - m]].dynamic
          BY <1>0, <2>4, <3>2, <4>3, <5>2 DEF QueueOrder
        <5> QED
          BY <1>5, <4>1, <5>1, <5>3
      <4> QED
        BY <2>3, <4>2, <4>3
    <3> QED
      BY <2>3, <3>1, <3>2
  <2>7. QueueOrder'
    BY <1>10, <2>2, <2>5, <2>6 DEF QueueOrder
  <2> QED
    BY <2>1, <2>7, NoSteps DEF QueueInv, OnStep
<1> QED
  BY <1>1, <1>9, <1>10

LEMMA QueueStep ==
    ASSUME TypeOK, FrameInv, RowsInv, QueueInv, [Next]_vars
    PROVE  QueueInv'
<1>0. QueueOrder /\ Queued \subseteq Mine /\ FrameInv' /\ attempt \in Nat
  BY QueuedFacts, TypeStep, FaultsCount DEF QueueInv
<1>1. CASE UNCHANGED vars
  <2>1. frame' = frame /\ steps' = steps /\ attempt' = attempt
    BY <1>1 DEF vars
  <2> QED
    BY <2>1 DEF QueueInv, QueueOrder, Queued, Mine, Planned
<1>2. ASSUME steps' = steps, attempt' = attempt
      PROVE  Mine' = Mine /\ Planned' = Planned
  BY <1>2 DEF Mine, Planned
<1>3. CASE Quiet
  <2>1. /\ steps' = steps /\ attempt' = attempt /\ frame'.pc \notin OnStep
        /\ frame'.pc # "plan" /\ frame'.new = <<>>
        /\ frame'.pc = "savePlan" => frame.pc = "plan"
        /\ frame'.pc = "create" => frame.pc = "savePlan"
        /\ frame' = Idle \/ frame'.todo = frame.todo
    BY <1>3, QuietFacts
  <2>2. QueueOrder'
    <3>1. CASE frame' = Idle
      <4>1. Queued' = {} /\ DOMAIN frame'.todo = {}
        BY <3>1, IdleFacts, EmptyEntries, NoSteps DEF Queued
      <4> QED
        BY <4>1 DEF QueueOrder
    <3>2. CASE frame'.todo = frame.todo
      BY <1>0, <1>2, <2>1, <3>2, KeptQueue
    <3> QED
      BY <2>1, <3>1, <3>2
  <2>3. frame'.pc \in {"savePlan", "create"} => Mine = {}
    BY <2>1 DEF QueueInv
  <2>4. Mine = {} => Planned = {}
    BY DEF Planned
  <2> QED
    BY <1>2, <2>1, <2>2, <2>3, <2>4, NoSteps DEF QueueInv
<1>4. CASE GoesOn
  <2>1. /\ steps' = steps /\ attempt' = attempt /\ frame.pc \in OnStep
        /\ frame'.pc \in OnStep \ {"plan", "savePlan", "create"}
        /\ frame'.cur = frame.cur /\ frame'.todo = frame.todo /\ frame'.new = frame.new
        /\ frame.new = <<>>
    BY <1>4, GoesOnFacts DEF OnStep, FrameInv
  <2>2. QueueOrder' /\ Queued' = Queued
    BY <1>0, <1>2, <2>1, KeptQueue
  <2> QED
    BY <1>2, <2>1, <2>2, NoSteps DEF QueueInv
<1>5. CASE OneStep
  <2>1. /\ Changed(frame.cur) /\ frame.cur \in DOMAIN steps /\ frame.pc \in OnStep
        /\ frame'.pc \notin {"plan", "savePlan", "create"}
        /\ frame'.cur = frame.cur /\ frame'.todo = frame.todo /\ frame'.new = frame.new
        /\ frame.new = <<>>
    BY <1>5, OneStepFacts DEF OnStep, FrameInv
  <2>2. Mine' = Mine /\ frame.cur \notin Queued /\ Mine \subseteq DOMAIN steps
    BY <1>0, <1>5, <2>1, MineChanged, QueuedFacts DEF QueueInv
  <2>3. QueueOrder' /\ Queued' = Queued
    BY <1>0, <2>1, <2>2, KeptQueue DEF Changed
  <2> QED
    BY <2>1, <2>2, <2>3, NoSteps DEF QueueInv
<1>6. CASE Begin
  <2>1. /\ steps' = steps /\ attempt' = attempt + 1 /\ frame'.pc = "plan"
        /\ frame'.todo = <<>> /\ frame'.new = <<>>
    BY <1>6, IdleFacts DEF Begin, At, Goto, FrameInv, TypeOK, FrameType
  <2>2. Mine' = {}
    BY <1>0, <2>1, RowFacts DEF RowsInv, Mine, StepType
  <2>3. Queued' = {} /\ DOMAIN frame'.todo = {}
    BY <2>1, EmptyEntries, NoSteps DEF Queued
  <2> QED
    BY <2>1, <2>2, <2>3, NoSteps DEF QueueInv, QueueOrder, OnStep
<1>7. CASE CreateStep \/ NextStep \/ InjectStep
  BY <1>7, QueueCreated, QueueTaken, QueueInjected
<1>8. CASE Unwinds
  <2>1. /\ steps' = steps /\ attempt' = attempt
        /\ frame'.cur = frame.cur /\ frame'.todo = frame.todo
        /\ frame'.pc \in OnStep => frame.pc \in OnStep
        /\ frame'.pc \in {"tool", "fallback", "skipAgain", "next", "dbOutcome", "return"}
    BY <1>8, UnwindPcs DEF OnStep
  <2>2. frame'.new = <<>>
    BY <1>0, <2>1 DEF FrameInv
  <2>3. QueueOrder' /\ Queued' = Queued
    BY <1>0, <1>2, <2>1, KeptQueue
  <2> QED
    BY <1>2, <2>1, <2>2, <2>3, NoSteps DEF QueueInv
<1> QED
  BY <1>1, <1>3, <1>4, <1>5, <1>6, <1>7, <1>8, RowCases

-----------------------------------------------------------------------------
(* The context.                                                            *)

(* A new attempt starts without a row of its own.                          *)
LEMMA BeginFacts ==
    ASSUME TypeOK, FrameInv, RowsInv, Begin
    PROVE  /\ steps' = steps /\ context' = context /\ attempt' = attempt + 1
           /\ faults' = faults /\ status' = "RUNNING"
           /\ frame' = [Idle EXCEPT !.pc = "plan"]
           /\ frame'.pc = "plan" /\ frame'.outcome = "none" /\ frame'.replans = 0
           /\ frame'.todo = <<>> /\ frame'.new = <<>>
           /\ Mine' = {} /\ Planned' = {} /\ Taken' = {}
<1>1. /\ steps' = steps /\ context' = context /\ attempt' = attempt + 1
      /\ faults' = faults /\ status' = "RUNNING" /\ frame' = [Idle EXCEPT !.pc = "plan"]
      /\ attempt \in Nat
  BY FaultsCount DEF Begin, At, Goto, FrameInv
<1>2. \A i \in DOMAIN steps : steps[i].attempt # attempt + 1
  BY <1>1, RowFacts DEF RowsInv, StepType
<1>3. Mine' = {}
  BY <1>1, <1>2 DEF Mine
<1>4. /\ frame'.pc = "plan" /\ frame'.outcome = "none" /\ frame'.replans = 0
      /\ frame'.todo = <<>> /\ frame'.new = <<>>
  BY <1>1 DEF Idle
<1> QED
  BY <1>1, <1>3, <1>4 DEF Planned, Taken

(* The new rows that CreateStep and InjectStep make.                       *)
LEMMA NewRowFacts ==
    ASSUME TypeOK, FrameInv, CreateStep \/ InjectStep
    PROVE  /\ \E n, order, dynamic : Added(n, order, dynamic) /\ (dynamic => InjectStep)
           /\ UNCHANGED <<status, context, attempt, faults>>
           /\ \/ frame.pc = "create" /\ frame'.pc \in {"create", "next"}
              \/ frame.pc = "inject" /\ frame'.pc \in {"inject", "next"}
           /\ frame'.outcome = frame.outcome
<1>1. frame \in FrameType
  BY DEF TypeOK
<1>2. /\ UNCHANGED <<status, context, attempt, faults>>
      /\ \/ frame.pc = "create" /\ frame'.pc \in {"create", "next"}
         \/ frame.pc = "inject" /\ frame'.pc \in {"inject", "next"}
      /\ frame'.outcome = frame.outcome
  BY <1>1 DEF CreateStep, InjectStep, InjectStepAt, At, OnlySteps, FrameType
<1>3. CASE CreateStep
  BY <1>2, <1>3, CreateFacts
<1>4. CASE InjectStep
  BY <1>2, <1>4, InjectFacts
<1> QED
  BY <1>3, <1>4

LEMMA ContextAppended ==
    ASSUME TypeOK, FrameInv, RowsInv, ContextInv, AppendContext
    PROVE  ContextInv'
<1>1. /\ frame.cur \in Mine /\ frame.cur \in DOMAIN steps /\ attempt' = attempt
      /\ frame.pc = "append" /\ frame'.pc \in {"next", "replan"} /\ steps' = steps
      /\ steps[frame.cur].status = "COMPLETED"
  BY OneStepFacts DEF OneStep, RowsInv, AppendContext, At
<1>2. context \in Seq(Nat) /\ frame.cur \in Nat /\ context' = Append(context, frame.cur)
  BY DEF AppendContext, TypeOK, FrameType
<1>3. frame.cur \notin Listed
  BY <1>1 DEF ContextInv, Owing, Looping, OnStep
<1>4. PICK n : /\ DOMAIN context' = DOMAIN context \cup {n} /\ n \notin DOMAIN context
               /\ context'[n] = frame.cur
               /\ \A k \in DOMAIN context : context'[k] = context[k]
  BY <1>2, AppendedSeq
<1>5. \A k \in DOMAIN context : context[k] \in Listed
  BY DEF Listed, Entries
<1>6. Listed' = Listed \cup {frame.cur}
  BY <1>4 DEF Listed, Entries
<1>7. \A k, l \in DOMAIN context' : context'[k] = context'[l] => k = l
  BY <1>3, <1>4, <1>5 DEF ContextInv
<1>8. Mine' = Mine
  BY <1>1 DEF Mine
<1>9. \A i \in Mine' : i \in Listed' <=> steps'[i].status = "COMPLETED"
  BY <1>1, <1>6, <1>8 DEF ContextInv, Owing, Looping, OnStep
<1> QED
  BY <1>1, <1>6, <1>7, <1>9 DEF ContextInv, Owing

LEMMA ContextStep ==
    ASSUME TypeOK, FrameInv, RowsInv, QueueInv, ContextInv, [Next]_vars
    PROVE  ContextInv'
<1> DEFINE Told(i) == i \in Listed <=> /\ steps[i].status = "COMPLETED"
                                       /\ ~(frame.pc \in Owing /\ i = frame.cur)
<1>1. ASSUME context' = context, DOMAIN steps \subseteq DOMAIN steps',
             frame'.pc \in Planning \cup Looping => \A i \in Mine' : Told(i)'
      PROVE  ContextInv'
  <2>1. Listed' = Listed
    BY <1>1 DEF Listed
  <2> QED
    BY <1>1, <2>1 DEF ContextInv
<1>2. ASSUME context' = context PROVE Listed' = Listed
  BY <1>2 DEF Listed
<1>3. ASSUME steps' = steps, attempt' = attempt PROVE Mine' = Mine
  BY <1>3 DEF Mine
<1>4. CASE UNCHANGED vars
  BY <1>4 DEF vars, ContextInv, Listed, Mine
<1>5. CASE Quiet
  <2>1. /\ context' = context /\ steps' = steps /\ attempt' = attempt
        /\ frame'.pc \notin Owing
        /\ frame'.pc \in Planning \cup Looping => frame.pc \in {"plan", "savePlan", "replan"}
    BY <1>5, QuietFacts DEF Planning, Looping, OnStep, Owing
  <2> QED
    BY <1>1, <1>2, <1>3, <2>1 DEF ContextInv, Planning, Looping, OnStep, Owing
<1>6. CASE GoesOn
  <2>1. /\ context' = context /\ steps' = steps /\ attempt' = attempt
        /\ frame'.cur = frame.cur /\ frame.pc \in Looping
        /\ frame'.pc \in Owing <=> frame.pc \in Owing
    BY <1>6, GoesOnFacts DEF Looping, OnStep, Owing
  <2> QED
    BY <1>1, <1>2, <1>3, <2>1 DEF ContextInv
<1>7. CASE OneStep /\ frame.pc # "append"
  <2>0. PICK c : c = frame.cur
    OBVIOUS
  <2>1. /\ context' = context /\ Mine' = Mine /\ c \in Mine /\ frame'.cur = c
        /\ c \in DOMAIN steps /\ DOMAIN steps' = DOMAIN steps /\ steps[c] \in StepType
        /\ \A j \in DOMAIN steps : j # c => steps'[j] = steps[j]
    BY <1>7, <2>0, OneStepFacts, MineChanged, RowFacts DEF Changed
  <2>2. /\ frame.pc \in Looping
        /\ \/ frame.pc = "complete" /\ frame'.pc \in Owing
           \/ /\ frame'.pc \notin Owing /\ steps'[c].status # "COMPLETED"
              /\ frame.pc \in Owing \/ steps[c].status # "COMPLETED"
    <3>1. CASE frame.pc = "start"
      BY <1>7, <2>0, <2>1, <3>1, OneStepFacts DEF Looping, OnStep, Owing, RowsInv, StepType
    <3>2. CASE frame.pc # "start"
      <4>1. \/ /\ frame.pc = "record" /\ frame'.pc = "agent"
               /\ steps'[c] = [steps[c] EXCEPT !.calls = @ + 1]
            \/ frame.pc = "complete" /\ frame'.pc = "append"
            \/ /\ frame.pc \in {"skip", "skipAgain"} /\ frame'.pc = "next"
               /\ steps'[c] = [steps[c] EXCEPT !.status = "SKIPPED"]
        BY <1>7, <2>0, <3>2, OneStepFacts
      <4>2. frame.pc = "record" => steps[c].status = "RUNNING"
        BY <2>0 DEF RowsInv
      <4> QED
        BY <2>1, <4>1, <4>2 DEF Looping, OnStep, Owing, StepType
    <3> QED
      BY <3>1, <3>2
  <2>3. \A i \in Mine : i # c => Told(i)'
    BY <1>2, <2>0, <2>1, <2>2 DEF ContextInv, Mine
  <2>4. Told(c)'
    <3>1. c \in Listed <=> steps[c].status = "COMPLETED" /\ frame.pc \notin Owing
      BY <2>0, <2>1, <2>2 DEF ContextInv
    <3>2. frame.pc = "complete" => steps[c].status = "RUNNING"
      BY <2>0 DEF RowsInv
    <3> QED
      BY <1>2, <2>1, <2>2, <3>1, <3>2
  <2> QED
    BY <1>1, <2>1, <2>3, <2>4
<1>8. CASE OneStep /\ frame.pc = "append"
  <2>1. AppendContext
    BY <1>8 DEF OneStep, StartStep, RecordCall, CompleteStep, SkipStep, At
  <2> QED
    BY <2>1, ContextAppended
<1>9. CASE Begin
  BY <1>1, <1>9, BeginFacts
<1>10. CASE CreateStep \/ InjectStep
  <2>1. PICK n, order, dynamic : Added(n, order, dynamic)
    BY <1>10, NewRowFacts
  <2>2. /\ context' = context /\ attempt' = attempt /\ frame.pc \in Planning \cup Looping
        /\ frame.pc \notin Owing /\ frame'.pc \notin Owing
    BY <1>10, NewRowFacts DEF Planning, Looping, Owing
  <2>3. /\ Mine' = Mine \cup {n} /\ steps'[n].status = "PENDING"
        /\ n \notin DOMAIN steps /\ DOMAIN steps \subseteq DOMAIN steps'
        /\ \A i \in Mine : steps'[i] = steps[i]
    BY <2>1, <2>2, MineAdded DEF Added, Mine
  <2>4. \A i \in Mine' : Told(i)'
    BY <1>2, <2>2, <2>3 DEF ContextInv
  <2> QED
    BY <1>1, <2>2, <2>3, <2>4
<1>11. CASE NextStep
  <2>1. /\ context' = context /\ steps' = steps /\ attempt' = attempt
        /\ frame.pc = "next" /\ frame'.pc = "start"
    BY <1>11, NextFacts DEF NextStep, TakeStep, At, OnlyFrame, stores, TypeOK, FrameType
  <2> QED
    BY <1>1, <1>2, <1>3, <2>1 DEF ContextInv, Looping, Owing
<1>12. CASE Unwinds
  <2>1. /\ context' = context /\ steps' = steps /\ attempt' = attempt
        /\ frame'.cur = frame.cur
    BY <1>12, UnwindPcs
  <2>2. CASE frame'.pc \in Planning \cup Looping
    <3>1. /\ frame.pc \in Looping
          /\ frame.pc \in Owing => frame'.pc \in Owing
          /\ frame'.pc \in Owing /\ frame.pc \notin Owing => frame.pc \in {"agent", "complete"}
      BY <1>12, <2>2, UnwindPcs DEF Planning, Looping, OnStep, Owing
    <3>2. frame.pc \in {"agent", "complete"} => steps[frame.cur].status = "RUNNING"
      BY DEF RowsInv
    <3> QED
      BY <1>1, <1>2, <1>3, <2>1, <3>1, <3>2 DEF ContextInv
  <2> QED
    BY <1>1, <2>1, <2>2
<1> QED
  BY <1>4, <1>5, <1>6, <1>7, <1>8, <1>9, <1>10, <1>11, <1>12, RowCases

-----------------------------------------------------------------------------
(* No step is forgotten.                                                   *)

LEMMA WorkIsOpen ==
    ASSUME TypeOK, FrameInv, StoreInv, Works
    PROVE  "COMPLETED" \notin {frame'.outcome, status'} /\ faults' = faults
<1>1. /\ frame.pc \in Planning \cup Looping /\ status' = status /\ faults' = faults
      /\ frame'.outcome = frame.outcome
  BY WorkFacts
<1>2. frame.pc \notin Ending
  BY <1>1 DEF Planning, Looping, OnStep, Ending
<1> QED
  BY <1>1, <1>2 DEF FrameInv, StoreInv

(* What is still to be done after a step.                                  *)
LEMMA OpenAdded ==
    ASSUME TypeOK, FrameInv, StoreInv, OpenInv, CreateStep \/ InjectStep
    PROVE  OpenInv'
<1>1. /\ "COMPLETED" \notin {frame'.outcome, status'} /\ faults' = faults
      /\ attempt' = attempt /\ frame.pc \in Planning \cup Looping /\ frame.pc \notin OnStep
  BY WorkIsOpen, NewRowFacts DEF Works, Planning, Looping, OnStep
<1>2. PICK n : /\ Mine' = Mine \cup {n} /\ Queued \cup Injected \cup {n} \subseteq Queued' \cup Injected'
               /\ \A i \in Mine : steps'[i] = steps[i]
  <2>1. CASE CreateStep
    <3>1. PICK n, order : /\ Added(n, order, FALSE) /\ Queued' = Queued \cup {n}
      BY <2>1, CreateFacts
    <3>2. frame.new = <<>>
      BY <2>1 DEF CreateStep, At, FrameInv
    <3>3. Injected = {}
      BY <3>2, EmptyEntries DEF Injected
    <3>4. Mine' = Mine \cup {n} /\ \A i \in Mine : steps'[i] = steps[i]
      BY <1>1, <3>1, MineAdded DEF Added, Mine
    <3> QED
      BY <3>1, <3>3, <3>4
  <2>2. CASE InjectStep
    <3>1. PICK n, new, order : Injects(n, new, order)
      BY <2>2, InjectCases
    <3>2. Added(n, order, TRUE)
      BY <3>1 DEF Injects
    <3>3. Mine' = Mine \cup {n} /\ \A i \in Mine : steps'[i] = steps[i]
      BY <1>1, <3>2, MineAdded DEF Added, Mine
    <3>4. Injected \cup {n} \subseteq Entries(new)
      <4>1. DOMAIN frame.new \subseteq DOMAIN new /\ Len(new) \in DOMAIN new
        <5>1. PICK l : l = Len(frame.new)
          OBVIOUS
        <5>2. 1 .. l \subseteq 1 .. l + 1 /\ l + 1 \in 1 .. l + 1
          BY <3>1, <5>1 DEF Injects
        <5> QED
          BY <3>1, <5>1, <5>2 DEF Injects
      <4> QED
        BY <3>1, <4>1 DEF Injects, Injected, Entries
    <3>5. \/ Injected' = Entries(new) /\ Queued' = Queued
          \/ Queued' = Entries(new) \cup Queued
      BY <3>1 DEF Injects, Injected
    <3> QED
      BY <3>3, <3>4, <3>5
  <2> QED
    BY <2>1, <2>2
<1>3. \A i \in Mine : Settled(i) => Settled(i)'
  BY <1>1, <1>2 DEF Settled
<1>4. \A i \in Mine' : Settled(i)' \/ i \in Queued' \cup Injected'
  BY <1>1, <1>2, <1>3 DEF OpenInv
<1> QED
  BY <1>1, <1>4 DEF OpenInv

LEMMA OpenStep ==
    ASSUME TypeOK, FrameInv, StoreInv, RowsInv, QueueInv, OpenInv, [Next]_vars
    PROVE  OpenInv'
<1> DEFINE Done == "COMPLETED" \in {frame.outcome, status}
           Due(i) == \/ Settled(i) \/ i \in Queued \cup Injected
                     \/ frame.pc \in OnStep /\ i = frame.cur
<1>1. CASE UNCHANGED vars
  BY <1>1 DEF vars, OpenInv, Settled, Queued, Injected, Mine
<1>2. ASSUME steps' = steps, attempt' = attempt, faults' = faults
      PROVE  Mine' = Mine /\ \A i \in Mine : Settled(i)' <=> Settled(i)
  BY <1>2 DEF Mine, Settled
<1>3. ASSUME frame.new = <<>> PROVE Injected = {}
  BY <1>3, EmptyEntries DEF Injected
<1>4. CASE LoopEnds
  <2>1. /\ UNCHANGED <<steps, attempt, faults>>
        /\ frame.pc = "next" /\ frame'.pc = "dbOutcome" /\ frame.todo = <<>>
    BY <1>4 DEF LoopEnds, At, OnlyFrame, stores, TypeOK, FrameType
  <2>2. frame.new = <<>>
    BY <2>1 DEF FrameInv
  <2>3. Queued = {} /\ Injected = {}
    BY <1>3, <2>1, <2>2, EmptyEntries DEF Queued
  <2>4. \A i \in Mine : Settled(i)
    BY <2>1, <2>3 DEF OpenInv, Looping, OnStep
  <2> QED
    BY <1>2, <2>1, <2>4 DEF OpenInv, Planning, Looping, OnStep
<1>5. CASE Quiet /\ ~LoopEnds
  <2>1. /\ UNCHANGED <<steps, attempt, faults>> /\ frame'.pc \notin OnStep
        /\ frame'.pc \in Planning \cup Looping =>
             frame.pc \in {"plan", "savePlan", "replan"} /\ frame'.todo = frame.todo
    BY <1>5, QuietFacts, IdleFacts DEF Planning, Looping, OnStep
  <2>2. Done' => Done
    <3>1. frame \in FrameType
      BY DEF TypeOK
    <3>2. CASE Plan \/ SavePlan \/ Replan \/ WriteQuality
      BY <3>1, <3>2 DEF Plan, SavePlan, Replan, WriteQuality, Goto, OnlyFrame, stores, FrameType
    <3>3. CASE WriteOutcomeDb \/ WriteOutcomeRedis
      BY <3>1, <3>3 DEF WriteOutcomeDb, WriteOutcomeRedis, Goto, FrameType
    <3>4. CASE Return \/ Crash
      BY <3>4, IdleFacts DEF Return, Crash, OnlyFrame, stores
    <3> QED
      BY <1>5, <3>2, <3>3, <3>4 DEF Quiet
  <2>3. CASE frame'.pc \in Planning \cup Looping
    <3>1. frame.pc \in Planning \cup Looping /\ frame.pc \notin OnStep
      BY <2>1, <2>3 DEF Planning, Looping, OnStep
    <3>2. Queued' = Queued /\ Injected = {}
      BY <1>3, <2>1, <2>3 DEF Queued, FrameInv
    <3> QED
      BY <1>2, <2>1, <2>2, <3>1, <3>2 DEF OpenInv
  <2> QED
    BY <1>2, <2>1, <2>2, <2>3 DEF OpenInv
<1>6. CASE GoesOn
  <2>1. /\ UNCHANGED <<steps, attempt, faults>> /\ frame.pc \in OnStep
        /\ frame'.pc \in OnStep /\ frame'.cur = frame.cur
        /\ frame'.todo = frame.todo /\ frame'.new = frame.new
    BY <1>6, GoesOnFacts DEF OnStep
  <2>2. ~Done'
    BY <1>6, WorkIsOpen DEF Works, GoesOn
  <2>3. Queued' = Queued /\ Injected' = Injected
    BY <2>1 DEF Queued, Injected
  <2>4. \A i \in Mine' : Due(i)'
    BY <1>2, <2>1, <2>3 DEF OpenInv, Looping
  <2> QED
    BY <2>2, <2>4 DEF OpenInv
<1>7. CASE OneStep
  <2>0. PICK c : c = frame.cur
    OBVIOUS
  <2>1. /\ Mine' = Mine /\ c \in Mine /\ frame'.cur = c /\ c \in DOMAIN steps
        /\ \A j \in Mine : j # c => steps'[j] = steps[j]
        /\ frame'.todo = frame.todo /\ frame'.new = frame.new
    BY <1>7, <2>0, OneStepFacts, MineChanged DEF Changed, Mine
  <2>2. ~Done' /\ faults' = faults
    BY <1>7, WorkIsOpen DEF Works
  <2>3. Queued' = Queued /\ Injected' = Injected
    BY <2>1 DEF Queued, Injected
  <2>4. \A i \in Mine : i # c => Settled(i) \/ i \in Queued \cup Injected
    BY <1>7, <2>0, OneStepFacts DEF OpenInv, Looping, OnStep
  <2>5. \A i \in Mine : i # c => Settled(i)' \/ i \in Queued' \cup Injected'
    BY <2>1, <2>2, <2>3, <2>4 DEF Settled
  <2>6. frame'.pc \in OnStep \/ steps'[c].status \in Closed
    <3>1. steps[c] \in StepType
      BY <2>1, RowFacts
    <3>2. CASE frame.pc \in {"skip", "skipAgain"}
      <4>1. steps'[c] = [steps[c] EXCEPT !.status = "SKIPPED"]
        BY <1>7, <2>0, <3>2, OneStepFacts
      <4> QED
        BY <3>1, <4>1 DEF StepType, Closed
    <3>3. CASE frame.pc = "append"
      BY <1>7, <2>0, <3>3, OneStepFacts DEF Closed, RowsInv
    <3>4. CASE frame.pc \in {"start", "record", "complete"}
      BY <1>7, <3>4, OneStepFacts DEF OnStep
    <3> QED
      BY <1>7, <3>2, <3>3, <3>4, OneStepFacts
  <2>7. Due(c)'
    BY <2>1, <2>6 DEF Settled
  <2> QED
    BY <2>1, <2>2, <2>5, <2>7 DEF OpenInv
<1>8. CASE Begin
  BY <1>8, BeginFacts DEF OpenInv
<1>9. CASE CreateStep \/ InjectStep
  BY <1>9, OpenAdded
<1>10. CASE NextStep
  <2>1. /\ UNCHANGED <<steps, attempt, faults>> /\ frame.pc = "next"
        /\ frame'.pc = "start" /\ frame'.new = frame.new
        /\ Queued = Queued' \cup {frame'.cur}
    BY <1>10, NextFacts DEF NextStep, TakeStep, At, OnlyFrame, stores, TypeOK, FrameType
  <2>2. ~Done'
    BY <1>10, WorkIsOpen DEF Works
  <2>3. Injected' = Injected
    BY <2>1 DEF Injected
  <2>4. \A i \in Mine' : Due(i)'
    BY <1>2, <2>1, <2>3 DEF OpenInv, Looping, OnStep
  <2> QED
    BY <2>2, <2>4 DEF OpenInv
<1>11. CASE Unwinds
  <2>1. /\ UNCHANGED <<status, steps, attempt>> /\ faults' \in Nat /\ faults' <= faults
        /\ faults \in Nat /\ MaxStoreFaults \in Nat
        /\ frame.pc = "inject" => faults' < MaxStoreFaults
        /\ frame'.cur = frame.cur /\ frame'.todo = frame.todo
        /\ frame'.outcome # "COMPLETED" \/ frame'.outcome = frame.outcome
        /\ frame.pc # "inject" => frame.new = <<>>
    <3>1. /\ UNCHANGED <<status, steps, attempt>>
          /\ frame'.cur = frame.cur /\ frame'.todo = frame.todo
      BY <1>11, UnwindPcs
    <3>2. /\ faults' \in 0 .. MaxStoreFaults /\ faults' <= faults
          /\ frame.pc = "inject" => faults' < MaxStoreFaults
          /\ frame'.outcome # "COMPLETED" \/ frame'.outcome = frame.outcome
      BY <1>11 DEF Unwinds, Handled
    <3> QED
      <4>1. frame.pc # "inject" => frame.new = <<>>
        BY DEF FrameInv
      <4>2. faults \in Nat /\ MaxStoreFaults \in Nat /\ faults' \in Nat
        BY <3>2, FaultsCount
      <4> QED
        BY <3>1, <3>2, <4>1, <4>2
  <2>2. Mine' = Mine /\ Queued' = Queued
    BY <2>1 DEF Mine, Queued
  <2>3. \A i \in Mine : Settled(i) => Settled(i)'
    BY <2>1 DEF Settled
  <2>4. Done' => \A i \in Mine' : Settled(i)'
    BY <2>1, <2>2, <2>3 DEF OpenInv
  <2>5. ASSUME frame'.pc \in Planning \cup Looping
        PROVE  /\ frame.pc \in Planning \cup Looping
               /\ frame.pc \in OnStep => frame'.pc \in OnStep
    BY <1>11, <2>5, UnwindPcs DEF Planning, Looping, OnStep
  <2>6. \A i \in Injected : Settled(i)'
    <3>1. CASE frame.pc = "inject"
      BY <2>1, <3>1 DEF QueueInv, Injected, Entries, Settled
    <3>2. CASE frame.pc # "inject"
      BY <1>3, <2>1, <3>2
    <3> QED
      BY <3>1, <3>2
  <2>7. frame'.pc \in Planning \cup Looping => \A i \in Mine' : Due(i)'
    BY <2>1, <2>2, <2>3, <2>5, <2>6 DEF OpenInv
  <2> QED
    BY <2>4, <2>7 DEF OpenInv
<1> QED
  BY <1>1, <1>4, <1>5, <1>6, <1>7, <1>8, <1>9, <1>10, <1>11, RowCases

-----------------------------------------------------------------------------
(* The injected steps that are executed.                                   *)

(* The steps that neither add a row nor begin an attempt.                  *)
Keeps == Quiet \/ GoesOn \/ OneStep \/ NextStep \/ Unwinds

LEMMA KeepsFrame ==
    ASSUME TypeOK, FrameInv, RowsInv, Keeps
    PROVE  /\ frame'.new = <<>>
           /\ frame'.pc \in Looping =>
                /\ frame.pc \in Looping
                /\ frame'.nextOrder = frame.nextOrder /\ frame'.replans = frame.replans
           /\ frame'.pc \in Planning =>
                /\ frame.pc \in Planning /\ frame'.replans = frame.replans
                /\ frame'.todo = frame.todo
           /\ frame'.pc = "start" => NextStep
           /\ NextStep \/ Queued' \subseteq Queued
<1>0. frame \in FrameType
  BY DEF TypeOK
<1>1. CASE Quiet
  <2>1. /\ frame'.new = <<>> /\ frame'.pc \notin OnStep
        /\ frame'.pc \in Looping => frame.pc = "replan"
        /\ frame' = Idle \/ frame'.todo = frame.todo
    BY <1>1, QuietFacts
  <2>2. frame'.pc \in Planning =>
          frame.pc \in Planning /\ frame'.replans = frame.replans /\ frame'.todo = frame.todo
    <3>1. CASE frame' = Idle
      BY <3>1, IdleFacts DEF Planning
    <3>2. CASE frame' # Idle
      BY <1>0, <1>1, <3>2 DEF Quiet, Plan, SavePlan, Replan, LoopEnds, WriteQuality,
         WriteOutcomeDb, WriteOutcomeRedis, Return, Crash, At, Goto, FrameType, Planning
    <3> QED
      BY <3>1, <3>2
  <2>3. frame'.pc \in Looping =>
          frame'.nextOrder = frame.nextOrder /\ frame'.replans = frame.replans
    <3>1. CASE frame' = Idle
      BY <3>1, IdleFacts DEF Looping, OnStep
    <3>2. CASE frame' # Idle
      BY <1>0, <1>1, <2>1, <3>2 DEF Quiet, Plan, SavePlan, Replan, LoopEnds, WriteQuality,
         WriteOutcomeDb, WriteOutcomeRedis, Return, Crash, At, Goto, FrameType
    <3> QED
      BY <3>1, <3>2
  <2>4. Queued' \subseteq Queued
    BY <2>1, IdleFacts, EmptyEntries DEF Queued
  <2>5. frame'.pc # "start" /\ (frame'.pc \in Looping => frame.pc \in Looping)
    BY <2>1 DEF OnStep, Looping
  <2> QED
    BY <2>1, <2>2, <2>3, <2>4, <2>5
<1>2. CASE GoesOn
  <2>1. Queued' = Queued
    BY <1>2, GoesOnFacts DEF Queued
  <2> QED
    BY <1>2, <2>1, GoesOnFacts DEF FrameInv, Looping, OnStep, Planning
<1>3. CASE OneStep
  <2>1. /\ frame.pc \in OnStep /\ frame'.pc \in Looping \ {"start"}
        /\ frame'.todo = frame.todo /\ frame'.new = frame.new
        /\ frame'.nextOrder = frame.nextOrder /\ frame'.replans = frame.replans
    BY <1>3, OneStepFacts DEF OnStep, Looping
  <2>2. Queued' = Queued
    BY <2>1 DEF Queued
  <2> QED
    BY <2>1, <2>2 DEF FrameInv, Looping, OnStep, Planning
<1>4. CASE NextStep
  <2>1. frame.pc = "next"
    BY <1>4 DEF NextStep, TakeStep, At
  <2>2. /\ frame'.pc = "start" /\ frame'.new = frame.new
        /\ frame'.nextOrder = frame.nextOrder /\ frame'.replans = frame.replans
    BY <1>0, <1>4 DEF NextStep, TakeStep, FrameType
  <2> QED
    BY <1>4, <2>1, <2>2 DEF FrameInv, Looping, OnStep, Planning
<1>5. CASE Unwinds
  <2>1. /\ frame'.todo = frame.todo
        /\ frame'.nextOrder = frame.nextOrder /\ frame'.replans = frame.replans
        /\ frame'.pc \notin Planning \cup {"start"}
        /\ frame'.pc \in Looping => frame.pc \in Looping
    BY <1>5, UnwindPcs DEF Planning, Looping, OnStep
  <2>2. frame'.new = <<>>
    <3>1. frame'.new = IF frame.pc \in {"replan", "inject"} THEN <<>> ELSE frame.new
      BY <1>5 DEF Unwinds, Handled
    <3> QED
      BY <3>1 DEF FrameInv
  <2>3. Queued' = Queued
    BY <2>1 DEF Queued
  <2> QED
    BY <2>1, <2>2, <2>3
<1> QED
  BY <1>1, <1>2, <1>3, <1>4, <1>5 DEF Keeps

LEMMA KeepsTaken ==
    ASSUME TypeOK, FrameInv, RowsInv, Keeps
    PROVE  /\ Taken' \subseteq Taken /\ Mine' = Mine /\ Planned' = Planned
           /\ \A i \in Mine : /\ steps'[i].dynamic = steps[i].dynamic
                              /\ steps'[i].order = steps[i].order
<1>1. CASE OneStep
  <2>0. PICK c : c = frame.cur
    OBVIOUS
  <2>1. /\ Mine' = Mine /\ c \in Mine /\ Mine \subseteq DOMAIN steps
        /\ \A j \in Mine : j # c => steps'[j] = steps[j]
        /\ \A i \in Mine : /\ steps'[i].dynamic = steps[i].dynamic
                           /\ steps'[i].order = steps[i].order
    BY <1>1, <2>0, OneStepFacts, MineChanged DEF Changed, Mine
  <2>2. Queued' = Queued /\ frame'.pc # "start"
    BY <1>1, OneStepFacts DEF Queued
  <2>3. \A i \in Mine : i # c =>
          (i \in Taken' => i \in Taken)
    BY <2>0, <2>1, <2>2 DEF Taken
  <2>4. c \in Taken' => c \in Taken
    <3>1. frame.pc = "start" \/ steps[c].status # "PENDING"
      BY <1>1, <2>0, OneStepFacts DEF RowsInv
    <3> QED
      BY <2>0, <2>1, <3>1 DEF Taken
  <2>5. Taken' \subseteq Mine
    BY <2>1 DEF Taken
  <2> QED
    BY <2>1, <2>3, <2>4, <2>5 DEF Planned
<1>2. CASE Quiet \/ GoesOn \/ NextStep \/ Unwinds
  <2>1. steps' = steps /\ attempt' = attempt
    BY <1>2, QuietFacts, GoesOnFacts, UnwindPcs DEF NextStep, TakeStep, OnlyFrame, stores
  <2>2. Mine' = Mine /\ Planned' = Planned
    BY <2>1 DEF Mine, Planned
  <2>3. CASE NextStep
    <3>1. Queued = Queued' \cup {frame'.cur}
      BY <2>3, NextFacts
    <3> QED
      BY <2>1, <2>2, <3>1 DEF Taken
  <2>4. CASE ~NextStep
    <3>1. Queued' \subseteq Queued /\ frame'.pc # "start"
      BY <2>4, KeepsFrame
    <3> QED
      BY <2>1, <2>2, <3>1 DEF Taken
  <2> QED
    BY <2>1, <2>2, <2>3, <2>4
<1> QED
  BY <1>1, <1>2 DEF Keeps

LEMMA PlannedFinite ==
    ASSUME TypeOK
    PROVE  /\ IsFiniteSet(Planned) /\ Cardinality(Planned) \in Nat
           /\ IsFiniteSet(Taken) /\ Cardinality(Taken) \in Nat
           /\ \A i \in Mine : steps[i].order \in Nat
<1>1. DOMAIN steps = 1 .. Len(steps) /\ Len(steps) \in Nat
  <2>1. steps \in Seq(StepType)
    BY DEF TypeOK
  <2> QED
    BY <2>1, LenProperties
<1>2. IsFiniteSet(DOMAIN steps)
  BY <1>1, FS_Interval
<1>3. Planned \in SUBSET (DOMAIN steps) /\ Taken \in SUBSET (DOMAIN steps)
  BY DEF Planned, Taken, Mine
<1>4. IsFiniteSet(Planned) /\ IsFiniteSet(Taken)
  BY <1>2, <1>3, FS_Subset
<1>5. \A i \in Mine : steps[i].order \in Nat
  BY RowFacts DEF Mine, StepType
<1> QED
  BY <1>4, <1>5, FS_CardinalityType

LEMMA InjectTaken ==
    ASSUME TypeOK, FrameInv, QueueInv, OrderInv, NEW n, NEW new, NEW order,
           Injects(n, new, order), frame.pc = "inject", attempt' = attempt
    PROVE  /\ Planned' = Planned /\ Mine' = Mine \cup {n} /\ n \notin Mine
           /\ \A i \in Mine : steps'[i] = steps[i]
           /\ steps'[n].order = order
           /\ \A k \in DOMAIN new : steps'[new[k]].order = frame.nextOrder + (k - 1)
           /\ \/ /\ frame' = [frame EXCEPT !.new = new, !.more = @ - 1]
                 /\ Taken' \subseteq Taken
              \/ /\ frame' = [frame EXCEPT !.new = <<>>, !.more = 0, !.pc = "next",
                                           !.todo = frame'.todo,
                                           !.nextOrder = @ + Len(new), !.replans = @ + 1]
                 /\ Taken' \subseteq Taken \cup Entries(new)
<1>1. Added(n, order, TRUE) /\ frame \in FrameType
  BY DEF Injects, TypeOK
<1>2. /\ Mine' = Mine \cup {n} /\ n \notin Mine /\ \A i \in Mine : steps'[i] = steps[i]
      /\ steps'[n].order = order /\ steps'[n].dynamic = TRUE /\ steps'[n].status = "PENDING"
  <2>1. \A i \in Mine : steps'[i] = steps[i]
    BY <1>1 DEF Added, Mine
  <2> QED
    BY <1>1, <2>1, MineAdded
<1>3. Planned' = Planned
  BY <1>2 DEF Planned
<1>4. Queued \subseteq Mine
  BY QueuedFacts DEF QueueInv
<1>5. \A k \in DOMAIN new : steps'[new[k]].order = frame.nextOrder + (k - 1)
  <2> TAKE k \in DOMAIN new
  <2>1. PICK l : l = Len(frame.new)
    OBVIOUS
  <2>2. l \in Nat /\ DOMAIN new = 1 .. l + 1 /\ DOMAIN frame.new = 1 .. l
    BY <2>1 DEF Injects
  <2>3. CASE k = l + 1
    <3>1. new[k] = n /\ order = frame.nextOrder + l
      BY <2>1, <2>3 DEF Injects
    <3>2. k - 1 = l
      BY <2>2, <2>3
    <3> QED
      BY <1>2, <3>1, <3>2
  <2>4. CASE k # l + 1
    <3>1. k \in DOMAIN frame.new
      BY <2>2, <2>4
    <3>2. new[k] = frame.new[k] /\ frame.new[k] \in Mine
      BY <3>1 DEF Injects, QueueInv
    <3>3. steps[frame.new[k]].order = frame.nextOrder + k - 1
      BY <3>1 DEF OrderInv
    <3>4. frame.nextOrder \in Nat /\ k \in Int
      BY <1>1, <2>2 DEF FrameType
    <3> QED
      BY <1>2, <3>2, <3>3, <3>4
  <2> QED
    BY <2>3, <2>4
<1>6. CASE frame' = [frame EXCEPT !.new = new, !.more = @ - 1] /\ Queued' = Queued
  <2>1. frame'.pc = "inject"
    BY <1>1, <1>6 DEF FrameType
  <2>2. Taken' \subseteq Taken
    BY <1>2, <1>4, <1>6, <2>1 DEF Taken
  <2> QED
    BY <1>2, <1>3, <1>5, <1>6, <2>2
<1>7. CASE /\ frame' = [frame EXCEPT !.new = <<>>, !.more = 0, !.pc = "next",
                                     !.todo = frame'.todo,
                                     !.nextOrder = @ + Len(new), !.replans = @ + 1]
           /\ Queued' = Entries(new) \cup Queued
  <2>1. frame'.pc = "next"
    BY <1>1, <1>7 DEF FrameType
  <2>2. Taken' \subseteq Taken \cup Entries(new)
    BY <1>2, <1>4, <1>7, <2>1 DEF Taken
  <2> QED
    BY <1>2, <1>3, <1>5, <1>7, <2>2
<1> QED
  BY <1>6, <1>7 DEF Injects

LEMMA OrderCreated ==
    ASSUME TypeOK, FrameInv, QueueInv, OrderInv, CreateStep
    PROVE  OrderInv' /\ Taken' = {}
<1>1. /\ frame.pc = "create" /\ attempt' = attempt /\ Mine = Planned
      /\ frame.new = <<>> /\ frame.nextOrder \in Nat
  BY DEF CreateStep, At, OnlySteps, QueueInv, FrameInv, TypeOK, FrameType
<1>2. PICK n, order :
        /\ Added(n, order, FALSE) /\ Len(frame'.todo) = Len(frame.todo) + 1
        /\ Len(frame.todo) \in Nat
        /\ frame'.pc \in {"create", "next"} /\ frame'.nextOrder = frame.nextOrder
        /\ frame'.new = <<>>
        /\ frame'.pc = "next" => frame.nextOrder = Len(frame'.todo) + 1
  BY <1>1, CreateFacts DEF TypeOK, FrameType
<1>3. Added(n, order, FALSE)
  BY <1>2
<1>4. /\ Mine' = Mine \cup {n} /\ n \notin Mine /\ ~steps'[n].dynamic
      /\ \A i \in Mine : steps'[i] = steps[i]
  BY <1>1, <1>3, MineAdded DEF Added, Mine
<1>5. (\A i \in Mine' : ~steps'[i].dynamic) /\ Planned' = Planned \cup {n} /\ n \notin Planned
  BY <1>1, <1>4 DEF Planned
<1>6. Taken' = {}
  BY <1>5 DEF Taken
<1>7. PICK a, b, c : a = Len(frame.todo) /\ b = Len(frame'.todo) /\ c = Cardinality(Planned')
  OBVIOUS
<1>8. c = a + 1 /\ b = a + 1 /\ a \in Nat
  <2>1. Cardinality(Planned) = a
    BY <1>1, <1>7 DEF OrderInv, Planning
  <2>2. Cardinality(Planned \cup {n}) = Cardinality(Planned) + 1
    BY <1>5, PlannedFinite, FS_AddElement
  <2> QED
    BY <1>2, <1>5, <1>7, <2>1, <2>2
<1>9. frame'.pc \in Looping => c < frame'.nextOrder
  BY <1>2, <1>7, <1>8 DEF Looping, OnStep
<1>10. c = Len(frame'.todo)
  BY <1>7, <1>8
<1>11. DOMAIN frame'.new = {}
  BY <1>2, NoSteps
<1> QED
  BY <1>5, <1>6, <1>7, <1>9, <1>10, <1>11 DEF OrderInv

LEMMA OrderInjected ==
    ASSUME TypeOK, FrameInv, QueueInv, OrderInv, InjectStep
    PROVE  OrderInv'
<1>0. frame.pc = "inject" /\ attempt' = attempt /\ frame \in FrameType
  BY DEF InjectStep, InjectStepAt, At, OnlySteps, TypeOK
<1>1. PICK n, new, order : Injects(n, new, order)
  BY InjectCases
<1>2. /\ Planned' = Planned /\ Mine' = Mine \cup {n} /\ n \notin Mine
      /\ \A i \in Mine : steps'[i] = steps[i]
      /\ steps'[n].order = order
      /\ \A k \in DOMAIN new : steps'[new[k]].order = frame.nextOrder + (k - 1)
      /\ \/ /\ frame' = [frame EXCEPT !.new = new, !.more = @ - 1]
            /\ Taken' \subseteq Taken
         \/ /\ frame' = [frame EXCEPT !.new = <<>>, !.more = 0, !.pc = "next",
                                      !.todo = frame'.todo,
                                      !.nextOrder = @ + Len(new), !.replans = @ + 1]
            /\ Taken' \subseteq Taken \cup Entries(new)
  BY <1>0, <1>1, InjectTaken
<1>3. PICK c, o, m : c = Cardinality(Planned) /\ o = frame.nextOrder /\ m = Len(new)
  OBVIOUS
<1>4. /\ c \in Nat /\ o \in Nat /\ m \in Nat /\ DOMAIN new = 1 .. m /\ c < o
      /\ \A i \in Mine : steps[i].order \in Nat
      /\ order \in Nat /\ order >= o
  <2>1. c \in Nat /\ o \in Nat /\ \A i \in Mine : steps[i].order \in Nat
    BY <1>0, <1>3, PlannedFinite DEF FrameType
  <2>2. c < o
    BY <1>0, <1>3 DEF OrderInv, Looping
  <2>3. /\ DOMAIN new = 1 .. m /\ order \in Nat /\ order = o + Len(frame.new)
        /\ Len(frame.new) \in Nat /\ m = Len(frame.new) + 1
    BY <1>1, <1>3 DEF Injects
  <2> QED
    BY <2>1, <2>2, <2>3
<1>5. \A i \in Mine' : steps'[i].dynamic => steps'[i].order > Cardinality(Planned')
  <2>1. \A i \in Mine : steps'[i].dynamic => steps'[i].order > c
    BY <1>2, <1>3 DEF OrderInv
  <2>2. order > c
    BY <1>4
  <2> QED
    BY <1>2, <1>3, <2>1, <2>2
<1>6. /\ \A i \in Taken : i \in Mine /\ steps'[i].order < o
      /\ \A i, j \in Taken : steps'[i].order = steps'[j].order => i = j
  <2>1. Taken \subseteq Mine
    BY DEF Taken
  <2> QED
    BY <1>0, <1>2, <1>3, <2>1 DEF OrderInv, Looping
<1>7. CASE /\ frame' = [frame EXCEPT !.new = new, !.more = @ - 1]
           /\ Taken' \subseteq Taken
  <2>1. frame'.pc = "inject" /\ frame'.nextOrder = o /\ frame'.new = new
    BY <1>0, <1>3, <1>7 DEF FrameType
  <2>2. \A k \in DOMAIN frame'.new : steps'[frame'.new[k]].order = frame'.nextOrder + k - 1
    <3>1. \A k \in DOMAIN new : o + (k - 1) = o + k - 1
      BY <1>4
    <3> QED
      BY <1>2, <1>3, <2>1, <3>1
  <2> QED
    BY <1>2, <1>3, <1>4, <1>5, <1>6, <1>7, <2>1, <2>2 DEF OrderInv, Planning, Looping
<1>8. CASE /\ frame' = [frame EXCEPT !.new = <<>>, !.more = 0, !.pc = "next",
                                     !.todo = frame'.todo,
                                     !.nextOrder = @ + Len(new), !.replans = @ + 1]
           /\ Taken' \subseteq Taken \cup Entries(new)
  <2>1. frame'.pc = "next" /\ frame'.nextOrder = o + m /\ frame'.new = <<>>
    BY <1>0, <1>3, <1>8 DEF FrameType
  <2>2. \A i \in Taken' : \/ i \in Taken
                          \/ \E k \in 1 .. m : i = new[k] /\ steps'[i].order = o + (k - 1)
    BY <1>2, <1>3, <1>4, <1>8 DEF Entries
  <2>3. \A i \in Taken' : steps'[i].order < o + m
    <3> TAKE i \in Taken'
    <3>1. CASE i \in Taken
      <4>1. steps'[i].order < o /\ steps'[i].order \in Nat
        BY <1>2, <1>4, <1>6, <3>1
      <4> QED
        BY <1>4, <4>1
    <3>2. CASE \E k \in 1 .. m : i = new[k] /\ steps'[i].order = o + (k - 1)
      BY <1>4, <3>2
    <3> QED
      BY <2>2, <3>1, <3>2
  <2>4. \A i, j \in Taken' : steps'[i].order = steps'[j].order => i = j
    <3> SUFFICES ASSUME NEW i \in Taken', NEW j \in Taken',
                        steps'[i].order = steps'[j].order
                 PROVE  i = j
      OBVIOUS
    <3>1. \A k \in 1 .. m : ~(o + (k - 1) < o)
      BY <1>4
    <3>2. \A k, l \in 1 .. m : o + (k - 1) = o + (l - 1) => k = l
      BY <1>4
    <3>3. CASE i \in Taken /\ j \in Taken
      BY <1>6, <3>3
    <3>4. CASE i \in Taken \/ j \in Taken
      BY <1>6, <2>2, <3>1, <3>4
    <3>5. CASE i \notin Taken /\ j \notin Taken
      BY <2>2, <3>2, <3>5
    <3> QED
      BY <3>4, <3>5
  <2>5. Cardinality(Planned') < frame'.nextOrder
    BY <1>2, <1>3, <1>4, <2>1
  <2>6. DOMAIN frame'.new = {}
    BY <2>1, NoSteps
  <2> QED
    BY <1>5, <2>1, <2>3, <2>4, <2>5, <2>6 DEF OrderInv, Planning
<1> QED
  BY <1>2, <1>7, <1>8

LEMMA OrderStep ==
    ASSUME TypeOK, FrameInv, RowsInv, QueueInv, OrderInv, [Next]_vars
    PROVE  OrderInv'
<1>1. CASE UNCHANGED vars
  BY <1>1 DEF vars, OrderInv, Taken, Planned, Mine, Queued
<1>2. CASE Keeps
  <2>1. /\ Taken' \subseteq Taken /\ Mine' = Mine /\ Planned' = Planned
        /\ \A i \in Mine : /\ steps'[i].dynamic = steps[i].dynamic
                           /\ steps'[i].order = steps[i].order
        /\ Taken \subseteq Mine
    BY <1>2, KeepsTaken DEF Taken
  <2>2. /\ DOMAIN frame'.new = {}
        /\ frame'.pc \in Looping => frame.pc \in Looping /\ frame'.nextOrder = frame.nextOrder
        /\ frame'.pc \in Planning => frame.pc \in Planning /\ frame'.todo = frame.todo
    BY <1>2, KeepsFrame, NoSteps
  <2>3. \A i \in Taken' : i \in Taken /\ steps'[i].order = steps[i].order
    BY <2>1
  <2> QED
    BY <2>1, <2>2, <2>3 DEF OrderInv
<1>3. CASE Begin
  <2>1. /\ Mine' = {} /\ Planned' = {} /\ Taken' = {} /\ frame'.pc = "plan"
        /\ frame'.todo = <<>> /\ DOMAIN frame'.new = {}
    BY <1>3, BeginFacts, NoSteps
  <2>2. Cardinality(Planned') = Len(frame'.todo)
    BY <2>1, FS_EmptySet, NoSteps
  <2> QED
    BY <2>1, <2>2 DEF OrderInv, Looping, OnStep
<1>4. CASE CreateStep \/ InjectStep
  BY <1>4, OrderCreated, OrderInjected
<1> QED
  BY <1>1, <1>2, <1>3, <1>4, RowCases DEF Keeps

LEMMA EntriesFinite ==
    ASSUME NEW s, NEW n \in Nat, DOMAIN s = 1 .. n, s = [k \in 1 .. n |-> s[k]]
    PROVE  IsFiniteSet(Entries(s)) /\ Cardinality(Entries(s)) <= n
           /\ Cardinality(Entries(s)) \in Nat
<1>1. IsFiniteSet(1 .. n) /\ Cardinality(1 .. n) = n
  BY FS_Interval
<1>2. s \in Surjection(1 .. n, Entries(s))
  BY DEF Surjection, Entries
<1>3. IsFiniteSet(Entries(s)) /\ Cardinality(Entries(s)) <= Cardinality(1 .. n)
  BY <1>1, <1>2, FS_Surjection
<1> QED
  BY <1>1, <1>3, FS_CardinalityType

(* One more replanning decision, within max_replan_depth.                  *)
LEMMA Decisions ==
    ASSUME NEW c \in Nat, NEW e \in Nat, NEW r \in Nat, NEW d \in Nat, NEW m \in Nat,
           c <= r * m, e <= m, r < d
    PROVE  /\ c + e <= (r + 1) * m /\ (r + 1) * m <= d * m
<1>1. (r + 1) * m = r * m + m /\ r * m \in Nat
  OBVIOUS
<1>2. d * m = (r + 1) * m + (d - (r + 1)) * m
  OBVIOUS
<1>3. \A x, y \in Nat : x * y >= 0
  OBVIOUS
<1>4. d - (r + 1) \in Nat
  OBVIOUS
<1>5. (d - (r + 1)) * m >= 0
  BY <1>3, <1>4
<1>6. (r + 1) * m \in Int /\ d * m \in Int /\ (d - (r + 1)) * m \in Int
  BY <1>4
<1> QED
  BY <1>1, <1>2, <1>5, <1>6

LEMMA CountInjected ==
    ASSUME TypeOK, FrameInv, QueueInv, OrderInv, CountInv, InjectStep
    PROVE  CountInv'
<1>0. /\ frame.pc = "inject" /\ attempt' = attempt /\ frame \in FrameType
      /\ frame.replans < MaxReplanDepth /\ frame.replans \in Nat
      /\ MaxReplanDepth \in Nat /\ MaxInject \in Nat
  BY ConstantFacts DEF InjectStep, InjectStepAt, At, OnlySteps, TypeOK, FrameInv, FrameType
<1>1. PICK n, new, order : Injects(n, new, order)
  BY InjectCases
<1>2. \/ /\ frame' = [frame EXCEPT !.new = new, !.more = @ - 1]
         /\ Taken' \subseteq Taken
      \/ /\ frame' = [frame EXCEPT !.new = <<>>, !.more = 0, !.pc = "next",
                                   !.todo = frame'.todo,
                                   !.nextOrder = @ + Len(new), !.replans = @ + 1]
         /\ Taken' \subseteq Taken \cup Entries(new)
  BY <1>0, <1>1, InjectTaken
<1>3. /\ IsFiniteSet(Taken) /\ Cardinality(Taken) \in Nat
      /\ Cardinality(Taken) <= frame.replans * MaxInject
      /\ Cardinality(Taken) <= MaxReplanDepth * MaxInject
  BY <1>0, PlannedFinite DEF CountInv, Looping
<1>4. ASSUME Taken' \subseteq Taken
      PROVE  Cardinality(Taken') <= Cardinality(Taken) /\ Cardinality(Taken') \in Nat
  BY <1>3, <1>4, FS_Subset, FS_CardinalityType
<1>5. frame.replans * MaxInject \in Int /\ MaxReplanDepth * MaxInject \in Int
  BY <1>0
<1>6. CASE /\ frame' = [frame EXCEPT !.new = new, !.more = @ - 1]
           /\ Taken' \subseteq Taken
  <2>1. frame'.replans = frame.replans
    BY <1>0, <1>6 DEF FrameType
  <2>2. Cardinality(Taken') <= Cardinality(Taken) /\ Cardinality(Taken') \in Nat
    BY <1>4, <1>6
  <2> QED
    BY <1>3, <1>5, <2>1, <2>2 DEF CountInv
<1>7. CASE /\ frame' = [frame EXCEPT !.new = <<>>, !.more = 0, !.pc = "next",
                                     !.todo = frame'.todo,
                                     !.nextOrder = @ + Len(new), !.replans = @ + 1]
           /\ Taken' \subseteq Taken \cup Entries(new)
  <2>1. frame'.replans = frame.replans + 1
    BY <1>0, <1>7 DEF FrameType
  <2>2. PICK m : m = Len(new) /\ m \in Nat /\ DOMAIN new = 1 .. m /\ m <= MaxInject
    BY <1>1 DEF Injects
  <2>3. new = [k \in 1 .. m |-> new[k]]
    <3>1. new \in Seq(Nat)
      <4>1. frame.new \in Seq(Nat) /\ n \in Nat /\ new = Append(frame.new, n)
        BY <1>0, <1>1 DEF Injects, Added, FrameType
      <4> QED
        BY <4>1, AppendedSeq
    <3> QED
      BY <2>2, <3>1, SeqDef
  <2>4. PICK e : /\ e = Cardinality(Entries(new)) /\ e \in Nat /\ e <= m
                 /\ IsFiniteSet(Entries(new))
    BY <2>2, <2>3, EntriesFinite
  <2>5. /\ IsFiniteSet(Taken \cup Entries(new)) /\ IsFiniteSet(Taken \cap Entries(new))
        /\ Cardinality(Taken \cup Entries(new))
             = Cardinality(Taken) + e - Cardinality(Taken \cap Entries(new))
    <3>1. Taken \cap Entries(new) \in SUBSET Taken
      OBVIOUS
    <3> QED
      BY <1>3, <2>4, <3>1, FS_Union, FS_Subset
  <2>6. /\ Cardinality(Taken') <= Cardinality(Taken \cup Entries(new))
        /\ Cardinality(Taken') \in Nat
    <3>1. Taken' \in SUBSET (Taken \cup Entries(new))
      BY <1>7
    <3> QED
      BY <2>5, <3>1, FS_Subset, FS_CardinalityType
  <2>7. Cardinality(Taken') <= Cardinality(Taken) + e
    <3>1. PICK x, y, t : /\ x = Cardinality(Taken \cap Entries(new)) /\ t = Cardinality(Taken')
                         /\ y = Cardinality(Taken \cup Entries(new))
      OBVIOUS
    <3>2. x \in Nat
      BY <2>5, <3>1, FS_CardinalityType
    <3> QED
      BY <1>3, <2>4, <2>5, <2>6, <3>1, <3>2
  <2>8. e <= MaxInject
    BY <1>0, <2>2, <2>4
  <2>9. /\ Cardinality(Taken) + e <= (frame.replans + 1) * MaxInject
        /\ (frame.replans + 1) * MaxInject <= MaxReplanDepth * MaxInject
    BY <1>0, <1>3, <2>4, <2>8, Decisions
  <2>10. (frame.replans + 1) * MaxInject \in Int
    BY <1>0
  <2>11. /\ Cardinality(Taken') <= (frame.replans + 1) * MaxInject
         /\ Cardinality(Taken') <= MaxReplanDepth * MaxInject
    BY <1>3, <1>5, <2>4, <2>6, <2>7, <2>9, <2>10
  <2> QED
    BY <2>1, <2>11 DEF CountInv
<1> QED
  BY <1>2, <1>6, <1>7

LEMMA CountStep ==
    ASSUME TypeOK, FrameInv, RowsInv, QueueInv, OrderInv, CountInv, [Next]_vars
    PROVE  CountInv'
<1>0. /\ MaxInject \in Nat /\ MaxReplanDepth * MaxInject \in Nat
      /\ frame.replans * MaxInject \in Nat /\ 0 * MaxInject = 0
      /\ IsFiniteSet(Taken) /\ Cardinality(Taken) \in Nat
  <2>1. MaxInject \in Nat /\ MaxReplanDepth \in Nat /\ frame.replans \in Nat
    BY ConstantFacts DEF TypeOK, FrameType
  <2> QED
    BY <2>1, PlannedFinite
<1>1. CASE UNCHANGED vars
  BY <1>1 DEF vars, CountInv, Taken, Mine, Queued
<1>2. CASE Keeps
  <2>1. Cardinality(Taken') <= Cardinality(Taken) /\ Cardinality(Taken') \in Nat
    BY <1>0, <1>2, KeepsTaken, FS_Subset, FS_CardinalityType
  <2>2. frame'.pc \in Planning \cup Looping =>
          frame.pc \in Planning \cup Looping /\ frame'.replans = frame.replans
    BY <1>2, KeepsFrame
  <2> QED
    BY <1>0, <2>1, <2>2 DEF CountInv
<1>3. ASSUME Taken' = {}, frame'.replans = 0
      PROVE  CountInv'
  BY <1>0, <1>3, FS_EmptySet DEF CountInv
<1>4. CASE Begin
  BY <1>3, <1>4, BeginFacts
<1>5. CASE CreateStep
  <2>1. frame'.replans = frame.replans /\ frame.replans = 0
    BY <1>5 DEF CreateStep, At, TypeOK, FrameType, FrameInv, Planning
  <2> QED
    BY <1>3, <1>5, <2>1, OrderCreated
<1>6. CASE InjectStep
  BY <1>6, CountInjected
<1> QED
  BY <1>1, <1>2, <1>4, <1>5, <1>6, RowCases DEF Keeps

-----------------------------------------------------------------------------
(* The whole invariant, and what follows from it.                          *)

IInv == TypeOK /\ FrameInv /\ StoreInv /\ RowsInv /\ QueueInv /\ ContextInv
        /\ OpenInv /\ OrderInv /\ CountInv

LEMMA IInvInit == Init => IInv
<1> SUFFICES ASSUME Init PROVE IInv
  OBVIOUS
<1>1. /\ TypeOK /\ FrameInv /\ frame = Idle /\ frame.pc = "idle" /\ frame.outcome = "none"
      /\ frame.todo = <<>> /\ frame.new = <<>> /\ context = <<>> /\ steps = <<>>
      /\ status = "PENDING"
  BY TypeInit, IdleFacts DEF Init
<1>2. DOMAIN steps = {} /\ DOMAIN context = {} /\ DOMAIN frame.new = {} /\ DOMAIN frame.todo = {}
  BY <1>1, NoSteps
<1>3. Mine = {} /\ Planned = {} /\ Taken = {} /\ Queued = {} /\ Listed = {}
  BY <1>1, <1>2, EmptyEntries DEF Mine, Planned, Taken, Queued, Listed
<1>4. frame.pc \notin Planning \cup Looping \cup Ending
  BY <1>1 DEF Planning, Looping, OnStep, Ending
<1>5. StoreInv /\ RowsInv
  BY <1>1, <1>2, <1>4 DEF StoreInv, RowsInv, Planning, Looping, OnStep, Ending
<1>6. QueueInv /\ ContextInv /\ OpenInv /\ OrderInv
  BY <1>1, <1>2, <1>3, <1>4 DEF QueueInv, QueueOrder, ContextInv, OpenInv, OrderInv, Looping
<1>7. CountInv
  <2>1. MaxReplanDepth * MaxInject \in Nat
    BY ConstantFacts
  <2> QED
    BY <1>3, <1>4, <2>1, FS_EmptySet DEF CountInv
<1> QED
  BY <1>1, <1>5, <1>6, <1>7 DEF IInv

LEMMA IInvStep == IInv /\ [Next]_vars => IInv'
BY TypeStep, StoreStep, RowsStep, QueueStep, ContextStep, OpenStep, OrderStep, CountStep
   DEF IInv

LEMMA Invariance == Spec => []IInv
BY IInvInit, IInvStep, PTL DEF Spec

(* Whatever is injected, and whatever fails, every step that remains is a  *)
(* pending row of this attempt, listed once, with the injected ones first. *)
THEOREM RemainingStepsAreInOrder == Spec => []QueueIsSound
<1>1. IInv => QueueIsSound
  <2> SUFFICES ASSUME IInv, NEW i \in DOMAIN frame.todo
               PROVE  /\ frame.todo[i] \in Mine /\ steps[frame.todo[i]].status = "PENDING"
                      /\ \A j \in 1 .. i - 1 :
                           /\ frame.todo[j] # frame.todo[i]
                           /\ steps[frame.todo[i]].dynamic => steps[frame.todo[j]].dynamic
    BY DEF QueueIsSound
  <2>1. frame.todo[i] \in Mine /\ steps[frame.todo[i]].status = "PENDING"
    BY DEF IInv, QueueInv, QueueOrder, Queued, Entries
  <2>2. PICK l : DOMAIN frame.todo = 1 .. l /\ l \in Nat
    <3>1. frame.todo \in Seq(Nat)
      BY DEF IInv, TypeOK, FrameType
    <3> QED
      BY <3>1, LenProperties
  <2>3. \A j \in 1 .. i - 1 : j \in DOMAIN frame.todo /\ j < i
    BY <2>2
  <2> QED
    BY <2>1, <2>3 DEF IInv, QueueInv, QueueOrder
<1> QED
  BY <1>1, Invariance, PTL

(* No step has two tool calls in the log, and a step that is done and has  *)
(* a tool has one, however often the call was repeated.                    *)
THEOREM DoneStepsAreLogged == Spec => []ToolCallsAreLogged
<1>1. IInv => ToolCallsAreLogged
  BY DEF IInv, RowsInv, Logged, ToolCallsAreLogged
<1> QED
  BY <1>1, Invariance, PTL

(* The next step is told of exactly the completed steps, each once.        *)
THEOREM ContextListsCompleted == Spec => []ContextIsFaithful
<1>1. IInv => ContextIsFaithful
  <2> SUFFICES ASSUME IInv, frame.pc = "next"
               PROVE  /\ Listed \cap Mine = {i \in Mine : steps[i].status = "COMPLETED"}
                      /\ \A k, l \in DOMAIN context :
                           context[k] \in Mine /\ context[k] = context[l] => k = l
    BY DEF ContextIsFaithful, Listed, Entries
  <2> QED
    BY DEF IInv, ContextInv, Looping, Owing
<1> QED
  BY <1>1, Invariance, PTL

(* A run is not reported COMPLETED over a step that was neither completed  *)
(* nor skipped.                                                            *)
THEOREM CompletedRunIsDone == Spec => []CompletedRunHasNoOpenSteps
<1>1. IInv => CompletedRunHasNoOpenSteps
  BY DEF IInv, OpenInv, Settled, CompletedRunHasNoOpenSteps
<1> QED
  BY <1>1, Invariance, PTL

(* If the plan is numbered 1, 2, ..., no two executed steps have the same  *)
(* order, however many are injected and however many injections fail.      *)
THEOREM OrdersAreDistinct == Spec => []OrdersIdentifySteps
<1>1. IInv => OrdersIdentifySteps
  <2> DEFINE n == Cardinality(Planned)
             f == [i \in Planned |-> steps[i].order]
  <2> SUFFICES ASSUME IInv, {steps[i].order : i \in Planned} = 1 .. n,
                      NEW i \in Mine, NEW j \in Mine, steps[i].status # "PENDING",
                      steps[j].status # "PENDING", steps[i].order = steps[j].order
               PROVE  i = j
    BY DEF OrdersIdentifySteps, Planned
  <2>1. IsFiniteSet(Planned) /\ n \in Nat /\ \A k \in Mine : steps[k].order \in Nat
    BY PlannedFinite DEF IInv
  <2>2. \A k \in Mine : steps[k].dynamic => steps[k].order > n
    BY DEF IInv, OrderInv
  <2>3. \A k \in Planned : steps[k].order \in 1 .. n
    OBVIOUS
  <2>4. CASE steps[i].dynamic /\ steps[j].dynamic
    <3>1. i \in Taken /\ j \in Taken
      BY <2>4 DEF Taken
    <3> QED
      BY <3>1 DEF IInv, OrderInv
  <2>5. CASE ~steps[i].dynamic /\ ~steps[j].dynamic
    <3>1. i \in Planned /\ j \in Planned
      BY <2>5 DEF Planned
    <3>2. f \in Surjection(Planned, 1 .. n)
      <4>1. f \in [Planned -> 1 .. n]
        BY <2>3
      <4>2. \A t \in 1 .. n : \E s \in Planned : f[s] = t
        OBVIOUS
      <4> QED
        BY <4>1, <4>2 DEF Surjection
    <3>3. Cardinality(1 .. n) = n
      BY <2>1, FS_Interval
    <3>4. f \in Injection(Planned, 1 .. n)
      <4> HIDE DEF f
      <4>1. Cardinality(Planned) = Cardinality(1 .. n)
        BY <3>3
      <4> QED
        BY <2>1, <3>2, <4>1, FS_SurjSameCardinalityImpliesInj
    <3>5. f[i] = f[j] => i = j
      BY <3>1, <3>4 DEF Injection, IsInjective
    <3> QED
      BY <3>1, <3>5
  <2>6. CASE ~(steps[i].dynamic <=> steps[j].dynamic)
    <3>1. \A k, l \in Mine : steps[k].dynamic /\ ~steps[l].dynamic =>
            steps[l].order < steps[k].order
      <4> SUFFICES ASSUME NEW k \in Mine, NEW l \in Mine, steps[k].dynamic, ~steps[l].dynamic
                   PROVE  steps[l].order < steps[k].order
        OBVIOUS
      <4>1. steps[l].order <= n /\ steps[k].order > n
        BY <2>1, <2>2, <2>3 DEF Planned
      <4> QED
        BY <2>1, <4>1
    <3> QED
      BY <2>1, <2>6, <3>1
  <2> QED
    BY <2>4, <2>5, <2>6
<1> QED
  BY <1>1, Invariance, PTL

(* README.md:570: whatever the planner asks for, max_replan_depth bounds   *)
(* the injected steps that are executed.                                   *)
THEOREM ReplanningIsBounded == Spec => []NoPlanExplosion
<1>1. IInv => NoPlanExplosion
  <2> DEFINE Run == {i \in Mine : steps[i].dynamic /\ steps[i].status # "PENDING"}
  <2> SUFFICES ASSUME IInv PROVE Cardinality(Run) <= MaxReplanDepth * MaxInject
    BY DEF NoPlanExplosion
  <2>1. IsFiniteSet(Taken) /\ Cardinality(Taken) \in Nat /\ Run \in SUBSET Taken
    BY PlannedFinite DEF IInv, Taken
  <2> HIDE DEF Run
  <2>2. Cardinality(Run) <= Cardinality(Taken) /\ Cardinality(Run) \in Nat
    BY <2>1, FS_Subset, FS_CardinalityType
  <2>3. MaxReplanDepth * MaxInject \in Nat
    BY ConstantFacts
  <2> QED
    BY <2>1, <2>2, <2>3 DEF IInv, CountInv
<1> QED
  BY <1>1, Invariance, PTL

(* No step of run_workflow takes the row of a step back, or touches the    *)
(* rows of an earlier attempt.                                             *)
LEMMA RowMoves ==
    ASSUME IInv, Next, NEW i \in DOMAIN steps
    PROVE  StepMoves(i)
<1>0. TypeOK /\ FrameInv /\ RowsInv /\ ContextInv
  BY DEF IInv
<1>1. CASE OneStep
  <2>0. PICK c : c = frame.cur
    OBVIOUS
  <2>1. /\ c \in Mine /\ c \in DOMAIN steps /\ steps[c] \in StepType
        /\ \A j \in DOMAIN steps : j # c => steps'[j] = steps[j]
    BY <1>0, <1>1, <2>0, OneStepFacts, RowFacts DEF Changed
  <2>2. CASE i # c
    BY <2>1, <2>2 DEF StepMoves
  <2>3. CASE i = c
    <3>1. CASE frame.pc = "start"
      <4>1. steps'[c].status = "RUNNING" /\ steps[c].status = "PENDING"
        BY <1>0, <1>1, <2>0, <2>1, <3>1, OneStepFacts DEF StepType, RowsInv
      <4> QED
        BY <2>1, <2>3, <4>1 DEF StepMoves
    <3>2. CASE frame.pc = "record"
      <4>1. steps'[c].status = steps[c].status
        BY <1>0, <1>1, <2>0, <2>1, <3>2, OneStepFacts DEF StepType
      <4> QED
        BY <2>3, <4>1 DEF StepMoves
    <3>3. CASE frame.pc = "complete"
      <4>1. steps'[c].status = "COMPLETED" /\ steps[c].status = "RUNNING"
        BY <1>0, <1>1, <2>0, <2>1, <3>3, OneStepFacts DEF StepType, RowsInv
      <4> QED
        BY <2>1, <2>3, <4>1 DEF StepMoves, Closed
    <3>4. CASE frame.pc \in {"skip", "skipAgain"}
      <4>1. steps'[c] = [steps[c] EXCEPT !.status = "SKIPPED"]
        BY <1>0, <1>1, <2>0, <3>4, OneStepFacts
      <4>2. steps'[c].status = "SKIPPED" /\ steps[c].status \in {"RUNNING", "COMPLETED"}
        BY <1>0, <2>0, <2>1, <3>4, <4>1 DEF StepType, RowsInv
      <4>3. c \notin Listed
        BY <1>0, <2>0, <2>1, <3>4 DEF ContextInv, Looping, OnStep, Owing
      <4>4. \A k \in DOMAIN context : context[k] # c
        BY <4>3 DEF Listed, Entries
      <4> QED
        BY <2>1, <2>3, <4>2, <4>4 DEF StepMoves, Closed
    <3>5. CASE frame.pc = "append"
      <4>1. steps' = steps
        BY <1>0, <1>1, <3>5, OneStepFacts
      <4> QED
        BY <4>1 DEF StepMoves
    <3> QED
      BY <1>0, <1>1, <3>1, <3>2, <3>3, <3>4, <3>5, OneStepFacts
  <2> QED
    BY <2>2, <2>3
<1>2. ASSUME steps'[i] = steps[i] PROVE StepMoves(i)
  BY <1>2 DEF StepMoves
<1>3. CASE UNCHANGED vars \/ Quiet \/ GoesOn \/ Begin \/ NextStep \/ Unwinds
  <2>1. steps' = steps
    BY <1>0, <1>3, QuietFacts, GoesOnFacts, BeginFacts, UnwindPcs
       DEF vars, NextStep, TakeStep, OnlyFrame, stores
  <2> QED
    BY <1>2, <2>1
<1>4. CASE CreateStep \/ InjectStep
  <2>1. PICK n, order, dynamic : Added(n, order, dynamic)
    BY <1>0, <1>4, NewRowFacts
  <2> QED
    BY <1>2, <2>1 DEF Added
<1> QED
  BY <1>0, <1>1, <1>3, <1>4, RowCases

(* A step is pending, then running, then completed or skipped, and is      *)
(* taken back from COMPLETED to SKIPPED only while it is in no context.    *)
THEOREM StepRowsMoveForward == Spec => StepsMoveForward
<1>1. IInv /\ [Next]_vars => [\A i \in DOMAIN steps : StepMoves(i)]_vars
  BY RowMoves
<1> QED
  BY <1>1, Invariance, PTL DEF Spec, StepsMoveForward
=============================================================================
