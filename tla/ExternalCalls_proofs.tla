------------------------ MODULE ExternalCalls_proofs ------------------------
(***************************************************************************)
(* Proofs about ExternalCalls, for plans of any length over any tools and  *)
(* for every number of tries, replannings and store failures.              *)
(***************************************************************************)
EXTENDS ExternalCalls, SequenceTheorems, TLAPS

Used == MaxStoreFaults - faults

(* Between NextStep and the step after it there is a step at hand.         *)
AtStep(f) ==
    \/ f.pc \in {"start", "tool", "record", "complete", "append", "skip", "skipAgain", "inject"}
    \/ f.pc \in {"ask", "trace"} /\ f.agent \in {"executor", "fallback", "replanner"}
BeforePlan(f) ==
    \/ f.pc = "screen"
    \/ f.pc \in {"ask", "trace"} /\ f.agent \in {"classifier", "planner"}

Untouched(s) == s.status # "COMPLETED" /\ s.traces = 0 /\ s.effects = 0

(* The steps that wait are different steps, nothing was done for them yet, *)
(* and the step at hand is none of them.                                   *)
QueueInv ==
    /\ frame.cur \in 0 .. Len(steps)
    /\ \A k \in 1 .. Len(frame.todo) :
         /\ frame.todo[k] \in 1 .. Len(steps) /\ frame.todo[k] # frame.cur
         /\ Untouched(steps[frame.todo[k]])
    /\ \A k, l \in 1 .. Len(frame.todo) : frame.todo[k] = frame.todo[l] => k = l
    /\ AtStep(frame) => frame.cur # 0
    /\ BeforePlan(frame) => steps = <<>> /\ frame.todo = <<>> /\ frame.cur = 0

(* What was done for the step at hand so far.  A try after the first one   *)
(* is owed to a commit that failed.                                        *)
HandInv ==
    /\ frame.toolTries <= Used
    /\ At("start") => Untouched(steps[frame.cur]) /\ frame.toolTries = 0
    /\ At("tool") \/ At("record") => steps[frame.cur].tool # "none"
    /\ At("tool") => steps[frame.cur].effects <= frame.toolTries
    /\ At("record") => steps[frame.cur].effects <= frame.toolTries + 1
    /\ \/ frame.pc \in {"tool", "record"}
       \/ frame.pc \in {"ask", "trace"} /\ frame.agent = "executor"
       => steps[frame.cur].traces = 0 /\ steps[frame.cur].status # "COMPLETED"
    /\ At("complete") => steps[frame.cur].traces = 1

(* Replanning is only on the way while there is some left, and an outcome  *)
(* is one that a run can have.                                             *)
GateInv ==
    /\ \/ At("inject")
       \/ frame.pc \in {"ask", "trace"} /\ frame.agent = "replanner"
       => frame.replans < MaxReplanDepth
    /\ At("outcome") => frame.outcome \in Settled

OutsideInv == CompletedStepsAreTraced /\ NotifiedOnce /\ SuccessMeansDelivered

Inv == TypeOK /\ QueueInv /\ HandInv /\ GateInv /\ OutsideInv
-----------------------------------------------------------------------------
LEMMA InitInv == Init => Inv
<1> SUFFICES ASSUME Init PROVE Inv
  OBVIOUS
<1>1. steps = <<>> /\ frame.todo = <<>> /\ Len(steps) = 0 /\ Len(frame.todo) = 0
  BY DEF Init
<1>2. TypeOK
  BY CallConstants DEF Init, TypeOK, CallConstants, FrameType, Pcs, Agents
<1>3. QueueInv
  BY <1>1 DEF Init, QueueInv, AtStep, BeforePlan
<1>4. HandInv
  BY CallConstants DEF Init, HandInv, CallConstants, Used, At
<1>5. GateInv
  BY DEF Init, GateInv, At
<1>6. OutsideInv
  BY <1>1 DEF OutsideInv, CompletedStepsAreTraced, NotifiedOnce, SuccessMeansDelivered
<1> QED
  BY <1>2, <1>3, <1>4, <1>5, <1>6 DEF Inv

(* What the type invariant says of one row.                                *)
LEMMA RowTypes ==
    ASSUME TypeOK
    PROVE  /\ Len(steps) \in Nat /\ DOMAIN steps = 1 .. Len(steps)
           /\ \A i \in 1 .. Len(steps) : steps[i] \in StepType
           /\ Len(frame.todo) \in Nat /\ frame.todo \in Seq(Nat)
<1>1. steps \in Seq(StepType) /\ frame.todo \in Seq(Nat)
  BY DEF TypeOK, FrameType
<1> QED
  BY <1>1, LenProperties, ElementOfSeq

(* A step that leaves the rows and the queue alone keeps what the          *)
(* invariant says of them.                                                 *)
LEMMA RowsStay ==
    ASSUME Inv, steps' = steps, frame'.todo = frame.todo, frame'.cur = frame.cur,
           faults' \in Nat, faults' <= faults,
           AtStep(frame') => AtStep(frame),
           BeforePlan(frame') => BeforePlan(frame)
    PROVE  QueueInv' /\ OutsideInv'
<1>1. QueueInv'
  BY DEF Inv, QueueInv, Untouched
<1>2. OutsideInv'
  <2>1. \A i \in DOMAIN steps : steps[i].effects \in Nat
    BY RowTypes, CallConstants DEF Inv, StepType, CallConstants
  <2>2. MaxStoreFaults - faults <= MaxStoreFaults - faults'
    BY CallConstants DEF Inv, TypeOK, CallConstants
  <2>3. NotifiedOnce'
    BY <2>1, <2>2, CallConstants DEF Inv, TypeOK, OutsideInv, NotifiedOnce, CallConstants
  <2> QED
    BY <2>3 DEF Inv, OutsideInv, CompletedStepsAreTraced, SuccessMeansDelivered
<1> QED
  BY <1>1, <1>2

(* What the updates of the frame do to its type and to its other fields.   *)
Alike(f, g) ==
    g.todo = f.todo /\ g.cur = f.cur /\ g.toolTries = f.toolTries /\ g.replans = f.replans

LEMMA GotoFrame ==
    ASSUME frame \in FrameType, NEW pc \in Pcs, frame' = [frame EXCEPT !.pc = pc]
    PROVE  /\ frame' \in FrameType /\ Alike(frame, frame')
           /\ frame'.pc = pc /\ frame'.agent = frame.agent /\ frame'.outcome = frame.outcome
BY DEF FrameType, Alike

LEMMA AnswerFrame ==
    ASSUME frame \in FrameType, NEW pc \in Pcs, NEW w \in BOOLEAN,
           frame' = [frame EXCEPT !.pc = pc, !.wants = w]
    PROVE  /\ frame' \in FrameType /\ Alike(frame, frame')
           /\ frame'.pc = pc /\ frame'.agent = frame.agent
BY DEF FrameType, Alike

LEMMA AskingFrame ==
    ASSUME frame \in FrameType, NEW agent \in Agents, frame' = Asking(frame, agent)
    PROVE  /\ frame' \in FrameType /\ Alike(frame, frame')
           /\ frame'.pc = "ask" /\ frame'.agent = agent /\ frame'.tries = 0
<1>1. "ask" \in Pcs /\ 0 \in 0 .. MaxRetries
  BY CallConstants DEF Pcs, CallConstants
<1> QED
  BY <1>1 DEF FrameType, Asking, Alike

LEMMA EndingFrame ==
    ASSUME frame \in FrameType, NEW outcome \in Settled, frame' = Ending(frame, outcome)
    PROVE  /\ frame' \in FrameType /\ Alike(frame, frame')
           /\ frame'.pc = "outcome" /\ frame'.outcome = outcome
<1>1. "outcome" \in Pcs
  BY DEF Pcs, StorePcs
<1> QED
  BY <1>1 DEF FrameType, Ending, Alike

-----------------------------------------------------------------------------
(* Steps that change neither rows nor queue.                               *)

(* Where such a step may lead without breaking what is known of the step   *)
(* at hand, also when it is a commit that fails.                           *)
Quiet ==
    /\ steps' = steps /\ status' \in Settled \cup {"RUNNING"} /\ requests' \in Nat
    /\ frame' \in FrameType /\ Alike(frame, frame')
    /\ AtStep(frame') => AtStep(frame)
    /\ BeforePlan(frame') => BeforePlan(frame)
    /\ frame'.pc \notin {"start", "tool", "record", "complete"}
    /\ frame'.pc \in {"ask", "trace"} /\ frame'.agent = "executor"
         => frame.pc \in {"ask", "record"} /\ (At("ask") => frame.agent = "executor")
    /\ GateInv'

LEMMA QuietFault ==
    ASSUME Inv, Quiet, faults' \in Nat, faults' <= faults
    PROVE  Inv'
<1>0. /\ faults \in Nat /\ faults' \in 0 .. MaxStoreFaults /\ faults' <= faults
      /\ MaxStoreFaults \in Nat
  BY CallConstants DEF Inv, TypeOK, CallConstants
<1>1. TypeOK'
  BY <1>0 DEF Quiet, Inv, TypeOK
<1>2. QueueInv' /\ OutsideInv'
  BY <1>0, RowsStay DEF Quiet, Alike
<1>3. HandInv'
  <2>1. frame.toolTries \in Nat /\ frame.toolTries <= MaxStoreFaults - faults
    BY CallConstants DEF Inv, TypeOK, FrameType, HandInv, Used, CallConstants
  <2>2. frame'.toolTries <= MaxStoreFaults - faults'
    BY <1>0, <2>1 DEF Quiet, Alike
  <2> QED
    BY <2>2 DEF Quiet, Inv, HandInv, Used, At, Alike
<1> QED
  BY <1>1, <1>2, <1>3 DEF Quiet, Inv

LEMMA QuietStep ==
    ASSUME Inv, faults' = faults, Quiet
    PROVE  Inv'
<1>1. faults \in Nat
  BY CallConstants DEF Inv, TypeOK, CallConstants
<1> QED
  BY <1>1, QuietFault

LEMMA AskKeepsInv == Inv /\ Ask => Inv'
<1> SUFFICES ASSUME Inv, Ask PROVE Inv'
  OBVIOUS
<1>0. /\ frame \in FrameType /\ frame.agent \in Agents /\ frame.tries \in 0 .. MaxRetries
      /\ frame.pc = "ask" /\ steps' = steps /\ faults' = faults /\ status' = status
      /\ requests' \in Nat /\ status \in Settled \cup {"RUNNING"}
  <2>1. frame.pc = "ask" /\ steps' = steps /\ faults' = faults /\ status' = status
        /\ requests' = requests + 1
    BY DEF Ask, AskUpTo, At
  <2>2. frame \in FrameType /\ requests \in Nat /\ status \in Settled \cup {"RUNNING"}
    BY DEF Inv, TypeOK
  <2> QED
    BY <2>1, <2>2 DEF FrameType
<1>1. \/ /\ frame.agent = "fallback"
         /\ \E w \in BOOLEAN : frame' = [frame EXCEPT !.pc = "skip", !.wants = w]
      \/ /\ frame.agent # "fallback"
         /\ \E w \in BOOLEAN : frame' = [frame EXCEPT !.pc = "trace", !.wants = w]
      \/ /\ frame.tries + 1 \in 0 .. MaxRetries
         /\ frame' = [frame EXCEPT !.tries = frame.tries + 1]
      \/ frame' = GivenUp(frame)
  <2>1. PICK answer \in Answers :
           IF answer \in Accepted(frame.agent)
           THEN \E wants \in IF frame.agent = "executor" THEN BOOLEAN ELSE {FALSE} :
                  frame' = [frame EXCEPT !.pc = IF frame.agent = "fallback" THEN "skip" ELSE "trace",
                                         !.wants = wants]
           ELSE frame' = IF frame.tries < MaxRetries
                         THEN [frame EXCEPT !.tries = @ + 1] ELSE GivenUp(frame)
    BY DEF Ask, AskUpTo
  <2>2. CASE answer \in Accepted(frame.agent)
    BY <2>1, <2>2
  <2>3. CASE answer \notin Accepted(frame.agent) /\ frame.tries < MaxRetries
    <3>1. frame.tries + 1 \in 0 .. MaxRetries
      BY <1>0, <2>3, CallConstants DEF CallConstants
    <3> QED
      BY <2>1, <2>3, <3>1
  <2>4. CASE answer \notin Accepted(frame.agent) /\ ~(frame.tries < MaxRetries)
    BY <2>1, <2>4
  <2> QED
    BY <2>2, <2>3, <2>4
<1>2. \/ frame.agent \in {"classifier", "planner"} /\ GivenUp(frame) = Ending(frame, "FAILED")
      \/ frame.agent = "executor" /\ GivenUp(frame) = Asking(frame, "fallback")
      \/ frame.agent = "replanner" /\ GivenUp(frame) = [frame EXCEPT !.pc = "next"]
      \/ frame.agent = "fallback" /\ GivenUp(frame) = [frame EXCEPT !.pc = "skipAgain"]
  BY <1>0 DEF GivenUp, GivenUpTo, Agents
<1>3. /\ {"ask", "trace", "skip", "skipAgain", "next", "outcome"} \subseteq Pcs
      /\ "FAILED" \in Settled /\ "fallback" \in Agents
  BY DEF Pcs, StorePcs, Settled, Agents
<1>4. /\ frame' \in FrameType /\ Alike(frame, frame')
      /\ \/ frame'.pc \in {"skip", "skipAgain"} /\ frame.agent = "fallback"
         \/ frame'.pc = "next"
         \/ frame'.pc = "outcome" /\ frame'.outcome \in Settled
         \/ frame'.pc \in {"ask", "trace"} /\ frame'.agent = frame.agent
         \/ frame'.pc = "ask" /\ frame'.agent = "fallback" /\ frame.agent = "executor"
  <2>1. CASE frame' = GivenUp(frame)
    <3>1. CASE frame.agent \in {"classifier", "planner"} /\ GivenUp(frame) = Ending(frame, "FAILED")
      BY <1>0, <1>3, <2>1, <3>1, EndingFrame
    <3>2. CASE frame.agent = "executor" /\ GivenUp(frame) = Asking(frame, "fallback")
      BY <1>0, <1>3, <2>1, <3>2, AskingFrame
    <3>3. CASE frame.agent = "replanner" /\ GivenUp(frame) = [frame EXCEPT !.pc = "next"]
      BY <1>0, <1>3, <2>1, <3>3, GotoFrame
    <3>4. CASE frame.agent = "fallback" /\ GivenUp(frame) = [frame EXCEPT !.pc = "skipAgain"]
      BY <1>0, <1>3, <2>1, <3>4, GotoFrame
    <3> QED
      BY <1>2, <3>1, <3>2, <3>3, <3>4
  <2>2. CASE frame.tries + 1 \in 0 .. MaxRetries /\ frame' = [frame EXCEPT !.tries = frame.tries + 1]
    BY <1>0, <2>2 DEF FrameType, Alike
  <2>3. CASE /\ frame.agent = "fallback"
             /\ \E w \in BOOLEAN : frame' = [frame EXCEPT !.pc = "skip", !.wants = w]
    BY <1>0, <1>3, <2>3, AnswerFrame
  <2>4. CASE /\ frame.agent # "fallback"
             /\ \E w \in BOOLEAN : frame' = [frame EXCEPT !.pc = "trace", !.wants = w]
    BY <1>0, <1>3, <2>4, AnswerFrame
  <2> QED
    BY <1>1, <2>1, <2>2, <2>3, <2>4
<1>5. /\ AtStep(frame') => AtStep(frame)
      /\ BeforePlan(frame') => BeforePlan(frame)
  BY <1>0, <1>4 DEF AtStep, BeforePlan
<1>6. GateInv'
  BY <1>0, <1>4 DEF Inv, GateInv, At, Alike
<1> QED
  BY <1>0, <1>4, <1>5, <1>6, QuietStep DEF Quiet, At

LEMMA RequestKeepsInv == Inv /\ (Screen \/ Judge) => Inv'
<1> SUFFICES ASSUME Inv, Screen \/ Judge PROVE Inv'
  OBVIOUS
<1>1. /\ frame \in FrameType /\ status' \in Settled \cup {"RUNNING"} /\ requests' \in Nat
      /\ steps' = steps /\ faults' = faults
  BY DEF Inv, TypeOK, Screen, Judge
<1>2. /\ {"score", "done"} \subseteq Pcs
      /\ "SAFETY_BLOCKED" \in Settled /\ "classifier" \in Agents
  BY DEF Pcs, StorePcs, Settled, Agents
<1>3. /\ frame' \in FrameType /\ Alike(frame, frame')
      /\ \/ frame'.pc \in {"score", "done"}
         \/ frame'.pc = "outcome" /\ frame'.outcome \in Settled
         \/ frame'.pc = "ask" /\ frame'.agent = "classifier" /\ frame.pc = "screen"
  <2>1. CASE Judge
    <3>1. PICK pc \in {"score", "done"} : frame' = [frame EXCEPT !.pc = pc]
      BY <2>1 DEF Judge, Goto
    <3> QED
      BY <1>1, <1>2, <3>1, GotoFrame
  <2>2. CASE Screen
    <3>1. /\ frame.pc = "screen"
          /\ frame' = Asking(frame, "classifier") \/ frame' = Ending(frame, "SAFETY_BLOCKED")
      BY <2>2 DEF Screen, At
    <3> QED
      BY <1>1, <1>2, <3>1, AskingFrame, EndingFrame
  <2> QED
    BY <2>1, <2>2
<1>4. /\ AtStep(frame') => AtStep(frame)
      /\ BeforePlan(frame') => BeforePlan(frame)
      /\ GateInv'
  BY <1>3 DEF AtStep, BeforePlan, GateInv, At
<1> QED
  BY <1>1, <1>3, <1>4, QuietStep DEF Quiet

LEMMA TraceKeepsInv == Inv /\ (TraceClassifier \/ TraceReplanner) => Inv'
<1> SUFFICES ASSUME Inv, TraceClassifier \/ TraceReplanner PROVE Inv'
  OBVIOUS
<1>1. /\ frame \in FrameType /\ status' \in Settled \cup {"RUNNING"} /\ requests' \in Nat
      /\ steps' = steps /\ faults' = faults /\ frame.pc = "trace"
  BY DEF Inv, TypeOK, TraceClassifier, TraceReplanner, OnlyFrame, At
<1>2. /\ {"inject", "next"} \subseteq Pcs
      /\ "NEEDS_REVIEW" \in Settled /\ "planner" \in Agents
  BY DEF Pcs, StorePcs, Settled, Agents
<1>3. /\ frame' \in FrameType /\ Alike(frame, frame')
      /\ \/ frame'.pc = "next"
         \/ frame'.pc = "inject" /\ frame.agent = "replanner"
         \/ frame'.pc = "outcome" /\ frame'.outcome \in Settled
         \/ frame'.pc = "ask" /\ frame'.agent = "planner" /\ frame.agent = "classifier"
  <2>1. CASE TraceReplanner
    <3>1. PICK pc \in {"inject", "next"} : frame' = [frame EXCEPT !.pc = pc]
      BY <2>1 DEF TraceReplanner, Goto
    <3>2. frame.agent = "replanner"
      BY <2>1 DEF TraceReplanner
    <3> QED
      BY <1>1, <1>2, <3>1, <3>2, GotoFrame
  <2>2. CASE TraceClassifier
    <3>1. /\ frame.agent = "classifier"
          /\ frame' = Asking(frame, "planner") \/ frame' = Ending(frame, "NEEDS_REVIEW")
      BY <2>2 DEF TraceClassifier
    <3> QED
      BY <1>1, <1>2, <3>1, AskingFrame, EndingFrame
  <2> QED
    BY <2>1, <2>2
<1>4. /\ AtStep(frame') => AtStep(frame)
      /\ BeforePlan(frame') => BeforePlan(frame)
      /\ GateInv'
  BY <1>1, <1>3 DEF Inv, AtStep, BeforePlan, GateInv, At, Alike
<1> QED
  BY <1>1, <1>3, <1>4, QuietStep DEF Quiet

(* An exception of the registry, the end of the plan, the row in the tool  *)
(* log and the two last writes.                                            *)
LEMMA WriteKeepsInv ==
    Inv /\ (LoopEnds \/ ToolNotFound \/ RecordCall \/ WriteOutcome \/ WriteScore) => Inv'
<1> SUFFICES ASSUME Inv, LoopEnds \/ ToolNotFound \/ RecordCall \/ WriteOutcome \/ WriteScore
    PROVE  Inv'
  OBVIOUS
<1>1. /\ frame \in FrameType /\ status \in Settled \cup {"RUNNING"} /\ requests \in Nat
      /\ GateInv
  BY DEF Inv, TypeOK
<1>2. /\ {"judge", "done"} \subseteq Pcs
      /\ {"COMPLETED", "FAILED"} \subseteq Settled /\ "executor" \in Agents
  BY DEF Pcs, StorePcs, Settled, Agents
<1>3. /\ frame' \in FrameType /\ Alike(frame, frame')
      /\ \/ frame'.pc \in {"judge", "done"}
         \/ frame'.pc = "outcome" /\ frame'.outcome \in Settled
         \/ frame'.pc = "ask" /\ frame'.agent = "executor" /\ frame.pc = "record"
      /\ status' \in Settled \cup {"RUNNING"}
      /\ requests' = requests /\ steps' = steps /\ faults' = faults
  <2>1. CASE LoopEnds
    <3>1. /\ frame' = Ending(frame, "COMPLETED") /\ status' = status
          /\ requests' = requests /\ steps' = steps /\ faults' = faults
      BY <2>1 DEF LoopEnds, OnlyFrame
    <3> QED
      BY <1>1, <1>2, <3>1, EndingFrame
  <2>2. CASE ToolNotFound
    <3>1. /\ frame' = Ending(frame, "FAILED") /\ status' = status
          /\ requests' = requests /\ steps' = steps /\ faults' = faults
      BY <2>2 DEF ToolNotFound, OnlyFrame
    <3> QED
      BY <1>1, <1>2, <3>1, EndingFrame
  <2>3. CASE RecordCall
    <3>1. /\ frame' = Asking(frame, "executor") /\ frame.pc = "record" /\ status' = status
          /\ requests' = requests /\ steps' = steps /\ faults' = faults
      BY <2>3 DEF RecordCall, OnlyFrame, At
    <3> QED
      BY <1>1, <1>2, <3>1, AskingFrame
  <2>4. CASE WriteOutcome
    <3>1. /\ status' = frame.outcome /\ frame.pc = "outcome"
          /\ requests' = requests /\ steps' = steps /\ faults' = faults
      BY <2>4 DEF WriteOutcome, At
    <3>2. \E pc \in {"judge", "done"} : frame' = [frame EXCEPT !.pc = pc]
      BY <2>4 DEF WriteOutcome, Goto
    <3>3. frame.outcome \in Settled
      BY <1>1, <3>1 DEF GateInv, At
    <3> QED
      BY <1>1, <1>2, <3>1, <3>2, <3>3, GotoFrame
  <2>5. CASE WriteScore
    <3>1. /\ frame' = [frame EXCEPT !.pc = "done"] /\ status' = status
          /\ requests' = requests /\ steps' = steps /\ faults' = faults
      BY <2>5 DEF WriteScore, OnlyFrame, Goto
    <3> QED
      BY <1>1, <1>2, <3>1, GotoFrame
  <2> QED
    BY <2>1, <2>2, <2>3, <2>4, <2>5
<1>4. /\ AtStep(frame') => AtStep(frame)
      /\ BeforePlan(frame') => BeforePlan(frame)
      /\ GateInv'
  BY <1>3 DEF AtStep, BeforePlan, GateInv, At
<1>5. frame'.pc \in {"ask", "trace"} /\ frame'.agent = "executor" => frame.pc = "record"
  BY <1>3
<1> QED
  BY <1>1, <1>3, <1>4, <1>5, QuietStep DEF Quiet, At

LEMMA AppendContextKeepsInv == Inv /\ AppendContext => Inv'
<1> SUFFICES ASSUME Inv, AppendContext PROVE Inv'
  OBVIOUS
<1>1. /\ frame \in FrameType /\ status' \in Settled \cup {"RUNNING"} /\ requests' \in Nat
      /\ steps' = steps /\ faults' = faults /\ frame.pc = "append"
  BY DEF Inv, TypeOK, AppendContext, OnlyFrame, At
<1>2. "next" \in Pcs /\ "replanner" \in Agents
  BY DEF Pcs, Agents
<1>3. \/ frame' = [frame EXCEPT !.pc = "next"]
      \/ frame' = Asking(frame, "replanner") /\ frame.replans < MaxReplanDepth
  BY DEF AppendContext
<1>4. /\ frame' \in FrameType /\ Alike(frame, frame')
      /\ \/ frame'.pc = "next"
         \/ /\ frame'.pc = "ask" /\ frame'.agent = "replanner"
            /\ frame.replans < MaxReplanDepth
  BY <1>1, <1>2, <1>3, GotoFrame, AskingFrame
<1>5. /\ AtStep(frame') => AtStep(frame)
      /\ BeforePlan(frame') => BeforePlan(frame)
      /\ GateInv'
  BY <1>1, <1>4 DEF AtStep, BeforePlan, GateInv, At, Alike
<1> QED
  BY <1>1, <1>4, <1>5, QuietStep DEF Quiet

(* Every case of Raised.                                                   *)
LEMMA StoreFaultKeepsInv == Inv /\ StoreFault => Inv'
<1> SUFFICES ASSUME Inv, StoreFault PROVE Inv'
  OBVIOUS
<1>1. /\ frame \in FrameType /\ status \in Settled \cup {"RUNNING"} /\ requests \in Nat
      /\ status' = status /\ requests' = requests /\ steps' = steps
      /\ faults > 0 /\ faults' = faults - 1 /\ frame' = Raised(frame)
      /\ faults \in 0 .. MaxStoreFaults /\ MaxStoreFaults \in Nat
  BY CallConstants DEF Inv, TypeOK, StoreFault, CallConstants
<1>2. /\ {"tool", "skipAgain", "next", "done"} \subseteq Pcs
      /\ "FAILED" \in Settled /\ "fallback" \in Agents
  BY DEF Pcs, StorePcs, Settled, Agents
<1>3. CASE frame.pc = "record" /\ frame.toolTries < MaxToolTries - 1
  <2>1. frame' = [frame EXCEPT !.pc = "tool", !.toolTries = @ + 1]
    BY <1>1, <1>3 DEF Raised
  <2>2. frame.toolTries \in 0 .. MaxToolTries - 1 /\ MaxToolTries \in Nat
    BY <1>1, CallConstants DEF FrameType, CallConstants
  <2>3. frame.toolTries + 1 \in 0 .. MaxToolTries - 1
    BY <1>3, <2>2
  <2>4. /\ frame' \in FrameType /\ frame'.pc = "tool" /\ frame'.toolTries = frame.toolTries + 1
        /\ frame'.todo = frame.todo /\ frame'.cur = frame.cur
    BY <1>1, <1>2, <2>1, <2>3 DEF FrameType
  <2>5. AtStep(frame) /\ ~BeforePlan(frame')
    BY <1>3, <2>4 DEF AtStep, BeforePlan
  <2>6. QueueInv' /\ OutsideInv'
    BY <1>1, <2>4, <2>5, RowsStay
  <2>7. TypeOK'
    BY <1>1, <2>4 DEF Inv, TypeOK
  <2>8. GateInv'
    BY <2>4 DEF GateInv, At
  <2>9. HandInv'
    <3>1. frame'.toolTries <= Used'
      BY <1>1, <2>2, <2>4 DEF Inv, HandInv, Used
    <3>2. steps[frame.cur].effects <= frame.toolTries + 1
      BY <1>3 DEF Inv, HandInv, At
    <3>3. /\ steps[frame.cur].traces = 0 /\ steps[frame.cur].status # "COMPLETED"
          /\ steps[frame.cur].tool # "none"
      BY <1>3 DEF Inv, HandInv, At
    <3> QED
      BY <1>1, <2>4, <3>1, <3>2, <3>3 DEF HandInv, At
  <2> QED
    BY <2>6, <2>7, <2>8, <2>9 DEF Inv
<1>4. CASE ~(frame.pc = "record" /\ frame.toolTries < MaxToolTries - 1)
  <2>1. \/ AtStep(frame) /\ frame' = Asking([frame EXCEPT !.wants = FALSE], "fallback")
        \/ frame.pc = "skip" /\ frame' = [frame EXCEPT !.pc = "skipAgain"]
        \/ \E pc \in {"next", "done"} : frame' = [frame EXCEPT !.pc = pc]
        \/ frame' = Ending(frame, "FAILED")
    BY <1>1, <1>4 DEF Raised, AtStep
  <2>2. /\ frame' \in FrameType /\ Alike(frame, frame')
        /\ \/ frame'.pc \in {"next", "done"}
           \/ frame'.pc = "outcome" /\ frame'.outcome \in Settled
           \/ frame'.pc = "skipAgain" /\ frame.pc = "skip"
           \/ frame'.pc = "ask" /\ frame'.agent = "fallback" /\ AtStep(frame)
    <3>1. CASE AtStep(frame) /\ frame' = Asking([frame EXCEPT !.wants = FALSE], "fallback")
      <4>1. "ask" \in Pcs /\ 0 \in 0 .. MaxRetries
        BY CallConstants DEF Pcs, CallConstants
      <4>2. /\ frame' \in FrameType /\ Alike(frame, frame')
            /\ frame'.pc = "ask" /\ frame'.agent = "fallback"
        BY <1>1, <1>2, <3>1, <4>1 DEF Asking, FrameType, Alike
      <4> QED
        BY <3>1, <4>2
    <3>2. CASE frame.pc = "skip" /\ frame' = [frame EXCEPT !.pc = "skipAgain"]
      BY <1>1, <1>2, <3>2, GotoFrame
    <3>3. CASE \E pc \in {"next", "done"} : frame' = [frame EXCEPT !.pc = pc]
      BY <1>1, <1>2, <3>3, GotoFrame
    <3>4. CASE frame' = Ending(frame, "FAILED")
      BY <1>1, <1>2, <3>4, EndingFrame
    <3> QED
      BY <2>1, <3>1, <3>2, <3>3, <3>4
  <2>3. /\ AtStep(frame') => AtStep(frame)
        /\ BeforePlan(frame') => BeforePlan(frame)
        /\ GateInv'
    BY <2>2 DEF AtStep, BeforePlan, GateInv, At
  <2>4. faults' \in Nat /\ faults' <= faults
    BY <1>1
  <2> QED
    BY <1>1, <2>2, <2>3, <2>4, QuietFault DEF Quiet
<1> QED
  BY <1>3, <1>4

-----------------------------------------------------------------------------
(* Steps that change the row of the step at hand.                          *)

(* What OutsideInv says of one row.                                        *)
RowIsExact(row) ==
    /\ row.traces <= 1
    /\ row.status = "COMPLETED" => row.traces = 1
    /\ row.effects <= 1 + Used
    /\ row.success /\ row.tool \in Remote \ {"webhook"} => row.effects > 0

LEMMA OutsideByRows ==
    ASSUME TypeOK
    PROVE  OutsideInv <=> \A i \in 1 .. Len(steps) : RowIsExact(steps[i])
<1>1. DOMAIN steps = 1 .. Len(steps)
  BY RowTypes
<1> QED
  BY <1>1 DEF OutsideInv, CompletedStepsAreTraced, NotifiedOnce, SuccessMeansDelivered,
              RowIsExact, Used

LEMMA AtHand ==
    ASSUME Inv, AtStep(frame)
    PROVE  /\ frame.cur \in 1 .. Len(steps) /\ steps[frame.cur] \in StepType
           /\ RowIsExact(steps[frame.cur])
<1>1. frame.cur \in 0 .. Len(steps) /\ frame.cur # 0 /\ TypeOK /\ OutsideInv /\ Len(steps) \in Nat
  BY RowTypes DEF Inv, QueueInv
<1>2. frame.cur \in 1 .. Len(steps)
  BY <1>1
<1> QED
  BY <1>1, <1>2, RowTypes, OutsideByRows

LEMMA RowStep ==
    ASSUME Inv, AtStep(frame), NEW row \in StepType, RowIsExact(row),
           steps' = [steps EXCEPT ![frame.cur] = row],
           OnlySteps, frame' \in FrameType, Alike(frame, frame'),
           ~BeforePlan(frame')
    PROVE  /\ TypeOK' /\ QueueInv' /\ OutsideInv'
           /\ steps'[frame'.cur] = row
<1>1. /\ frame.cur \in 1 .. Len(steps) /\ steps \in Seq(StepType) /\ TypeOK
      /\ status' = status /\ requests' = requests /\ faults' = faults
  BY AtHand DEF Inv, TypeOK, OnlySteps
<1>2. /\ steps' \in Seq(StepType) /\ Len(steps') = Len(steps)
      /\ \A j \in 1 .. Len(steps) : steps'[j] = IF j = frame.cur THEN row ELSE steps[j]
  BY <1>1, ExceptSeq
<1>3. TypeOK'
  BY <1>1, <1>2 DEF TypeOK
<1>4. QueueInv'
  <2>1. QueueInv /\ frame'.cur = frame.cur /\ frame'.todo = frame.todo /\ frame.cur # 0
    BY <1>1, RowTypes DEF Inv, Alike
  <2> QED
    BY <1>2, <2>1 DEF QueueInv, Untouched
<1>5. OutsideInv'
  <2>1. \A i \in 1 .. Len(steps) : RowIsExact(steps[i])
    BY <1>1, OutsideByRows DEF Inv
  <2>2. \A i \in 1 .. Len(steps') : RowIsExact(steps'[i])
    BY <1>2, <2>1
  <2>3. (\A i \in 1 .. Len(steps) : RowIsExact(steps[i]))'
    BY <1>1, <2>2 DEF RowIsExact, Used
  <2>4. (OutsideInv <=> \A i \in 1 .. Len(steps) : RowIsExact(steps[i]))'
    BY <1>3, OutsideByRows, PTL
  <2> QED
    BY <2>3, <2>4
<1> QED
  BY <1>1, <1>2, <1>3, <1>4, <1>5 DEF Alike

LEMMA TraceExecutorKeepsInv == Inv /\ TraceExecutor => Inv'
<1> SUFFICES ASSUME Inv, TraceExecutor PROVE Inv'
  OBVIOUS
<1> DEFINE row == [steps[frame.cur] EXCEPT !.traces = 1]
<1>1. /\ frame.pc = "trace" /\ frame.agent = "executor" /\ OnlySteps
      /\ steps' = [steps EXCEPT ![frame.cur].traces = @ + 1]
      /\ frame' = [frame EXCEPT !.pc = "complete"]
  BY DEF TraceExecutor, At, Goto
<1>2. AtStep(frame) /\ frame \in FrameType /\ "complete" \in Pcs
  BY <1>1 DEF AtStep, Inv, TypeOK, Pcs, StorePcs
<1>3. /\ frame.cur \in 1 .. Len(steps) /\ steps[frame.cur] \in StepType
      /\ RowIsExact(steps[frame.cur])
  BY <1>2, AtHand
<1>4. steps[frame.cur].traces = 0 /\ steps[frame.cur].status # "COMPLETED"
  BY <1>1 DEF Inv, HandInv
<1>5. row \in StepType /\ RowIsExact(row) /\ row.traces = 1
  BY <1>3, <1>4 DEF StepType, RowIsExact
<1>6. steps' = [steps EXCEPT ![frame.cur] = row]
  BY <1>1, <1>3, <1>4
<1>7. /\ frame' \in FrameType /\ Alike(frame, frame') /\ frame'.pc = "complete"
  BY <1>1, <1>2, GotoFrame
<1>8. ~BeforePlan(frame') /\ GateInv'
  BY <1>7 DEF BeforePlan, GateInv, At
<1>9. TypeOK' /\ QueueInv' /\ OutsideInv' /\ steps'[frame'.cur] = row
  BY <1>1, <1>2, <1>5, <1>6, <1>7, <1>8, RowStep
<1>10. HandInv'
  BY <1>1, <1>5, <1>7, <1>9 DEF Inv, HandInv, At, Used, Alike, OnlySteps
<1> QED
  BY <1>8, <1>9, <1>10 DEF Inv

LEMMA StartStepKeepsInv == Inv /\ StartStep => Inv'
<1> SUFFICES ASSUME Inv, StartStep PROVE Inv'
  OBVIOUS
<1> DEFINE row == [steps[frame.cur] EXCEPT !.status = "RUNNING"]
<1>1. /\ frame.pc = "start" /\ OnlySteps
      /\ steps' = [steps EXCEPT ![frame.cur].status = "RUNNING"]
      /\ \/ frame' = Asking(frame, "executor")
         \/ frame' = [frame EXCEPT !.pc = "tool"] /\ steps[frame.cur].tool # "none"
  BY DEF StartStep, At
<1>2. AtStep(frame) /\ frame \in FrameType /\ "tool" \in Pcs /\ "executor" \in Agents
  BY <1>1 DEF AtStep, Inv, TypeOK, Pcs, Agents
<1>3. /\ frame.cur \in 1 .. Len(steps) /\ steps[frame.cur] \in StepType
      /\ RowIsExact(steps[frame.cur])
  BY <1>2, AtHand
<1>4. Untouched(steps[frame.cur]) /\ frame.toolTries = 0 /\ frame.toolTries <= Used
  BY <1>1 DEF Inv, HandInv, At
<1>5. /\ row \in StepType /\ RowIsExact(row) /\ Untouched(row)
      /\ row.tool = steps[frame.cur].tool
  BY <1>3, <1>4 DEF StepType, RowIsExact, Untouched
<1>6. steps' = [steps EXCEPT ![frame.cur] = row]
  BY <1>1, <1>3
<1>7. /\ frame' \in FrameType /\ Alike(frame, frame')
      /\ \/ frame'.pc = "tool" /\ steps[frame.cur].tool # "none"
         \/ frame'.pc = "ask" /\ frame'.agent = "executor"
  BY <1>1, <1>2, GotoFrame, AskingFrame
<1>8. ~BeforePlan(frame') /\ GateInv'
  BY <1>7 DEF BeforePlan, GateInv, At
<1>9. TypeOK' /\ QueueInv' /\ OutsideInv' /\ steps'[frame'.cur] = row
  BY <1>1, <1>2, <1>5, <1>6, <1>7, <1>8, RowStep
<1>10. HandInv'
  BY <1>1, <1>4, <1>5, <1>7, <1>9 DEF HandInv, At, Used, Alike, OnlySteps, Untouched
<1> QED
  BY <1>8, <1>9, <1>10 DEF Inv

LEMMA SuccessIsReported ==
    ASSUME NEW tool, NEW reply
    PROVE  Succeeds(tool, reply) \in BOOLEAN
BY Zenon DEF Succeeds

(* A call that took effect although it is not reported is counted, too.    *)
LEMMA CallToolKeepsInv == Inv /\ CallTool => Inv'
<1> SUFFICES ASSUME Inv, CallTool PROVE Inv'
  OBVIOUS
<1>1. /\ frame.pc = "tool" /\ OnlySteps /\ steps[frame.cur].tool # Unregistered
      /\ frame' = [frame EXCEPT !.pc = "record"]
  BY DEF CallTool, CallToolTo, At
<1>2. PICK reply \in Replies(steps[frame.cur].tool) :
        \E n \in Effects(steps[frame.cur].tool, reply) :
          steps' = [steps EXCEPT ![frame.cur].effects = @ + n,
                                 ![frame.cur].success = Succeeds(steps[frame.cur].tool, reply)]
  BY DEF CallTool, CallToolTo
<1>3. PICK n \in Effects(steps[frame.cur].tool, reply) :
        steps' = [steps EXCEPT ![frame.cur].effects = @ + n,
                               ![frame.cur].success = Succeeds(steps[frame.cur].tool, reply)]
  BY <1>2
<1> DEFINE success == Succeeds(steps[frame.cur].tool, reply)
           row == [steps[frame.cur] EXCEPT !.effects = @ + n, !.success = success]
<1>4. AtStep(frame) /\ frame \in FrameType /\ "record" \in Pcs
  BY <1>1 DEF AtStep, Inv, TypeOK, Pcs, StorePcs
<1>5. /\ frame.cur \in 1 .. Len(steps) /\ steps[frame.cur] \in StepType
      /\ RowIsExact(steps[frame.cur])
  BY <1>4, AtHand
<1>6. /\ steps[frame.cur].traces = 0 /\ steps[frame.cur].status # "COMPLETED"
      /\ steps[frame.cur].effects <= frame.toolTries /\ frame.toolTries <= Used
      /\ steps[frame.cur].tool # "none" /\ frame.toolTries \in 0 .. MaxToolTries - 1
  BY <1>1, <1>4 DEF Inv, HandInv, At, FrameType
<1>7. n \in {0, 1}
  BY DEF Effects
<1>8. steps[frame.cur].tool \in Registered
  BY <1>1, <1>5, <1>6, CallConstants DEF StepType, CallConstants
<1>9. success \in BOOLEAN
  BY <1>8, SuccessIsReported
<1>10. success /\ steps[frame.cur].tool \in Remote \ {"webhook"} => n = 1
  <2> SUFFICES ASSUME success, steps[frame.cur].tool \in {"slack_notification", "pagerduty_incident"}
      PROVE  n = 1
    BY DEF Remote
  <2>1. reply \in {"ok", "oddBody"}
    BY DEF Succeeds, SlackSucceeds, PagerDutySucceeds
  <2> QED
    BY <2>1 DEF Effects, Local
<1>11. /\ row \in StepType /\ RowIsExact(row) /\ row.traces = 0 /\ row.status # "COMPLETED"
       /\ row.effects <= frame.toolTries + 1 /\ row.tool = steps[frame.cur].tool
  <2>1. /\ steps[frame.cur].effects \in Nat /\ MaxToolTries \in Nat
        /\ MaxStoreFaults - faults \in Int
    BY <1>5, CallConstants DEF StepType, CallConstants, Inv, TypeOK
  <2>2. /\ steps[frame.cur].effects + n \in 0 .. MaxToolTries
        /\ steps[frame.cur].effects + n <= 1 + Used
        /\ steps[frame.cur].effects + n <= frame.toolTries + 1
        /\ success /\ steps[frame.cur].tool \in Remote \ {"webhook"}
             => steps[frame.cur].effects + n > 0
    BY <1>6, <1>7, <1>10, <2>1 DEF Used
  <2>3. row \in StepType
    BY <1>5, <1>9, <2>2 DEF StepType
  <2>4. /\ row.effects = steps[frame.cur].effects + n /\ row.success = success
        /\ row.traces = 0 /\ row.status = steps[frame.cur].status
        /\ row.tool = steps[frame.cur].tool
    BY <1>5, <1>6 DEF StepType
  <2>5. RowIsExact(row)
    BY <1>6, <2>2, <2>4 DEF RowIsExact
  <2> QED
    BY <1>6, <2>2, <2>3, <2>4, <2>5
<1>12. steps' = [steps EXCEPT ![frame.cur] = row]
  BY <1>3, <1>5
<1>13. frame' \in FrameType /\ Alike(frame, frame') /\ frame'.pc = "record"
  BY <1>1, <1>4, GotoFrame
<1>14. ~BeforePlan(frame') /\ GateInv'
  BY <1>13 DEF BeforePlan, GateInv, At
<1>15. TypeOK' /\ QueueInv' /\ OutsideInv' /\ steps'[frame'.cur] = row
  BY <1>1, <1>4, <1>11, <1>12, <1>13, <1>14, RowStep
<1>16. HandInv'
  BY <1>1, <1>6, <1>11, <1>13, <1>15 DEF HandInv, At, Used, Alike, OnlySteps
<1> QED
  BY <1>14, <1>15, <1>16 DEF Inv

LEMMA CloseKeepsInv == Inv /\ (CompleteStep \/ SkipStep) => Inv'
<1> SUFFICES ASSUME Inv, CompleteStep \/ SkipStep PROVE Inv'
  OBVIOUS
<1>1. PICK st \in Closed, pc \in {"append", "next"} :
        /\ steps' = [steps EXCEPT ![frame.cur].status = st]
        /\ frame' = [frame EXCEPT !.pc = pc] /\ OnlySteps
        /\ frame.pc \in {"complete", "skip", "skipAgain"}
        /\ st = "COMPLETED" => frame.pc = "complete"
  <2>1. CASE CompleteStep
    BY <2>1 DEF CompleteStep, CloseStep, Goto, At, Closed
  <2>2. CASE SkipStep
    BY <2>2 DEF SkipStep, CloseStep, Goto, At, Closed
  <2> QED
    BY <2>1, <2>2
<1> DEFINE row == [steps[frame.cur] EXCEPT !.status = st]
<1>2. AtStep(frame) /\ frame \in FrameType /\ {"append", "next"} \subseteq Pcs
  BY <1>1 DEF AtStep, Inv, TypeOK, Pcs, StorePcs
<1>3. /\ frame.cur \in 1 .. Len(steps) /\ steps[frame.cur] \in StepType
      /\ RowIsExact(steps[frame.cur])
  BY <1>2, AtHand
<1>4. st = "COMPLETED" => steps[frame.cur].traces = 1
  BY <1>1 DEF Inv, HandInv, At
<1>5. row \in StepType /\ RowIsExact(row)
  BY <1>1, <1>3, <1>4 DEF StepType, RowIsExact
<1>6. steps' = [steps EXCEPT ![frame.cur] = row]
  BY <1>1, <1>3
<1>7. frame' \in FrameType /\ Alike(frame, frame') /\ frame'.pc \in {"append", "next"}
  BY <1>1, <1>2, GotoFrame
<1>8. ~BeforePlan(frame') /\ GateInv'
  BY <1>7 DEF BeforePlan, GateInv, At
<1>9. TypeOK' /\ QueueInv' /\ OutsideInv'
  BY <1>1, <1>2, <1>5, <1>6, <1>7, <1>8, RowStep
<1>10. HandInv'
  BY <1>1, <1>7 DEF Inv, HandInv, At, Used, Alike, OnlySteps
<1> QED
  BY <1>8, <1>9, <1>10 DEF Inv

-----------------------------------------------------------------------------
(* Steps that change the queue.                                            *)

LEMMA NextStepKeepsInv == Inv /\ NextStep => Inv'
<1> SUFFICES ASSUME Inv, NextStep PROVE Inv'
  OBVIOUS
<1>1. /\ frame.todo # <<>> /\ OnlyFrame /\ frame \in FrameType /\ TypeOK /\ QueueInv /\ HandInv
      /\ frame' = [frame EXCEPT !.pc = "start", !.cur = Head(frame.todo), !.todo = Tail(@),
                                !.toolTries = 0, !.wants = FALSE]
  BY DEF Inv, TypeOK, NextStep
<1>2. /\ frame.todo \in Seq(Nat) /\ Len(frame.todo) \in Nat /\ Len(frame.todo) # 0
      /\ Tail(frame.todo) \in Seq(Nat) /\ Len(Tail(frame.todo)) = Len(frame.todo) - 1
      /\ \A k \in 1 .. Len(Tail(frame.todo)) : Tail(frame.todo)[k] = frame.todo[k + 1]
      /\ Head(frame.todo) = frame.todo[1] /\ Len(steps) \in Nat
  BY <1>1, RowTypes, HeadTailProperties, EmptySeq
<1>3. /\ frame' \in FrameType /\ frame'.pc = "start" /\ frame'.cur = frame.todo[1]
      /\ frame'.todo = Tail(frame.todo) /\ frame'.toolTries = 0
  <2>1. frame.todo[1] \in Nat /\ 0 \in 0 .. MaxToolTries - 1 /\ "start" \in Pcs
    BY <1>2, CallConstants, ElementOfSeq DEF CallConstants, Pcs, StorePcs
  <2> QED
    BY <1>1, <1>2, <2>1 DEF FrameType
<1>4. frame.todo[1] \in 1 .. Len(steps) /\ Untouched(steps[frame.todo[1]])
  BY <1>1, <1>2 DEF QueueInv
<1>5. \A k \in 1 .. Len(frame'.todo) :
        k + 1 \in 1 .. Len(frame.todo) /\ k + 1 # 1 /\ frame'.todo[k] = frame.todo[k + 1]
  BY <1>2, <1>3
<1>6. QueueInv'
  <2>1. \A k \in 1 .. Len(frame'.todo) :
          /\ frame'.todo[k] \in 1 .. Len(steps) /\ frame'.todo[k] # frame.todo[1]
          /\ Untouched(steps[frame'.todo[k]])
    <3> SUFFICES ASSUME NEW k \in 1 .. Len(frame'.todo)
        PROVE  /\ frame'.todo[k] \in 1 .. Len(steps) /\ frame'.todo[k] # frame.todo[1]
               /\ Untouched(steps[frame'.todo[k]])
      OBVIOUS
    <3>1. /\ k + 1 \in 1 .. Len(frame.todo) /\ 1 \in 1 .. Len(frame.todo) /\ k + 1 # 1
          /\ frame'.todo[k] = frame.todo[k + 1]
      BY <1>2, <1>5
    <3> QED
      BY <1>1, <3>1 DEF QueueInv
  <2>2. \A k, l \in 1 .. Len(frame'.todo) : frame'.todo[k] = frame'.todo[l] => k = l
    <3> SUFFICES ASSUME NEW k \in 1 .. Len(frame'.todo), NEW l \in 1 .. Len(frame'.todo),
                        frame'.todo[k] = frame'.todo[l]
        PROVE  k = l
      OBVIOUS
    <3>1. /\ k + 1 \in 1 .. Len(frame.todo) /\ l + 1 \in 1 .. Len(frame.todo)
          /\ frame.todo[k + 1] = frame.todo[l + 1]
      BY <1>5
    <3>2. k + 1 = l + 1
      BY <1>1, <3>1 DEF QueueInv
    <3> QED
      BY <1>2, <1>3, <3>2
  <2>3. ~BeforePlan(frame') /\ frame.todo[1] # 0 /\ frame.todo[1] \in 0 .. Len(steps)
    BY <1>2, <1>3, <1>4 DEF BeforePlan
  <2> QED
    BY <1>1, <1>3, <2>1, <2>2, <2>3 DEF QueueInv, Untouched, OnlyFrame
<1>7. TypeOK' /\ OutsideInv' /\ GateInv'
  BY <1>1, <1>3 DEF Inv, TypeOK, OnlyFrame, OutsideInv, CompletedStepsAreTraced, NotifiedOnce,
                    SuccessMeansDelivered, GateInv, At
<1>8. HandInv'
  <2>1. 0 <= Used'
    BY <1>1, CallConstants DEF TypeOK, Used, OnlyFrame, CallConstants
  <2> QED
    BY <1>1, <1>3, <1>4, <2>1 DEF HandInv, At, OnlyFrame, Untouched
<1> QED
  BY <1>6, <1>7, <1>8 DEF Inv

LEMMA NewRows ==
    ASSUME NEW tool \in PlanTools \cup {"none"}
    PROVE  Row(tool) \in StepType /\ Untouched(Row(tool))
BY CallConstants DEF Row, StepType, Untouched, CallConstants

LEMMA NewRowIsExact ==
    ASSUME TypeOK, NEW tool
    PROVE  RowIsExact(Row(tool))
BY CallConstants DEF TypeOK, Row, RowIsExact, Used, CallConstants

(* The rows of the plan, none of which was worked on.                      *)
LEMMA TracePlannerKeepsInv == Inv /\ TracePlanner => Inv'
<1> SUFFICES ASSUME Inv, TracePlanner PROVE Inv'
  OBVIOUS
<1>1. /\ frame.pc = "trace" /\ frame.agent = "planner" /\ OnlySteps /\ frame \in FrameType
      /\ TypeOK /\ QueueInv /\ HandInv
  BY DEF TracePlanner, At, Inv, TypeOK
<1>2. PICK n \in 1 .. MaxPlanned :
        \E plan \in [1 .. n -> {Row(tool) : tool \in PlanTools \cup {"none"}}] :
          steps' = plan /\ frame' = [frame EXCEPT !.pc = "next", !.todo = [i \in 1 .. n |-> i]]
  BY DEF TracePlanner
<1>3. PICK plan \in [1 .. n -> {Row(tool) : tool \in PlanTools \cup {"none"}}] :
        steps' = plan /\ frame' = [frame EXCEPT !.pc = "next", !.todo = [i \in 1 .. n |-> i]]
  BY <1>2
<1> DEFINE queue == [i \in 1 .. n |-> i]
<1>4. n \in Nat
  BY CallConstants DEF CallConstants
<1>5. /\ plan \in Seq(StepType) /\ Len(plan) = n
      /\ \A i \in 1 .. n : Untouched(plan[i]) /\ \E tool : plan[i] = Row(tool)
  <2>1. \A i \in 1 .. n : \E tool \in PlanTools \cup {"none"} : plan[i] = Row(tool)
    OBVIOUS
  <2>2. \A i \in 1 .. n : plan[i] \in StepType /\ Untouched(plan[i])
    BY <2>1, NewRows
  <2>3. plan \in [1 .. n -> StepType]
    BY <2>2
  <2> QED
    BY <1>4, <2>1, <2>2, <2>3
<1>6. queue \in Seq(Nat) /\ Len(queue) = n /\ \A i \in 1 .. n : queue[i] = i
  <2>1. queue \in [1 .. n -> Nat]
    OBVIOUS
  <2> QED
    BY <1>4, <2>1
<1>7. frame.cur = 0
  BY <1>1 DEF QueueInv, BeforePlan
<1>8. /\ frame' \in FrameType /\ frame'.pc = "next" /\ frame'.cur = 0
      /\ frame'.todo = queue /\ frame'.toolTries = frame.toolTries
  <2>1. "next" \in Pcs
    BY DEF Pcs
  <2> QED
    BY <1>1, <1>3, <1>6, <1>7, <2>1 DEF FrameType
<1>9. TypeOK'
  BY <1>1, <1>3, <1>5, <1>8 DEF TypeOK, OnlySteps
<1>10. QueueInv'
  BY <1>3, <1>4, <1>5, <1>6, <1>8 DEF QueueInv, AtStep, BeforePlan, Untouched
<1>11. OutsideInv'
  <2>1. \A i \in 1 .. n : RowIsExact(plan[i])
    BY <1>1, <1>5, NewRowIsExact
  <2>2. (\A i \in 1 .. Len(steps) : RowIsExact(steps[i]))'
    BY <1>1, <1>3, <1>5, <2>1 DEF RowIsExact, Used, OnlySteps
  <2>3. (OutsideInv <=> \A i \in 1 .. Len(steps) : RowIsExact(steps[i]))'
    BY <1>9, OutsideByRows, PTL
  <2> QED
    BY <2>2, <2>3
<1>12. HandInv' /\ GateInv'
  BY <1>1, <1>8 DEF HandInv, GateInv, At, Used, OnlySteps
<1> QED
  BY <1>9, <1>10, <1>11, <1>12 DEF Inv

LEMMA InjectKeepsInv == Inv /\ Inject => Inv'
<1> SUFFICES ASSUME Inv, Inject PROVE Inv'
  OBVIOUS
<1>1. /\ frame.pc = "inject" /\ OnlySteps /\ frame \in FrameType
      /\ TypeOK /\ QueueInv /\ HandInv /\ GateInv /\ OutsideInv
      /\ frame' = [frame EXCEPT !.pc = "next", !.replans = @ + 1,
                                !.todo = <<Len(steps) + 1>> \o @]
  BY DEF Inject, At, Inv, TypeOK
<1>2. PICK tool \in PlanTools \cup {"none"} : steps' = Append(steps, Row(tool))
  BY DEF Inject
<1> DEFINE queue == <<Len(steps) + 1>> \o frame.todo
<1>3. /\ steps \in Seq(StepType) /\ Len(steps) \in Nat
      /\ frame.todo \in Seq(Nat) /\ Len(frame.todo) \in Nat
  BY <1>1, RowTypes DEF TypeOK
<1>4. /\ steps' \in Seq(StepType) /\ Len(steps') = Len(steps) + 1
      /\ \A i \in 1 .. Len(steps) : steps'[i] = steps[i]
      /\ steps'[Len(steps) + 1] = Row(tool)
  BY <1>2, <1>3, NewRows, AppendProperties
<1>5. /\ queue \in Seq(Nat) /\ Len(queue) = Len(frame.todo) + 1
      /\ queue[1] = Len(steps) + 1
      /\ \A k \in 2 .. Len(queue) : k - 1 \in 1 .. Len(frame.todo) /\ queue[k] = frame.todo[k - 1]
      /\ Len(queue) \in Nat
  <2>1. /\ <<Len(steps) + 1>> \in Seq(Nat) /\ Len(<<Len(steps) + 1>>) = 1
        /\ <<Len(steps) + 1>>[1] = Len(steps) + 1
    BY <1>3
  <2>2. /\ queue \in Seq(Nat) /\ Len(queue) = 1 + Len(frame.todo)
        /\ \A k \in 1 .. 1 + Len(frame.todo) :
             queue[k] = IF k <= 1 THEN <<Len(steps) + 1>>[k] ELSE frame.todo[k - 1]
    BY <1>3, <2>1, ConcatProperties
  <2> QED
    BY <1>3, <2>1, <2>2
<1>6. /\ frame' \in FrameType /\ frame'.pc = "next" /\ frame'.cur = frame.cur
      /\ frame'.todo = queue /\ frame'.toolTries = frame.toolTries
  <2>1. "next" \in Pcs /\ frame.replans + 1 \in 0 .. MaxReplanDepth
    BY <1>1, CallConstants DEF Pcs, GateInv, At, FrameType, CallConstants
  <2> QED
    BY <1>1, <1>5, <2>1 DEF FrameType
<1>7. TypeOK'
  BY <1>1, <1>4, <1>6 DEF TypeOK, OnlySteps
<1> HIDE DEF queue
<1>8. QueueInv'
  <2>1. \A k \in 1 .. Len(queue) :
          \/ k = 1 /\ queue[k] = Len(steps) + 1
          \/ /\ k - 1 \in 1 .. Len(frame.todo) /\ queue[k] = frame.todo[k - 1]
             /\ queue[k] \in 1 .. Len(steps) /\ queue[k] # frame.cur
             /\ Untouched(steps[queue[k]])
    <3> SUFFICES ASSUME NEW k \in 1 .. Len(queue), k # 1
        PROVE  /\ k - 1 \in 1 .. Len(frame.todo) /\ queue[k] = frame.todo[k - 1]
               /\ queue[k] \in 1 .. Len(steps) /\ queue[k] # frame.cur
               /\ Untouched(steps[queue[k]])
      BY <1>5
    <3>1. k - 1 \in 1 .. Len(frame.todo) /\ queue[k] = frame.todo[k - 1]
      <4>1. k \in 2 .. Len(queue)
        BY <1>5
      <4> QED
        BY <1>5, <4>1
    <3> QED
      BY <1>1, <3>1 DEF QueueInv
  <2>2. frame.cur \in 0 .. Len(steps) /\ frame.cur # Len(steps) + 1
    BY <1>1, <1>3 DEF QueueInv
  <2>3. \A k \in 1 .. Len(queue) :
          /\ queue[k] \in 1 .. Len(steps') /\ queue[k] # frame.cur
          /\ Untouched(steps'[queue[k]])
    <3> SUFFICES ASSUME NEW k \in 1 .. Len(queue)
        PROVE  /\ queue[k] \in 1 .. Len(steps') /\ queue[k] # frame.cur
               /\ Untouched(steps'[queue[k]])
      OBVIOUS
    <3>1. CASE k = 1 /\ queue[k] = Len(steps) + 1
      BY <1>3, <1>4, <2>2, <3>1, NewRows
    <3>2. CASE /\ queue[k] \in 1 .. Len(steps) /\ queue[k] # frame.cur
               /\ Untouched(steps[queue[k]])
      <4>1. steps'[queue[k]] = steps[queue[k]]
        BY <1>4, <3>2
      <4> QED
        BY <1>3, <1>4, <3>2, <4>1
    <3> QED
      BY <2>1, <3>1, <3>2
  <2>4. \A k, l \in 1 .. Len(queue) : queue[k] = queue[l] => k = l
    <3> SUFFICES ASSUME NEW k \in 1 .. Len(queue), NEW l \in 1 .. Len(queue), queue[k] = queue[l]
        PROVE  k = l
      OBVIOUS
    <3>1. \A m \in 1 .. Len(queue) : (m = 1 <=> queue[m] = Len(steps) + 1)
      <4> SUFFICES ASSUME NEW m \in 1 .. Len(queue)
          PROVE  m = 1 <=> queue[m] = Len(steps) + 1
        OBVIOUS
      <4>1. CASE m = 1 /\ queue[m] = Len(steps) + 1
        BY <4>1
      <4>2. CASE m - 1 \in 1 .. Len(frame.todo) /\ queue[m] \in 1 .. Len(steps)
        BY <1>3, <4>2
      <4> QED
        BY <2>1, <4>1, <4>2
    <3>2. k = 1 <=> l = 1
      BY <3>1
    <3>3. CASE k = 1
      BY <3>2, <3>3
    <3>4. CASE k # 1
      <4>1. /\ k - 1 \in 1 .. Len(frame.todo) /\ l - 1 \in 1 .. Len(frame.todo)
            /\ frame.todo[k - 1] = frame.todo[l - 1]
        BY <2>1, <3>2, <3>4
      <4>2. k - 1 = l - 1
        BY <1>1, <4>1 DEF QueueInv
      <4> QED
        BY <1>5, <4>2
    <3> QED
      BY <3>3, <3>4
  <2>5. frame.cur \in 0 .. Len(steps')
    BY <1>3, <1>4, <2>2
  <2> QED
    BY <1>6, <2>3, <2>4, <2>5 DEF QueueInv, AtStep, BeforePlan
<1>9. OutsideInv'
  <2>1. \A i \in 1 .. Len(steps') : RowIsExact(steps'[i])
    <3>1. \A i \in 1 .. Len(steps) : RowIsExact(steps[i])
      BY <1>1, OutsideByRows
    <3> QED
      BY <1>1, <1>3, <1>4, <3>1, NewRowIsExact
  <2>2. (\A i \in 1 .. Len(steps) : RowIsExact(steps[i]))'
    BY <1>1, <2>1 DEF RowIsExact, Used, OnlySteps
  <2>3. (OutsideInv <=> \A i \in 1 .. Len(steps) : RowIsExact(steps[i]))'
    BY <1>7, OutsideByRows, PTL
  <2> QED
    BY <2>2, <2>3
<1>10. HandInv' /\ GateInv'
  BY <1>1, <1>6 DEF HandInv, GateInv, At, Used, OnlySteps
<1> QED
  BY <1>7, <1>8, <1>9, <1>10 DEF Inv

-----------------------------------------------------------------------------
LEMMA StutterKeepsInv == Inv /\ UNCHANGED vars => Inv'
<1> SUFFICES ASSUME Inv, UNCHANGED vars PROVE Inv'
  OBVIOUS
<1>1. /\ steps' = steps /\ status' = status /\ requests' = requests
      /\ faults' = faults /\ frame' = frame
  BY DEF vars
<1>2. TypeOK' /\ OutsideInv'
  BY <1>1 DEF Inv, TypeOK, OutsideInv, CompletedStepsAreTraced, NotifiedOnce, SuccessMeansDelivered
<1>3. QueueInv'
  BY <1>1 DEF Inv, QueueInv
<1>4. HandInv' /\ GateInv'
  BY <1>1 DEF Inv, HandInv, GateInv, At, Used
<1> QED
  BY <1>2, <1>3, <1>4 DEF Inv

LEMMA NextKeepsInv == Inv /\ [Next]_vars => Inv'
<1> SUFFICES ASSUME Inv, [Next]_vars PROVE Inv'
  OBVIOUS
<1>1. CASE Progress
  <2>1. CASE Ask
    BY <2>1, AskKeepsInv
  <2>2. CASE Screen \/ Judge
    BY <2>2, RequestKeepsInv
  <2>3. CASE TraceClassifier \/ TraceReplanner
    BY <2>3, TraceKeepsInv
  <2>4. CASE TracePlanner
    BY <2>4, TracePlannerKeepsInv
  <2>5. CASE TraceExecutor
    BY <2>5, TraceExecutorKeepsInv
  <2>6. CASE Inject
    BY <2>6, InjectKeepsInv
  <2>7. CASE NextStep
    BY <2>7, NextStepKeepsInv
  <2>8. CASE LoopEnds \/ ToolNotFound \/ RecordCall \/ WriteOutcome \/ WriteScore
    BY <2>8, WriteKeepsInv
  <2>9. CASE StartStep
    BY <2>9, StartStepKeepsInv
  <2>10. CASE CallTool
    BY <2>10, CallToolKeepsInv
  <2>11. CASE CompleteStep \/ SkipStep
    BY <2>11, CloseKeepsInv
  <2>12. CASE AppendContext
    BY <2>12, AppendContextKeepsInv
  <2> QED
    BY <1>1, <2>1, <2>2, <2>3, <2>4, <2>5, <2>6, <2>7, <2>8, <2>9, <2>10, <2>11, <2>12
       DEF Progress
<1>2. CASE StoreFault
  BY <1>2, StoreFaultKeepsInv
<1>3. CASE UNCHANGED vars
  BY <1>3, StutterKeepsInv
<1> QED
  BY <1>1, <1>2, <1>3 DEF Next

(* The inductive invariant of one attempt: the queue of steps, what was    *)
(* done for the step at hand, and what the rows say of the outside.        *)
THEOREM CallInvariant == Spec => []Inv
<1>1. Init => Inv
  BY InitInv
<1>2. Inv /\ [Next]_vars => Inv'
  BY NextKeepsInv
<1> QED
  BY <1>1, <1>2, PTL DEF Spec

(* Every variable has its type: the counters of tries and replannings stay *)
(* within their settings, a step is never called more often than           *)
(* max_tool_retries.                                                       *)
THEOREM CallsTypeCorrect == Spec => []TypeOK
<1>1. Inv => TypeOK
  BY DEF Inv
<1> QED
  BY <1>1, CallInvariant, PTL

(* However many tries a plan and its agents need, a step notifies the      *)
(* outside once, and once more for each commit or Redis call that failed   *)
(* after a tool had answered (executor.py:123).                            *)
THEOREM StepsNotifyOnce == Spec => []NotifiedOnce
<1>1. Inv => NotifiedOnce
  BY DEF Inv, OutsideInv
<1> QED
  BY <1>1, CallInvariant, PTL

(* A completed step was charged exactly once, and no step is charged twice *)
(* (executor.py:71, the trace before the status).                          *)
THEOREM CompletedStepsAreCharged == Spec => []CompletedStepsAreTraced
<1>1. Inv => CompletedStepsAreTraced
  BY DEF Inv, OutsideInv
<1> QED
  BY <1>1, CallInvariant, PTL

(* A success that Slack's or PagerDuty's tool reports was one: the last    *)
(* report of a step is never better than what was done for it.             *)
THEOREM ReportsAreTrue == Spec => []SuccessMeansDelivered
<1>1. Inv => SuccessMeansDelivered
  BY DEF Inv, OutsideInv
<1> QED
  BY <1>1, CallInvariant, PTL
=============================================================================
