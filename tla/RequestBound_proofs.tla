------------------------- MODULE RequestBound_proofs ------------------------
(***************************************************************************)
(* How much an attempt may ask of the provider, for plans of any length.   *)
(* What is not spent yet covers what the attempt may still ask: for the    *)
(* steps that wait, for the agent at work and for the judge.               *)
(***************************************************************************)
EXTENDS ExternalCalls_proofs

Tries == MaxRetries + 1
Cost(n) == 2 * Tries * n   \* an executor, and a fallback or a replanner

Planned == IF steps = <<>> THEN 1 ELSE Len(steps)
Left == 2 + 2 * Tries + Cost(Planned) - Cost(Len(frame.todo)) - requests

AsksOf(agents) == frame.pc \in {"ask", "trace"} /\ frame.agent \in agents
Again == IF At("ask") THEN Tries - frame.tries ELSE 0

(* The judge is only asked about a completed run.                          *)
Judged ==
    \/ frame.pc \in {"score", "done"}
    \/ At("outcome") /\ frame.outcome # "COMPLETED"

BudgetInv ==
    /\ Left >= IF Judged THEN 0 ELSE 1
    /\ At("screen") => Left >= 2 + 4 * Tries
    /\ AsksOf({"classifier"}) => Left >= 1 + 3 * Tries + Again
    /\ AsksOf({"planner"}) => Left >= 1 + 2 * Tries + Again
    /\ frame.pc \in {"start", "tool", "record"} => Left >= 1 + 2 * Tries
    /\ AsksOf({"executor"}) => Left >= 1 + Tries + Again
    /\ frame.pc \in {"complete", "append"} => Left >= 1 + Tries
    /\ AsksOf({"replanner", "fallback"}) => Left >= 1 + Again
-----------------------------------------------------------------------------
LEMMA CostGrows ==
    ASSUME NEW n \in Nat
    PROVE  /\ Tries \in Nat /\ Tries >= 1
           /\ Cost(n) \in Nat /\ Cost(n + 1) = Cost(n) + 2 * Tries
           /\ Cost(0) = 0
<1>1. Tries \in Nat /\ Tries >= 1
  BY CallConstants DEF CallConstants, Tries
<1> QED
  BY <1>1 DEF Cost

LEMMA Amounts ==
    ASSUME TypeOK
    PROVE  /\ Tries \in Nat /\ Tries >= 1 /\ requests \in Nat
           /\ Len(steps) \in Nat /\ Len(frame.todo) \in Nat /\ Planned \in Nat
           /\ steps # <<>> <=> Len(steps) > 0
           /\ Left \in Int /\ Again \in Int
<1>1. Len(steps) \in Nat /\ Len(frame.todo) \in Nat /\ requests \in Nat
  BY RowTypes DEF TypeOK
<1>2. steps # <<>> <=> Len(steps) > 0
  BY EmptySeq DEF TypeOK
<1>3. Planned \in Nat
  BY <1>1 DEF Planned
<1>4. Cost(Planned) \in Nat /\ Cost(Len(frame.todo)) \in Nat /\ Tries \in Nat /\ Tries >= 1
  BY <1>1, <1>3, CostGrows
<1>5. Left \in Int
  BY <1>1, <1>4 DEF Left
<1>6. Again \in Int
  BY <1>4, CallConstants DEF TypeOK, FrameType, Again, CallConstants
<1> QED
  BY <1>1, <1>2, <1>3, <1>4, <1>5, <1>6

(* A step that leaves plan and queue as long as they were.                 *)
LEMMA OnlyRequests ==
    ASSUME TypeOK, TypeOK', Len(steps') = Len(steps), frame'.todo = frame.todo
    PROVE  Left' = Left - (requests' - requests)
<1>1. /\ steps # <<>> <=> Len(steps) > 0
      /\ Len(steps) \in Nat /\ Planned \in Nat /\ Len(frame.todo) \in Nat
      /\ requests \in Nat /\ requests' \in Nat
  BY Amounts DEF TypeOK
<1>2. steps' # <<>> <=> Len(steps') > 0
  BY EmptySeq DEF TypeOK
<1>3. Planned' = Planned
  BY <1>1, <1>2 DEF Planned
<1>4. Cost(Planned) \in Nat /\ Cost(Len(frame.todo)) \in Nat /\ Tries \in Nat
  BY <1>1, CostGrows
<1>5. Left' = 2 + 2 * Tries + Cost(Planned) - Cost(Len(frame.todo)) - requests'
  BY <1>3 DEF Left
<1> QED
  BY <1>1, <1>4, <1>5 DEF Left

LEMMA InitBudget == Init => BudgetInv
<1> SUFFICES ASSUME Init PROVE BudgetInv
  OBVIOUS
<1>1. /\ frame.pc = "screen" /\ Planned = 1 /\ Len(frame.todo) = 0 /\ requests = 0
  BY DEF Init, Planned
<1>2. /\ Tries \in Nat /\ Tries >= 1 /\ Cost(0) = 0 /\ Cost(1) = 2 * Tries
  BY CostGrows DEF Cost
<1>3. Left = 2 + 4 * Tries
  BY <1>1, <1>2 DEF Left
<1> QED
  BY <1>1, <1>2, <1>3 DEF BudgetInv, At, AsksOf, Judged

-----------------------------------------------------------------------------
(* Requests.                                                               *)

LEMMA ScreenKeepsBudget == Inv /\ TypeOK' /\ BudgetInv /\ Screen => BudgetInv'
<1> SUFFICES ASSUME Inv, TypeOK', BudgetInv, Screen PROVE BudgetInv'
  OBVIOUS
<1>1. /\ frame \in FrameType /\ TypeOK /\ frame.pc = "screen"
      /\ steps' = steps /\ requests' = requests + 1
      /\ frame' = Asking(frame, "classifier") \/ frame' = Ending(frame, "SAFETY_BLOCKED")
  BY DEF Inv, TypeOK, Screen, At
<1>2. /\ frame'.todo = frame.todo
      /\ \/ frame'.pc = "ask" /\ frame'.agent = "classifier" /\ frame'.tries = 0
         \/ frame'.pc = "outcome" /\ frame'.outcome = "SAFETY_BLOCKED"
  BY <1>1, AskingFrame, EndingFrame DEF Alike, Settled, Agents
<1>3. Left' = Left - 1 /\ Left \in Int /\ Tries \in Nat
  BY <1>1, <1>2, OnlyRequests, Amounts
<1>4. Left >= 2 + 4 * Tries
  BY <1>1 DEF BudgetInv, At
<1> QED
  BY <1>2, <1>3, <1>4 DEF BudgetInv, At, AsksOf, Again, Judged

LEMMA JudgeKeepsBudget == Inv /\ TypeOK' /\ BudgetInv /\ Judge => BudgetInv'
<1> SUFFICES ASSUME Inv, TypeOK', BudgetInv, Judge PROVE BudgetInv'
  OBVIOUS
<1>1. /\ frame \in FrameType /\ TypeOK /\ frame.pc = "judge"
      /\ steps' = steps /\ requests' = requests + 1
      /\ \E pc \in {"score", "done"} : frame' = [frame EXCEPT !.pc = pc]
  BY DEF Inv, TypeOK, Judge, At, Goto
<1>2. frame'.todo = frame.todo /\ frame'.pc \in {"score", "done"}
  BY <1>1, GotoFrame DEF Alike, Pcs, StorePcs
<1>3. Left' = Left - 1 /\ Left \in Int
  BY <1>1, <1>2, OnlyRequests, Amounts
<1>4. Left >= 1
  BY <1>1 DEF BudgetInv, At, Judged
<1> QED
  BY <1>2, <1>3, <1>4 DEF BudgetInv, At, AsksOf, Again, Judged

(* What a request of an agent leads to.                                    *)
LEMMA AskLeads ==
    ASSUME TypeOK, Ask
    PROVE  /\ frame.pc = "ask" /\ steps' = steps /\ requests' = requests + 1
           /\ frame'.todo = frame.todo
           /\ \/ frame'.pc = "skip"
              \/ frame'.pc = "trace" /\ frame'.agent = frame.agent
              \/ /\ frame'.pc = "ask" /\ frame'.agent = frame.agent
                 /\ frame'.tries = frame.tries + 1
              \/ frame'.pc = "outcome" /\ frame'.outcome = "FAILED"
              \/ frame'.pc = "ask" /\ frame'.agent = "fallback" /\ frame'.tries = 0
                 /\ frame.agent = "executor"
              \/ frame'.pc \in {"next", "skipAgain"}
<1>1. frame.pc = "ask" /\ steps' = steps /\ requests' = requests + 1
  BY DEF Ask, AskUpTo, At
<1>2. frame \in FrameType
  BY DEF TypeOK
<1>3. \/ \E w \in BOOLEAN, pc \in {"skip", "trace"} : frame' = [frame EXCEPT !.pc = pc, !.wants = w]
      \/ frame' = [frame EXCEPT !.tries = frame.tries + 1]
      \/ frame' = GivenUp(frame)
  <2>1. PICK answer \in Answers :
           IF answer \in Accepted(frame.agent)
           THEN \E wants \in IF frame.agent = "executor" THEN BOOLEAN ELSE {FALSE} :
                  frame' = [frame EXCEPT !.pc = IF frame.agent = "fallback" THEN "skip" ELSE "trace",
                                         !.wants = wants]
           ELSE frame' = IF frame.tries < MaxRetries
                         THEN [frame EXCEPT !.tries = @ + 1] ELSE GivenUp(frame)
    BY DEF Ask, AskUpTo
  <2>2. CASE answer \in Accepted(frame.agent)
    BY <2>1, <2>2
  <2>3. CASE answer \notin Accepted(frame.agent)
    BY <2>1, <2>3
  <2> QED
    BY <2>2, <2>3
<1>4. CASE \E w \in BOOLEAN, pc \in {"skip", "trace"} : frame' = [frame EXCEPT !.pc = pc, !.wants = w]
  BY <1>1, <1>2, <1>4, AnswerFrame DEF Alike, Pcs, StorePcs
<1>5. CASE frame' = [frame EXCEPT !.tries = frame.tries + 1]
  BY <1>1, <1>2, <1>5 DEF FrameType
<1>6. CASE frame' = GivenUp(frame)
  <2>1. \/ frame' = Ending(frame, "FAILED")
        \/ frame' = Asking(frame, "fallback") /\ frame.agent = "executor"
        \/ \E pc \in {"next", "skipAgain"} : frame' = [frame EXCEPT !.pc = pc]
    BY <1>2, <1>6 DEF GivenUp, GivenUpTo, FrameType, Agents
  <2> QED
    BY <1>1, <1>2, <2>1, EndingFrame, AskingFrame, GotoFrame
       DEF Alike, Pcs, StorePcs, Settled, Agents
<1> QED
  BY <1>1, <1>3, <1>4, <1>5, <1>6

LEMMA AskKeepsBudget == Inv /\ TypeOK' /\ BudgetInv /\ Ask => BudgetInv'
<1> SUFFICES ASSUME Inv, TypeOK', BudgetInv, Ask PROVE BudgetInv'
  OBVIOUS
<1>1. /\ frame.agent \in Agents /\ frame.tries \in 0 .. MaxRetries /\ TypeOK
      /\ MaxRetries \in Nat /\ frame'.tries \in Int
  BY CallConstants DEF Inv, TypeOK, FrameType, CallConstants
<1>2. frame.pc = "ask"
  BY <1>1, AskLeads
<1>3. Left' = Left - 1 /\ Left \in Int /\ Tries \in Nat
  BY <1>1, AskLeads, OnlyRequests, Amounts
<1>4. Again = Tries - frame.tries /\ Again >= 1
  BY <1>1, <1>2 DEF Again, At, Tries
<1>5. /\ frame.agent = "classifier" => Left >= 1 + 3 * Tries + Again
      /\ frame.agent = "planner" => Left >= 1 + 2 * Tries + Again
      /\ frame.agent = "executor" => Left >= 1 + Tries + Again
      /\ frame.agent \in {"replanner", "fallback"} => Left >= 1 + Again
  BY <1>2 DEF BudgetInv, AsksOf
<1>6. Left >= 2
  BY <1>1, <1>3, <1>4, <1>5 DEF Agents
<1>7. CASE \/ frame'.pc \in {"skip", "next", "skipAgain"}
           \/ frame'.pc = "outcome" /\ frame'.outcome = "FAILED"
  BY <1>3, <1>6, <1>7 DEF BudgetInv, At, AsksOf, Again, Judged
<1>8. CASE frame'.pc = "trace" /\ frame'.agent = frame.agent
  BY <1>1, <1>3, <1>4, <1>5, <1>6, <1>8 DEF BudgetInv, At, AsksOf, Again, Judged
<1>9. CASE frame'.pc = "ask" /\ frame'.agent = frame.agent /\ frame'.tries = frame.tries + 1
  <2>1. Again' = Again - 1
    BY <1>1, <1>3, <1>4, <1>9 DEF Again, At
  <2> QED
    BY <1>3, <1>4, <1>5, <1>6, <1>9, <2>1 DEF BudgetInv, At, AsksOf, Judged
<1>10. CASE /\ frame'.pc = "ask" /\ frame'.agent = "fallback" /\ frame'.tries = 0
            /\ frame.agent = "executor"
  BY <1>1, <1>3, <1>4, <1>5, <1>6, <1>10 DEF BudgetInv, At, AsksOf, Again, Judged
<1> QED
  BY <1>1, <1>7, <1>8, <1>9, <1>10, AskLeads

-----------------------------------------------------------------------------
(* Steps without a request that keep the length of plan and queue.         *)

(* Where they may lead: what is left suffices there, too.                  *)
Affordable ==
    \/ frame'.pc \in {"next", "skipAgain", "inject"} /\ ~Judged
    \/ frame'.pc = "outcome" /\ (frame'.outcome # "COMPLETED" \/ ~Judged)
    \/ frame'.pc = "judge" /\ ~Judged
    \/ frame'.pc \in {"score", "done"}
    \/ /\ frame'.pc = "ask" /\ frame'.tries = 0
       /\ \/ frame'.agent = "planner" /\ AsksOf({"classifier"})
          \/ frame'.agent = "executor" /\ frame.pc \in {"start", "record"}
          \/ /\ frame'.agent \in {"replanner", "fallback"}
             /\ frame.pc \in {"complete", "append"} \/ AsksOf({"executor"})
    \/ frame'.pc \in {"tool", "record"} /\ frame.pc \in {"start", "tool", "record"}
    \/ frame'.pc = "complete" /\ AsksOf({"executor"})
    \/ frame'.pc = "append" /\ frame.pc = "complete"

LEMMA AffordableStep ==
    ASSUME TypeOK, TypeOK', BudgetInv, Len(steps') = Len(steps), frame'.todo = frame.todo,
           requests' = requests, ~At("ask"), Affordable
    PROVE  BudgetInv'
<1>1. Left' = Left /\ Left \in Int /\ Tries \in Nat /\ Tries >= 1
  BY OnlyRequests, Amounts
<1>2. Again = 0
  BY DEF Again
<1>3. Left >= 0 /\ (~Judged => Left >= 1)
  BY <1>1 DEF BudgetInv
<1>4. CASE ~Judged /\ frame'.pc \in {"next", "skipAgain", "inject", "judge", "outcome"}
  BY <1>1, <1>3, <1>4 DEF BudgetInv, At, AsksOf, Judged
<1>5. CASE \/ frame'.pc = "outcome" /\ frame'.outcome # "COMPLETED"
           \/ frame'.pc \in {"score", "done"}
  BY <1>1, <1>3, <1>5 DEF BudgetInv, At, AsksOf, Judged
<1>6. CASE frame'.pc = "ask" /\ frame'.tries = 0 /\ frame'.agent = "planner" /\ AsksOf({"classifier"})
  <2>1. Left >= 1 + 3 * Tries
    BY <1>1, <1>2, <1>6 DEF BudgetInv
  <2> QED
    BY <1>1, <1>6, <2>1 DEF BudgetInv, At, AsksOf, Again, Judged
<1>7. CASE /\ frame'.pc = "ask" /\ frame'.tries = 0 /\ frame'.agent = "executor"
           /\ frame.pc \in {"start", "record"}
  <2>1. Left >= 1 + 2 * Tries
    BY <1>7 DEF BudgetInv
  <2> QED
    BY <1>1, <1>7, <2>1 DEF BudgetInv, At, AsksOf, Again, Judged
<1>8. CASE /\ frame'.pc = "ask" /\ frame'.tries = 0 /\ frame'.agent \in {"replanner", "fallback"}
           /\ frame.pc \in {"complete", "append"} \/ AsksOf({"executor"})
  <2>1. Left >= 1 + Tries
    BY <1>1, <1>2, <1>8 DEF BudgetInv
  <2> QED
    BY <1>1, <1>8, <2>1 DEF BudgetInv, At, AsksOf, Again, Judged
<1>9. CASE frame'.pc \in {"tool", "record"} /\ frame.pc \in {"start", "tool", "record"}
  <2>1. Left >= 1 + 2 * Tries
    BY <1>9 DEF BudgetInv
  <2> QED
    BY <1>1, <1>9, <2>1 DEF BudgetInv, At, AsksOf, Judged
<1>10. CASE \/ frame'.pc = "complete" /\ AsksOf({"executor"})
            \/ frame'.pc = "append" /\ frame.pc = "complete"
  <2>1. Left >= 1 + Tries
    BY <1>1, <1>2, <1>10 DEF BudgetInv
  <2> QED
    BY <1>1, <1>10, <2>1 DEF BudgetInv, At, AsksOf, Judged
<1> QED
  BY <1>4, <1>5, <1>6, <1>7, <1>8, <1>9, <1>10 DEF Affordable

LEMMA TraceKeepsBudget ==
    Inv /\ TypeOK' /\ BudgetInv /\ (TraceClassifier \/ TraceReplanner) => BudgetInv'
<1> SUFFICES ASSUME Inv, TypeOK', BudgetInv, TraceClassifier \/ TraceReplanner PROVE BudgetInv'
  OBVIOUS
<1>1. /\ frame \in FrameType /\ TypeOK /\ frame.pc = "trace"
      /\ steps' = steps /\ requests' = requests
  BY DEF Inv, TypeOK, TraceClassifier, TraceReplanner, OnlyFrame, At
<1>2. \/ frame.agent = "classifier" /\ frame' = Asking(frame, "planner")
      \/ frame' = Ending(frame, "NEEDS_REVIEW")
      \/ \E pc \in {"inject", "next"} : frame' = [frame EXCEPT !.pc = pc]
  BY DEF TraceClassifier, TraceReplanner, Goto
<1>3. /\ frame'.todo = frame.todo
      /\ \/ /\ frame.agent = "classifier"
            /\ frame'.pc = "ask" /\ frame'.agent = "planner" /\ frame'.tries = 0
         \/ frame'.pc = "outcome" /\ frame'.outcome = "NEEDS_REVIEW"
         \/ frame'.pc \in {"inject", "next"}
  BY <1>1, <1>2, AskingFrame, EndingFrame, GotoFrame DEF Alike, Pcs, StorePcs, Settled, Agents
<1>4. Affordable /\ ~At("ask")
  BY <1>1, <1>3 DEF Affordable, AsksOf, Judged, At
<1> QED
  BY <1>1, <1>3, <1>4, AffordableStep

LEMMA WriteKeepsBudget ==
    /\ Inv /\ TypeOK' /\ BudgetInv
    /\ LoopEnds \/ ToolNotFound \/ RecordCall \/ AppendContext \/ WriteOutcome \/ WriteScore
    => BudgetInv'
<1> SUFFICES ASSUME Inv, TypeOK', BudgetInv,
                    LoopEnds \/ ToolNotFound \/ RecordCall \/ AppendContext \/ WriteOutcome \/ WriteScore
    PROVE  BudgetInv'
  OBVIOUS
<1>1. /\ frame \in FrameType /\ TypeOK /\ steps' = steps /\ requests' = requests
  BY DEF Inv, TypeOK, LoopEnds, ToolNotFound, RecordCall, AppendContext, WriteOutcome, WriteScore,
         OnlyFrame
<1>2. \/ frame.pc = "next" /\ frame' = Ending(frame, "COMPLETED")
      \/ frame.pc = "tool" /\ frame' = Ending(frame, "FAILED")
      \/ frame.pc = "record" /\ frame' = Asking(frame, "executor")
      \/ frame.pc = "append" /\ frame' = Asking(frame, "replanner")
      \/ frame.pc = "append" /\ frame' = [frame EXCEPT !.pc = "next"]
      \/ /\ frame.pc = "outcome" /\ frame.outcome = "COMPLETED"
         /\ frame' = [frame EXCEPT !.pc = "judge"]
      \/ frame.pc \in {"outcome", "score"} /\ frame' = [frame EXCEPT !.pc = "done"]
  <2>1. CASE LoopEnds
    BY <2>1 DEF LoopEnds, At
  <2>2. CASE ToolNotFound
    BY <2>2 DEF ToolNotFound, At
  <2>3. CASE RecordCall
    BY <2>3 DEF RecordCall, At
  <2>4. CASE AppendContext
    BY <2>4 DEF AppendContext, At
  <2>5. CASE WriteOutcome
    BY <2>5 DEF WriteOutcome, At, Goto
  <2>6. CASE WriteScore
    BY <2>6 DEF WriteScore, At, Goto
  <2> QED
    BY <2>1, <2>2, <2>3, <2>4, <2>5, <2>6
<1>3. /\ frame'.todo = frame.todo
      /\ \/ frame.pc = "next" /\ frame'.pc = "outcome"
         \/ frame.pc = "tool" /\ frame'.pc = "outcome"
         \/ /\ frame.pc = "record" /\ frame'.pc = "ask"
            /\ frame'.agent = "executor" /\ frame'.tries = 0
         \/ /\ frame.pc = "append" /\ frame'.pc = "ask"
            /\ frame'.agent = "replanner" /\ frame'.tries = 0
         \/ frame.pc = "append" /\ frame'.pc = "next"
         \/ frame.pc = "outcome" /\ frame.outcome = "COMPLETED" /\ frame'.pc = "judge"
         \/ frame.pc \in {"outcome", "score"} /\ frame'.pc = "done"
  BY <1>1, <1>2, AskingFrame, EndingFrame, GotoFrame DEF Alike, Pcs, StorePcs, Settled, Agents
<1>4. Affordable /\ ~At("ask")
  BY <1>3 DEF Affordable, AsksOf, Judged, At
<1> QED
  BY <1>1, <1>3, <1>4, AffordableStep

LEMMA RowKeepsBudget ==
    /\ Inv /\ TypeOK' /\ BudgetInv
    /\ TraceExecutor \/ StartStep \/ CallTool \/ CompleteStep \/ SkipStep
    => BudgetInv'
<1> SUFFICES ASSUME Inv, TypeOK', BudgetInv,
                    TraceExecutor \/ StartStep \/ CallTool \/ CompleteStep \/ SkipStep
    PROVE  BudgetInv'
  OBVIOUS
<1>1. /\ frame \in FrameType /\ TypeOK /\ steps \in Seq(StepType) /\ requests' = requests
  BY DEF Inv, TypeOK, TraceExecutor, StartStep, CallTool, CallToolTo, CompleteStep, SkipStep,
         CloseStep, OnlySteps
<1>2. \/ /\ frame.pc = "trace" /\ frame.agent = "executor"
         /\ frame' = [frame EXCEPT !.pc = "complete"]
      \/ frame.pc = "start" /\ frame' = Asking(frame, "executor")
      \/ frame.pc = "start" /\ frame' = [frame EXCEPT !.pc = "tool"]
      \/ frame.pc = "tool" /\ frame' = [frame EXCEPT !.pc = "record"]
      \/ frame.pc = "complete" /\ frame' = [frame EXCEPT !.pc = "append"]
      \/ frame.pc \in {"skip", "skipAgain"} /\ frame' = [frame EXCEPT !.pc = "next"]
  <2>1. CASE TraceExecutor
    BY <2>1 DEF TraceExecutor, At, Goto
  <2>2. CASE StartStep
    BY <2>2 DEF StartStep, At
  <2>3. CASE CallTool
    BY <2>3 DEF CallTool, CallToolTo, At
  <2>4. CASE CompleteStep
    BY <2>4 DEF CompleteStep, CloseStep, At, Goto
  <2>5. CASE SkipStep
    BY <2>5 DEF SkipStep, CloseStep, At, Goto
  <2> QED
    BY <2>1, <2>2, <2>3, <2>4, <2>5
<1>3. /\ frame'.todo = frame.todo
      /\ \/ frame.pc = "trace" /\ frame.agent = "executor" /\ frame'.pc = "complete"
         \/ /\ frame.pc = "start" /\ frame'.pc = "ask"
            /\ frame'.agent = "executor" /\ frame'.tries = 0
         \/ frame.pc = "start" /\ frame'.pc = "tool"
         \/ frame.pc = "tool" /\ frame'.pc = "record"
         \/ frame.pc = "complete" /\ frame'.pc = "append"
         \/ frame.pc \in {"skip", "skipAgain"} /\ frame'.pc = "next"
  BY <1>1, <1>2, AskingFrame, GotoFrame DEF Alike, Pcs, StorePcs, Agents
<1>4. Affordable /\ ~At("ask")
  BY <1>3 DEF Affordable, AsksOf, Judged, At
<1>5. Len(steps') = Len(steps)
  <2>1. DOMAIN steps' = DOMAIN steps
    BY DEF TraceExecutor, StartStep, CallTool, CallToolTo, CompleteStep, SkipStep, CloseStep
  <2> QED
    BY <1>1, <2>1, LenProperties DEF TypeOK
<1> QED
  BY <1>1, <1>3, <1>4, <1>5, AffordableStep

(* Every case of Raised.                                                   *)
LEMMA FaultKeepsBudget == Inv /\ TypeOK' /\ BudgetInv /\ StoreFault => BudgetInv'
<1> SUFFICES ASSUME Inv, TypeOK', BudgetInv, StoreFault PROVE BudgetInv'
  OBVIOUS
<1>1. /\ frame \in FrameType /\ TypeOK /\ steps' = steps /\ requests' = requests
      /\ frame.pc \in StorePcs /\ frame' = Raised(frame)
  BY DEF Inv, TypeOK, StoreFault
<1>2. \/ /\ frame.pc = "record"
         /\ frame' = [frame EXCEPT !.pc = "tool", !.toolTries = @ + 1]
      \/ /\ frame.pc \in {"complete", "append"} \/ AsksOf({"executor"})
         /\ frame' = Asking([frame EXCEPT !.wants = FALSE], "fallback")
      \/ frame.pc = "skip" /\ frame' = [frame EXCEPT !.pc = "skipAgain"]
      \/ /\ frame.pc \in {"inject", "trace"} /\ frame' = [frame EXCEPT !.pc = "next"]
      \/ frame.pc = "outcome" /\ frame' = [frame EXCEPT !.pc = "done"]
      \/ frame' = Ending(frame, "FAILED")
  BY <1>1 DEF Raised, AsksOf
<1>3. /\ frame'.todo = frame.todo
      /\ \/ frame.pc = "record" /\ frame'.pc = "tool"
         \/ /\ frame.pc \in {"complete", "append"} \/ AsksOf({"executor"})
            /\ frame'.pc = "ask" /\ frame'.agent = "fallback" /\ frame'.tries = 0
         \/ frame.pc = "skip" /\ frame'.pc = "skipAgain"
         \/ frame.pc \in {"inject", "trace"} /\ frame'.pc = "next"
         \/ frame.pc = "outcome" /\ frame'.pc = "done"
         \/ frame'.pc = "outcome" /\ frame'.outcome = "FAILED"
  BY <1>1, <1>2 DEF FrameType, Asking, Ending
<1>4. Affordable /\ ~At("ask")
  BY <1>1, <1>3 DEF Affordable, Judged, At, StorePcs
<1> QED
  BY <1>1, <1>3, <1>4, AffordableStep

-----------------------------------------------------------------------------
(* Steps that change the length of plan or queue.                          *)

LEMMA TracePlannerKeepsBudget == Inv /\ TypeOK' /\ BudgetInv /\ TracePlanner => BudgetInv'
<1> SUFFICES ASSUME Inv, TypeOK', BudgetInv, TracePlanner PROVE BudgetInv'
  OBVIOUS
<1>1. /\ frame.pc = "trace" /\ frame.agent = "planner" /\ frame \in FrameType
      /\ TypeOK /\ QueueInv /\ requests' = requests
  BY DEF TracePlanner, At, Inv, TypeOK, OnlySteps
<1>2. PICK n \in 1 .. MaxPlanned :
        \E plan \in [1 .. n -> {Row(tool) : tool \in PlanTools \cup {"none"}}] :
          steps' = plan /\ frame' = [frame EXCEPT !.pc = "next", !.todo = [i \in 1 .. n |-> i]]
  BY DEF TracePlanner
<1>3. n \in Nat /\ n >= 1
  BY CallConstants DEF CallConstants
<1>4. frame'.pc = "next" /\ frame'.todo = [i \in 1 .. n |-> i]
  BY <1>1, <1>2 DEF FrameType
<1>5. Len(steps') = n /\ Len(frame'.todo) = n
  <2>1. DOMAIN steps' = 1 .. n /\ DOMAIN frame'.todo = 1 .. n
    BY <1>2, <1>4
  <2>2. steps' \in Seq(StepType) /\ frame'.todo \in Seq(Nat)
    BY DEF TypeOK, FrameType
  <2> QED
    BY <1>3, <2>1, <2>2, LenProperties
<1>6. Planned = 1 /\ Len(frame.todo) = 0
  BY <1>1 DEF QueueInv, BeforePlan, Planned
<1>7. Planned' = n
  <2>1. steps' # <<>>
    BY <1>3, <1>5
  <2> QED
    BY <1>5, <2>1 DEF Planned
<1>8. /\ Cost(0) = 0 /\ Cost(1) = 2 * Tries /\ Cost(n) \in Nat
      /\ Tries \in Nat /\ requests \in Nat
  BY <1>1, <1>3, CostGrows, Amounts DEF Cost
<1>9. Left = 2 + 4 * Tries - requests
  BY <1>6, <1>8 DEF Left
<1>10. Left' = 2 + 2 * Tries - requests
  <2>1. Left' = 2 + 2 * Tries + Cost(n) - Cost(n) - requests
    BY <1>1, <1>5, <1>7 DEF Left
  <2> QED
    BY <1>8, <2>1
<1>11. Left >= 1 + 2 * Tries
  <2>1. Again = 0 /\ AsksOf({"planner"})
    BY <1>1 DEF Again, At, AsksOf
  <2> QED
    BY <1>8, <2>1 DEF BudgetInv
<1> QED
  BY <1>4, <1>8, <1>9, <1>10, <1>11 DEF BudgetInv, At, AsksOf, Judged

LEMMA NextStepKeepsBudget == Inv /\ TypeOK' /\ BudgetInv /\ NextStep => BudgetInv'
<1> SUFFICES ASSUME Inv, TypeOK', BudgetInv, NextStep PROVE BudgetInv'
  OBVIOUS
<1>1. /\ frame.pc = "next" /\ frame.todo # <<>> /\ frame \in FrameType /\ TypeOK
      /\ steps' = steps /\ requests' = requests
      /\ frame' = [frame EXCEPT !.pc = "start", !.cur = Head(frame.todo), !.todo = Tail(@),
                                !.toolTries = 0, !.wants = FALSE]
  BY DEF NextStep, At, OnlyFrame, Inv, TypeOK
<1>2. frame'.pc = "start" /\ frame'.todo = Tail(frame.todo)
  BY <1>1 DEF FrameType
<1>3. /\ Len(frame.todo) - 1 \in Nat /\ Len(frame'.todo) = Len(frame.todo) - 1
      /\ Len(frame.todo) \in Nat
  BY <1>1, <1>2, RowTypes, EmptySeq, HeadTailProperties
<1>4. /\ Cost(Len(frame.todo)) = Cost(Len(frame'.todo)) + 2 * Tries
      /\ Cost(Len(frame'.todo)) \in Nat /\ Tries \in Nat /\ requests \in Nat
      /\ Planned \in Nat /\ Cost(Planned) \in Nat
  <2>1. Planned \in Nat /\ requests \in Nat
    BY <1>1, Amounts
  <2>2. Cost(Len(frame.todo) - 1 + 1) = Cost(Len(frame.todo) - 1) + 2 * Tries
    BY <1>3, CostGrows
  <2>3. Len(frame.todo) - 1 + 1 = Len(frame.todo)
    BY <1>3
  <2>4. Cost(Len(frame'.todo)) \in Nat /\ Cost(Planned) \in Nat /\ Tries \in Nat
    BY <1>3, <2>1, CostGrows
  <2> QED
    BY <1>3, <2>1, <2>2, <2>3, <2>4
<1>5. Left' = Left + 2 * Tries /\ Left \in Int
  <2>1. Planned' = Planned
    BY <1>1 DEF Planned
  <2>2. Left' = 2 + 2 * Tries + Cost(Planned) - Cost(Len(frame'.todo)) - requests
    BY <1>1, <2>1 DEF Left
  <2> QED
    BY <1>4, <2>2 DEF Left
<1>6. Left >= 1
  BY <1>1 DEF BudgetInv, Judged, At
<1> QED
  BY <1>2, <1>4, <1>5, <1>6 DEF BudgetInv, At, AsksOf, Judged

LEMMA InjectKeepsBudget == Inv /\ TypeOK' /\ BudgetInv /\ Inject => BudgetInv'
<1> SUFFICES ASSUME Inv, TypeOK', BudgetInv, Inject PROVE BudgetInv'
  OBVIOUS
<1>1. /\ frame.pc = "inject" /\ frame \in FrameType /\ TypeOK /\ QueueInv /\ requests' = requests
      /\ frame' = [frame EXCEPT !.pc = "next", !.replans = @ + 1,
                                !.todo = <<Len(steps) + 1>> \o @]
  BY DEF Inject, At, Inv, TypeOK, OnlySteps
<1>2. PICK tool \in PlanTools \cup {"none"} : steps' = Append(steps, Row(tool))
  BY DEF Inject
<1>3. /\ Len(steps) \in Nat /\ Len(frame.todo) \in Nat /\ steps # <<>>
      /\ Planned = Len(steps)
  <2>1. frame.cur \in 0 .. Len(steps) /\ frame.cur # 0
    BY <1>1 DEF QueueInv, AtStep
  <2>2. Len(steps) \in Nat /\ Len(frame.todo) \in Nat /\ (steps # <<>> <=> Len(steps) > 0)
    BY <1>1, Amounts
  <2>3. steps # <<>>
    BY <2>1, <2>2
  <2> QED
    BY <2>2, <2>3 DEF Planned
<1>4. Len(steps') = Len(steps) + 1 /\ Planned' = Len(steps) + 1
  <2>1. Len(steps') = Len(steps) + 1 /\ steps' # <<>>
    BY <1>1, <1>2, NewRows, AppendProperties DEF TypeOK
  <2> QED
    BY <2>1 DEF Planned
<1>5. frame'.pc = "next" /\ Len(frame'.todo) = Len(frame.todo) + 1
  <2>1. frame'.pc = "next" /\ frame'.todo = <<Len(steps) + 1>> \o frame.todo
    BY <1>1 DEF FrameType
  <2>2. <<Len(steps) + 1>> \in Seq(Nat) /\ Len(<<Len(steps) + 1>>) = 1 /\ frame.todo \in Seq(Nat)
    BY <1>1, <1>3, RowTypes
  <2>3. Len(<<Len(steps) + 1>> \o frame.todo) = 1 + Len(frame.todo)
    BY <2>2, ConcatProperties
  <2> QED
    BY <1>3, <2>1, <2>3
<1>6. /\ Cost(Len(steps) + 1) = Cost(Len(steps)) + 2 * Tries
      /\ Cost(Len(frame.todo) + 1) = Cost(Len(frame.todo)) + 2 * Tries
      /\ Cost(Len(steps)) \in Nat /\ Cost(Len(frame.todo)) \in Nat
      /\ Tries \in Nat /\ requests \in Nat
  BY <1>1, <1>3, CostGrows, Amounts
<1>7. Left' = Left /\ Left \in Int
  <2>1. Left' = 2 + 2 * Tries + Cost(Len(steps) + 1) - Cost(Len(frame.todo) + 1) - requests
    BY <1>1, <1>4, <1>5 DEF Left
  <2>2. Left = 2 + 2 * Tries + Cost(Len(steps)) - Cost(Len(frame.todo)) - requests
    BY <1>3 DEF Left
  <2> QED
    BY <1>6, <2>1, <2>2
<1>8. Left >= 1
  BY <1>1 DEF BudgetInv, Judged, At
<1> QED
  BY <1>5, <1>7, <1>8 DEF BudgetInv, At, AsksOf, Judged

-----------------------------------------------------------------------------
LEMMA StutterKeepsBudget == BudgetInv /\ UNCHANGED vars => BudgetInv'
BY DEF vars, BudgetInv, Left, Planned, AsksOf, Again, Judged, At

LEMMA NextKeepsBudget == Inv /\ TypeOK' /\ BudgetInv /\ [Next]_vars => BudgetInv'
<1> SUFFICES ASSUME Inv, TypeOK', BudgetInv, [Next]_vars PROVE BudgetInv'
  OBVIOUS
<1>1. CASE Progress
  <2>1. CASE Screen
    BY <2>1, ScreenKeepsBudget
  <2>2. CASE Judge
    BY <2>2, JudgeKeepsBudget
  <2>3. CASE Ask
    BY <2>3, AskKeepsBudget
  <2>4. CASE TraceClassifier \/ TraceReplanner
    BY <2>4, TraceKeepsBudget
  <2>5. CASE LoopEnds \/ ToolNotFound \/ RecordCall \/ AppendContext \/ WriteOutcome \/ WriteScore
    BY <2>5, WriteKeepsBudget
  <2>6. CASE TraceExecutor \/ StartStep \/ CallTool \/ CompleteStep \/ SkipStep
    BY <2>6, RowKeepsBudget
  <2>7. CASE TracePlanner
    BY <2>7, TracePlannerKeepsBudget
  <2>8. CASE NextStep
    BY <2>8, NextStepKeepsBudget
  <2>9. CASE Inject
    BY <2>9, InjectKeepsBudget
  <2> QED
    BY <1>1, <2>1, <2>2, <2>3, <2>4, <2>5, <2>6, <2>7, <2>8, <2>9 DEF Progress
<1>2. CASE StoreFault
  BY <1>2, FaultKeepsBudget
<1>3. CASE UNCHANGED vars
  BY <1>3, StutterKeepsBudget
<1> QED
  BY <1>1, <1>2, <1>3 DEF Next

(* An attempt never asks the provider for more than its plan costs         *)
(* (README.md:432, base_agent.py): two agents before the plan, two agents  *)
(* a step, replanned ones included, the safety check and the judge, each   *)
(* agent max_retries + 1 times.                                            *)
THEOREM RequestsStayInBudget == Spec => []RequestsAreBounded
<1>1. Init => BudgetInv
  BY InitBudget
<1>2. Inv /\ Inv' /\ BudgetInv /\ [Next]_vars => BudgetInv'
  BY NextKeepsBudget DEF Inv
<1>3. Inv /\ BudgetInv => RequestsAreBounded
  <2> SUFFICES ASSUME Inv, BudgetInv PROVE RequestsAreBounded
    OBVIOUS
  <2>1. /\ Planned \in Nat /\ Len(frame.todo) \in Nat /\ requests \in Nat /\ Left \in Int
        /\ Tries \in Nat
    BY Amounts DEF Inv
  <2>2. Left >= 0
    BY <2>1 DEF BudgetInv
  <2>3. Cost(Planned) \in Nat /\ Cost(Len(frame.todo)) \in Nat
    BY <2>1, CostGrows
  <2>4. requests <= 2 + 2 * Tries + Cost(Planned)
    BY <2>1, <2>2, <2>3 DEF Left
  <2>5. 2 * Tries + Cost(Planned) = Tries * (2 + 2 * Planned)
    BY <2>1 DEF Cost
  <2>6. requests <= 2 + Tries * (2 + 2 * Planned)
    BY <2>1, <2>3, <2>4, <2>5
  <2> QED
    BY <2>6 DEF RequestsAreBounded, Planned, Tries
<1> QED
  BY <1>1, <1>2, <1>3, CallInvariant, PTL DEF Spec
=============================================================================
