--------------------------- MODULE ExternalCalls ----------------------------
(***************************************************************************)
(* One attempt of run_workflow as the outside world sees it: every call of *)
(* the LLM client (which may repeat HTTP requests by itself), with the     *)
(* retry loop of BaseAgent.run around it and the ways in which each agent  *)
(* refuses or repairs an answer; every tool call, with what it did outside *)
(* and what it reported; and the rows of llm_traces from which the costs   *)
(* of a run are computed.  The semantic cache is off.                      *)
(*                                                                         *)
(* Module Orchestrator has the same attempt with an agent or tool call as  *)
(* one step, and the stores in full; here a step's row is its status.      *)
(***************************************************************************)
EXTENDS Tools, Naturals, Sequences

CONSTANTS
    PlanTools,       \* the tools that a plan may name, or Unregistered
    MaxPlanned,      \* most steps of a plan
    MaxReplanDepth,  \* settings.max_replan_depth
    MaxRetries,      \* BaseAgent.max_retries
    MaxToolTries,    \* settings.max_tool_retries
    MaxStoreFaults   \* commits and Redis calls that fail

ASSUME CallConstants ==
    /\ PlanTools \subseteq Registered \cup {Unregistered}
    /\ {MaxReplanDepth, MaxRetries, MaxStoreFaults} \subseteq Nat
    /\ {MaxPlanned, MaxToolTries} \subseteq Nat \ {0}

VARIABLES
    status,    \* the status the attempt gave the run
    steps,     \* the steps of the plan, and those injected into it
    frame,     \* the locals of run_workflow and its callees
    requests,  \* calls of the LLM client
    faults     \* store operations that may still fail

vars == <<status, steps, frame, requests, faults>>

Agents == {"classifier", "planner", "executor", "replanner", "fallback"}
Settled == {"COMPLETED", "FAILED", "NEEDS_REVIEW", "SAFETY_BLOCKED"}
Closed == {"COMPLETED", "SKIPPED"}
-----------------------------------------------------------------------------
(* A pc names what comes next; "ask" is a request by frame.agent, of which *)
(* tries have been made.  todo is remaining_steps.                         *)
StorePcs == {"trace", "start", "record", "complete", "append", "skip",
             "skipAgain", "inject", "outcome", "score"}
Pcs == StorePcs \cup {"screen", "ask", "next", "tool", "judge", "done"}

Init ==
    /\ status = "RUNNING" /\ steps = <<>>
    /\ frame = [pc |-> "screen", agent |-> "classifier", tries |-> 0, todo |-> <<>>,
                cur |-> 0, toolTries |-> 0, wants |-> FALSE, replans |-> 0,
                outcome |-> "none"]
    /\ requests = 0 /\ faults = MaxStoreFaults

At(pc) == frame.pc = pc
Goto(pc) == frame' = [frame EXCEPT !.pc = pc]
OnlyFrame == UNCHANGED <<status, steps, requests, faults>>
OnlySteps == UNCHANGED <<status, requests, faults>>

Asking(f, agent) == [f EXCEPT !.pc = "ask", !.agent = agent, !.tries = 0]
Ending(f, outcome) == [f EXCEPT !.pc = "outcome", !.outcome = outcome]

Row(tool) == [status |-> "PENDING", tool |-> tool,
              traces |-> 0, effects |-> 0, success |-> FALSE]
-----------------------------------------------------------------------------
(* What comes back from a request: an exception (no connection, rate       *)
(* limit, timeout, arguments that are not JSON); text instead of a tool    *)
(* call; arguments that not even a repair makes an answer of (not an       *)
(* object, a severity that is not a string); an object that misses the     *)
(* schema; an answer.                                                      *)
Answers == {"exception", "text", "beyondRepair", "misfit", "good"}

(* parse_tool_call: the executor coerces a misfit field by field, the      *)
(* fallback replaces it by a fixed answer, the others raise.               *)
Accepted(agent) ==
    IF agent \in {"executor", "fallback"} THEN {"misfit", "good"} ELSE {"good"}

(* Where LLMResponseError goes once an agent has given up.                 *)
GivenUpTo(f, onFallback) ==
    CASE f.agent \in {"classifier", "planner"} -> Ending(f, "FAILED")
      [] f.agent = "executor"                  -> Asking(f, "fallback")
      [] f.agent = "replanner"                 -> [f EXCEPT !.pc = "next"]
      [] f.agent = "fallback"                  -> onFallback
GivenUpFailing(f) == GivenUpTo(f, Ending(f, "FAILED"))   \* mutant: not caught for the fallback
GivenUpAgain(f) == GivenUpTo(f, Asking(f, "fallback"))   \* mutant: the fallback of the fallback
GivenUp(f) == GivenUpTo(f, [f EXCEPT !.pc = "skipAgain"])

(* BaseAgent.run: the answer is accepted, refused and asked for again, or  *)
(* refused for the last time.                                              *)
AskUpTo(lastTry, accepted) ==
    /\ At("ask")
    /\ requests' = requests + 1
    /\ \E answer \in Answers :
         IF answer \in Accepted(frame.agent)
         THEN \E wants \in IF frame.agent = "executor" THEN BOOLEAN ELSE {FALSE} :
                frame' = [frame EXCEPT !.pc = accepted, !.wants = wants]
         ELSE frame' = IF frame.tries < lastTry
                       THEN [frame EXCEPT !.tries = @ + 1]
                       ELSE GivenUp(frame)
    /\ UNCHANGED <<status, steps, faults>>

AskOnceMore == AskUpTo(MaxRetries + 1, IF frame.agent = "fallback" THEN "skip" ELSE "trace")  \* mutant
AskUntraced ==  \* mutant: the executor's trace is left out
    AskUpTo(MaxRetries, IF frame.agent = "fallback" THEN "skip"
                        ELSE IF frame.agent = "executor" THEN "complete" ELSE "trace")
Ask == AskUpTo(MaxRetries, IF frame.agent = "fallback" THEN "skip" ELSE "trace")

(* check_safety: one request; whatever is not a verdict counts as safe.    *)
Screen ==
    /\ At("screen")
    /\ requests' = requests + 1
    /\ frame' \in {Asking(frame, "classifier"), Ending(frame, "SAFETY_BLOCKED")}
    /\ UNCHANGED <<status, steps, faults>>

(* evaluate_output: one request; whatever is not a score counts as none.   *)
Judge ==
    /\ At("judge")
    /\ requests' = requests + 1
    /\ \E pc \in {"score", "done"} : Goto(pc)
    /\ UNCHANGED <<status, steps, faults>>
-----------------------------------------------------------------------------
(* record_llm_trace, and what run_workflow does with the answer: the       *)
(* confidence gate, the rows of the plan, the result of a step, the        *)
(* decision to replan.  The fallback's answers are not traced.             *)
TraceClassifier ==
    /\ At("trace") /\ frame.agent = "classifier"
    /\ frame' \in {Asking(frame, "planner"), Ending(frame, "NEEDS_REVIEW")}
    /\ OnlyFrame

TracePlanner ==
    /\ At("trace") /\ frame.agent = "planner"
    /\ \E n \in 1 .. MaxPlanned :
         \E plan \in [1 .. n -> {Row(tool) : tool \in PlanTools \cup {"none"}}] :
           /\ steps' = plan
           /\ frame' = [frame EXCEPT !.pc = "next", !.todo = [i \in 1 .. n |-> i]]
    /\ OnlySteps

TraceExecutor ==
    /\ At("trace") /\ frame.agent = "executor"
    /\ steps' = [steps EXCEPT ![frame.cur].traces = @ + 1]
    /\ Goto("complete")
    /\ OnlySteps

TraceReplanner ==
    /\ At("trace") /\ frame.agent = "replanner"
    /\ \E pc \in {"inject", "next"} : Goto(pc)
    /\ OnlyFrame

(* create_replan_steps, for one new step.                                  *)
Inject ==
    /\ At("inject")
    /\ \E tool \in PlanTools \cup {"none"} : steps' = Append(steps, Row(tool))
    /\ frame' = [frame EXCEPT !.pc = "next", !.replans = @ + 1,
                              !.todo = <<Len(steps) + 1>> \o @]
    /\ OnlySteps
-----------------------------------------------------------------------------
NextStep ==
    /\ At("next") /\ frame.todo # <<>>
    /\ frame' = [frame EXCEPT !.pc = "start", !.cur = Head(frame.todo), !.todo = Tail(@),
                              !.toolTries = 0, !.wants = FALSE]
    /\ OnlyFrame

LoopEnds == At("next") /\ frame.todo = <<>> /\ frame' = Ending(frame, "COMPLETED") /\ OnlyFrame

(* execute_step up to the tool call.                                       *)
StartStep ==
    /\ At("start")
    /\ steps' = [steps EXCEPT ![frame.cur].status = "RUNNING"]
    /\ frame' = IF steps[frame.cur].tool = "none" THEN Asking(frame, "executor")
                ELSE [frame EXCEPT !.pc = "tool"]
    /\ OnlySteps

(* One try of _execute_tool_with_retries: the result goes to the log and   *)
(* to the executor, whether it is a success or not.                        *)
CallToolTo(onFailure) ==
    /\ At("tool") /\ steps[frame.cur].tool # Unregistered
    /\ LET tool == steps[frame.cur].tool
       IN  \E reply \in Replies(tool) :
             \E n \in Effects(tool, reply) :
               LET success == Succeeds(tool, reply) IN
               /\ steps' = [steps EXCEPT ![frame.cur].effects = @ + n,
                                         ![frame.cur].success = success]
               /\ frame' = IF success THEN [frame EXCEPT !.pc = "record"] ELSE onFailure
    /\ OnlySteps

CallToolRetrying ==  \* mutant: a reported failure is tried again
    CallToolTo(IF frame.toolTries = MaxToolTries - 1 THEN [frame EXCEPT !.pc = "record"]
               ELSE [frame EXCEPT !.toolTries = @ + 1])
CallTool == CallToolTo([frame EXCEPT !.pc = "record"])

(* KeyError in the registry: no retry and no fallback.                     *)
ToolNotFound ==
    /\ At("tool") /\ steps[frame.cur].tool = Unregistered
    /\ frame' = Ending(frame, "FAILED")
    /\ OnlyFrame

RecordCall == At("record") /\ frame' = Asking(frame, "executor") /\ OnlyFrame

CloseStep(st, pc) ==
    /\ steps' = [steps EXCEPT ![frame.cur].status = st]
    /\ Goto(pc)
    /\ OnlySteps
CompleteStep == At("complete") /\ CloseStep("COMPLETED", "append")
SkipStep == (At("skip") \/ At("skipAgain")) /\ CloseStep("SKIPPED", "next")

(* append_completed_step and the re-planning hook.                         *)
AppendContext ==
    /\ At("append")
    /\ frame' = IF frame.wants /\ frame.todo # <<>> /\ frame.replans < MaxReplanDepth
                THEN Asking(frame, "replanner") ELSE [frame EXCEPT !.pc = "next"]
    /\ OnlyFrame

WriteOutcome ==
    /\ At("outcome")
    /\ status' = frame.outcome
    /\ Goto(IF frame.outcome = "COMPLETED" THEN "judge" ELSE "done")
    /\ UNCHANGED <<steps, requests, faults>>

WriteScore == At("score") /\ Goto("done") /\ OnlyFrame
-----------------------------------------------------------------------------
(* Where a failing store operation leads: the tool is called again until   *)
(* its last try, the step falls back, replanning is given up, the outcome  *)
(* FAILED is given up, anything else fails the run.                        *)
Raised(f) ==
    CASE f.pc = "record" /\ f.toolTries < MaxToolTries - 1 ->
           [f EXCEPT !.pc = "tool", !.toolTries = @ + 1]
      [] \/ f.pc \in {"complete", "append"}
         \/ f.pc = "trace" /\ f.agent = "executor" -> Asking([f EXCEPT !.wants = FALSE], "fallback")
      [] f.pc = "skip" -> [f EXCEPT !.pc = "skipAgain"]
      [] \/ f.pc = "inject"
         \/ f.pc = "trace" /\ f.agent = "replanner" -> [f EXCEPT !.pc = "next"]
      [] f.pc = "outcome" /\ f.outcome = "FAILED" -> [f EXCEPT !.pc = "done"]
      [] OTHER -> Ending(f, "FAILED")

StoreFault ==
    /\ frame.pc \in StorePcs
    /\ faults > 0 /\ faults' = faults - 1
    /\ frame' = Raised(frame)
    /\ UNCHANGED <<status, steps, requests>>

Progress ==
    \/ Screen \/ Ask \/ Judge
    \/ TraceClassifier \/ TracePlanner \/ TraceExecutor \/ TraceReplanner \/ Inject
    \/ NextStep \/ LoopEnds \/ StartStep \/ CallTool \/ ToolNotFound \/ RecordCall
    \/ CompleteStep \/ SkipStep \/ AppendContext \/ WriteOutcome \/ WriteScore

Next == Progress \/ StoreFault

Spec == Init /\ [][Next]_vars

(* Every request is answered or raises in the end: the OpenAI client and   *)
(* the tools have timeouts.                                                *)
FairSpec == Spec /\ WF_vars(Progress)
-----------------------------------------------------------------------------
(* Properties.                                                             *)

StepType == [status : {"PENDING", "RUNNING"} \cup Closed,
             tool : PlanTools \cup {"none"},
             traces : Nat, effects : 0 .. MaxToolTries, success : BOOLEAN]
FrameType ==
    [pc : Pcs, agent : Agents, tries : 0 .. MaxRetries, todo : Seq(Nat), cur : Nat,
     toolTries : 0 .. MaxToolTries - 1, wants : BOOLEAN, replans : 0 .. MaxReplanDepth,
     outcome : Settled \cup {"none"}]

(* Every variable has its type.                                            *)
TypeOK ==
    /\ status \in Settled \cup {"RUNNING"}
    /\ steps \in Seq(StepType)
    /\ frame \in FrameType
    /\ requests \in Nat
    /\ faults \in 0 .. MaxStoreFaults

(* README.md:432, "retry up to 2x before raising": what an attempt can ask *)
(* of the provider is bounded by its plan.  A step costs an executor call  *)
(* and either a fallback or a replanner call.                              *)
RequestsAreBounded ==
    LET n == IF steps = <<>> THEN 1 ELSE Len(steps)
    IN  requests <= 2 + (MaxRetries + 1) * (2 + 2 * n)

(* README.md:287, cost attribution: a step that is COMPLETED has one row   *)
(* in llm_traces, and no step is charged twice, through all retries of the *)
(* agent and failing commits around it.                                    *)
CompletedStepsAreTraced ==
    \A i \in DOMAIN steps :
        /\ steps[i].traces <= 1
        /\ steps[i].status = "COMPLETED" => steps[i].traces = 1

(* A step notifies the outside at most once, timeouts and misread answers  *)
(* included, unless a commit failed: the retry loop of executor.py:123     *)
(* repeats a call only for a result that could not be recorded.            *)
NotifiedOnce ==
    \A i \in DOMAIN steps : steps[i].effects <= 1 + (MaxStoreFaults - faults)

(* What Slack or PagerDuty is reported to have been told, it was told.     *)
(* (The webhook tool reports deliveries that were not made.)               *)
SuccessMeansDelivered ==
    \A i \in DOMAIN steps :
        steps[i].success /\ steps[i].tool \in Remote \ {"webhook"} => steps[i].effects > 0

(* README.md:432-433: once there is a plan, no failure of the provider or  *)
(* of a tool keeps the run from being COMPLETED; only the store can, or a  *)
(* tool that is not registered.                                            *)
PlannedRunsComplete ==
    steps # <<>> ~> \/ status = "COMPLETED" \/ faults < MaxStoreFaults
                    \/ \E i \in DOMAIN steps : steps[i].tool = Unregistered
=============================================================================
