---------------------------- MODULE Orchestrator ----------------------------
(***************************************************************************)
(* One attempt of run_workflow from the plan to the outcome: the step      *)
(* records, the dynamic execution loop with its replanning hook, tool      *)
(* retries, the fallback, and the table of exception handlers that decides *)
(* where each failure ends up.  What comes before the plan (gates,         *)
(* classification) and what other attempts do meanwhile is in module       *)
(* RunLifecycle, whose pc "steps" this module opens.                       *)
(*                                                                         *)
(* An action is one commit, one Redis call, one tool call, or one agent    *)
(* call with the commit of its trace.  Attempts of the same run follow     *)
(* each other (retry, redelivery) and share the stores.                    *)
(***************************************************************************)
EXTENDS Naturals, Sequences, FiniteSets

CONSTANTS
    Plans,            \* the step orders of the plans the planner may answer
    MaxInject,        \* most steps one replanning decision asks for
    MaxReplanDepth,   \* settings.max_replan_depth
    MaxToolTries,     \* settings.max_tool_retries
    MaxAttempts,      \* attempts made of this run
    MaxStoreFaults,   \* store operations that fail
    MaxCrashes        \* task processes that are lost

(* ExecutionPlan: at least one step, positive orders, which need not be    *)
(* distinct; create_step_records takes them sorted.                        *)
ExecutionPlan(p) ==
    /\ p \in Seq(Nat \ {0}) /\ p # <<>>
    /\ \A i, j \in 1 .. Len(p) : i < j => p[i] <= p[j]

ASSUME OrchestratorConstants ==
    /\ \A p \in Plans : ExecutionPlan(p)
    /\ {MaxInject, MaxReplanDepth, MaxAttempts, MaxStoreFaults, MaxCrashes} \subseteq Nat
    /\ MaxToolTries \in Nat \ {0}

VARIABLES
    status,   \* the run's row in Postgres
    live,     \* run:{id}:status in Redis
    steps,    \* the step rows, in the order they were created
    context,  \* completed_steps of run:{id}:context, as indexes of steps
    frame,    \* the locals of run_workflow and its callees
    attempt,  \* attempts begun so far
    faults,   \* store operations that may still fail
    crashes   \* processes that may still be lost

vars == <<status, live, steps, context, frame, attempt, faults, crashes>>
stores == <<status, live, steps, context>>
-----------------------------------------------------------------------------
(* A pc names the operation that comes next.                               *)
AgentPcs == {"plan", "agent", "fallback", "replan"}
ToolPcs == {"tool", "record"}
DbPcs == {"plan", "create", "start", "record", "agent", "complete", "skip",
          "skipAgain", "replan", "inject", "dbOutcome", "quality"}
RedisPcs == {"savePlan", "next", "append", "redisOutcome"}
Pcs == AgentPcs \cup ToolPcs \cup DbPcs \cup RedisPcs \cup {"return", "idle"}

(* todo is remaining_steps; new and more are the injected steps created    *)
(* and still to be created; wants is step_output["needs_replan"]; usable   *)
(* is false once a failed flush has left the session's transaction         *)
(* inactive, since nothing in run_workflow rolls it back.                  *)
Idle == [pc |-> "idle", outcome |-> "none", plan |-> <<>>, todo |-> <<>>,
         new |-> <<>>, more |-> 0, cur |-> 0, tries |-> 0, replans |-> 0,
         nextOrder |-> 0, wants |-> FALSE, usable |-> TRUE]

Init ==
    /\ status = "PENDING" /\ live = "none"
    /\ steps = <<>> /\ context = <<>>
    /\ frame = Idle
    /\ attempt = 0 /\ faults = MaxStoreFaults /\ crashes = MaxCrashes

Goto(pc) == frame' = [frame EXCEPT !.pc = pc]
At(pc) == frame.pc = pc /\ (pc \in DbPcs => frame.usable)

OnlyFrame == UNCHANGED <<stores, attempt, faults, crashes>>
OnlySteps == UNCHANGED <<status, live, context, attempt, faults, crashes>>

Row(order, dynamic) ==
    [order |-> order, dynamic |-> dynamic, status |-> "PENDING",
     attempt |-> attempt, tool |-> FALSE, calls |-> 0]
SetStep(i, st) == steps' = [steps EXCEPT ![i].status = st]

Failing(f) == [f EXCEPT !.pc = "dbOutcome", !.outcome = "FAILED"]
-----------------------------------------------------------------------------
(* Where an exception raised at f.pc is handled: a tool call is repeated   *)
(* until its last try, an exception at onFallback invokes the fallback.    *)
RaisedWith(f, retried, lastTry, onFallback) ==
    CASE f.pc \in ToolPcs ->                          \* _execute_tool_with_retries
           IF f.tries < lastTry THEN retried ELSE Failing(f)
      [] f.pc \in onFallback ->                       \* execute_step
           [f EXCEPT !.pc = "fallback", !.wants = FALSE]
      [] f.pc \in {"fallback", "skip"} ->             \* _run_fallback
           [f EXCEPT !.pc = "skipAgain"]
      [] f.pc \in {"replan", "inject"} ->             \* _maybe_replan
           [f EXCEPT !.pc = "next", !.new = <<>>, !.more = 0]
      [] f.pc \in {"dbOutcome", "redisOutcome"} /\ f.outcome = "FAILED" ->
           [f EXCEPT !.pc = "return"]                 \* _fail_run
      [] OTHER -> Failing(f)                          \* run_workflow

NextTry(f) == [f EXCEPT !.pc = "tool", !.tries = @ + 1]
SameTry(f) == [f EXCEPT !.pc = "tool"]

RaisedOneMore(f) ==   \* mutant: <= for <
    RaisedWith(f, NextTry(f), MaxToolTries, {"agent", "complete", "append"})
RaisedForEver(f) ==   \* mutant: the attempt is not counted
    RaisedWith(f, SameTry(f), MaxToolTries - 1, {"agent", "complete", "append"})
RaisedAtAppend(f) ==  \* mutant: a failed append is ignored
    IF f.pc = "append" THEN [f EXCEPT !.pc = "next"]
    ELSE RaisedWith(f, NextTry(f), MaxToolTries - 1, {"agent", "complete"})
Raised(f) ==
    RaisedWith(f, NextTry(f), MaxToolTries - 1, {"agent", "complete", "append"})

(* An agent gives up after its own retries, or a tool raises.              *)
WorkRaises ==
    /\ At(frame.pc) /\ frame.pc \in AgentPcs \cup {"tool"}
    /\ frame' = Raised(frame)
    /\ OnlyFrame

(* KeyError: the tool is not registered, or a required argument is missing.*)
ToolKeyError == At("tool") /\ frame' = Failing(frame) /\ OnlyFrame

(* A store operation fails; the session may be unusable from then on.      *)
StoreFault ==
    /\ faults > 0 /\ faults' = faults - 1
    /\ \/ frame.pc \in DbPcs \cup RedisPcs /\ frame' = Raised(frame)
       \/ frame.pc \in DbPcs /\ frame' = Raised([frame EXCEPT !.usable = FALSE])
    /\ UNCHANGED <<stores, attempt, crashes>>

SessionFault ==
    /\ ~frame.usable /\ frame.pc \in DbPcs
    /\ frame' = Raised(frame)
    /\ OnlyFrame
-----------------------------------------------------------------------------
(* The gates are passed and the run is classified.                         *)
Begin ==
    /\ At("idle") /\ attempt < MaxAttempts
    /\ attempt' = attempt + 1
    /\ status' = "RUNNING" /\ live' = "RUNNING"
    /\ Goto("plan")
    /\ UNCHANGED <<steps, context, faults, crashes>>

Plan ==
    /\ At("plan")
    /\ \E p \in Plans :
         frame' = [frame EXCEPT !.pc = "savePlan", !.plan = p, !.nextOrder = Len(p) + 1]
    /\ OnlyFrame

SavePlan == At("savePlan") /\ Goto("create") /\ OnlyFrame

(* create_step_records: one commit per step.                               *)
CreateStep ==
    /\ At("create")
    /\ steps' = Append(steps, Row(Head(frame.plan), FALSE))
    /\ frame' = [frame EXCEPT !.plan = Tail(@), !.todo = Append(@, Len(steps) + 1),
                              !.pc = IF Len(frame.plan) > 1 THEN "create" ELSE "next"]
    /\ OnlySteps

(* The head of the loop: pop a step and read the context.                  *)
TakeStep(rest) ==
    /\ At("next") /\ frame.todo # <<>>
    /\ frame' = [frame EXCEPT !.pc = "start", !.cur = Head(frame.todo), !.todo = rest,
                              !.tries = 0, !.wants = FALSE]
    /\ OnlyFrame
TakeStepUnpopped == TakeStep(frame.todo)  \* mutant
NextStep == TakeStep(Tail(frame.todo))

LoopEnds ==
    /\ At("next") /\ frame.todo = <<>>
    /\ frame' = [frame EXCEPT !.pc = "dbOutcome", !.outcome = "COMPLETED"]
    /\ OnlyFrame

(* start_step.  Whether the step names a tool is decided here.             *)
StartStep ==
    /\ At("start")
    /\ \E tool \in BOOLEAN :
         /\ steps' = [steps EXCEPT ![frame.cur].status = "RUNNING",
                                   ![frame.cur].tool = tool]
         /\ Goto(IF tool THEN "tool" ELSE "agent")
    /\ OnlySteps

(* A tool answers; an answer may report failure, which is recorded as well.*)
CallToolUnrecorded == At("tool") /\ Goto("agent") /\ OnlyFrame  \* mutant
CallTool == At("tool") /\ Goto("record") /\ OnlyFrame

RecordCall ==
    /\ At("record")
    /\ steps' = [steps EXCEPT ![frame.cur].calls = @ + 1]
    /\ Goto("agent")
    /\ OnlySteps

(* parse_tool_call accepts whatever the model answers as step output and   *)
(* makes a Boolean of its needs_replan.                                    *)
NeedsReplan == BOOLEAN

Synthesize ==
    /\ At("agent")
    /\ \E wants \in NeedsReplan : frame' = [frame EXCEPT !.pc = "complete", !.wants = wants]
    /\ OnlyFrame

CompleteStep ==
    /\ At("complete")
    /\ SetStep(frame.cur, "COMPLETED")
    /\ Goto("append")
    /\ OnlySteps

(* The re-planning hook.                                                   *)
AfterStepUnbounded ==  \* mutant: replan_count is not checked
    IF frame.wants /\ frame.todo # <<>> THEN "replan" ELSE "next"
AfterStep ==
    IF frame.wants /\ frame.todo # <<>> /\ frame.replans < MaxReplanDepth
    THEN "replan" ELSE "next"

AppendContext ==
    /\ At("append")
    /\ context' = Append(context, frame.cur)
    /\ Goto(AfterStep)
    /\ UNCHANGED <<status, live, steps, attempt, faults, crashes>>

FallbackUnrecorded == At("fallback") /\ Goto("next") /\ OnlyFrame  \* mutant
Fallback == At("fallback") /\ Goto("skip") /\ OnlyFrame

(* A fallback's output has no needs_replan.                                *)
SkipStep ==
    /\ At("skip") \/ At("skipAgain")
    /\ SetStep(frame.cur, "SKIPPED")
    /\ Goto("next")
    /\ OnlySteps

(* RePlanningDecision: how many new_steps it has; one that should not      *)
(* replan, or has none, declines.  Nothing in the code limits them.        *)
RePlanningDecision == 0 .. MaxInject

Replan ==
    /\ At("replan")
    /\ \E n \in RePlanningDecision :
         frame' = [frame EXCEPT !.pc = IF n = 0 THEN "next" ELSE "inject", !.more = n]
    /\ OnlyFrame

(* create_replan_steps; the last one puts the new steps before the rest.   *)
InjectStepAt(front, advance) ==
    /\ At("inject")
    /\ steps' = Append(steps, Row(frame.nextOrder + Len(frame.new), TRUE))
    /\ LET new == Append(frame.new, Len(steps) + 1) IN
         frame' = IF frame.more > 1
                  THEN [frame EXCEPT !.new = new, !.more = @ - 1]
                  ELSE [frame EXCEPT !.new = <<>>, !.more = 0, !.pc = "next",
                                     !.todo = IF front THEN new \o @ ELSE @ \o new,
                                     !.nextOrder = @ + advance * Len(new),
                                     !.replans = @ + 1]
    /\ OnlySteps

InjectStepBehind == InjectStepAt(FALSE, 1)   \* mutant: after the remaining plan
InjectStepsAlike == InjectStepAt(TRUE, 0)    \* mutant: next_order is not advanced
InjectStep == InjectStepAt(TRUE, 1)

WriteOutcomeDb ==
    /\ At("dbOutcome")
    /\ status' = frame.outcome
    /\ Goto("redisOutcome")
    /\ UNCHANGED <<live, steps, context, attempt, faults, crashes>>

WriteOutcomeRedis ==
    /\ At("redisOutcome")
    /\ live' = frame.outcome
    /\ Goto(IF frame.outcome = "COMPLETED" THEN "quality" ELSE "return")
    /\ UNCHANGED <<status, steps, context, attempt, faults, crashes>>

(* The judge's score is committed; the cache never raises.                 *)
WriteQuality == At("quality") /\ Goto("return") /\ OnlyFrame

Return == At("return") /\ frame' = Idle /\ OnlyFrame

(* The process is lost and its message may be delivered again.             *)
Crash ==
    /\ frame.pc # "idle"
    /\ crashes > 0 /\ crashes' = crashes - 1
    /\ frame' = Idle
    /\ UNCHANGED <<stores, attempt, faults>>

Progress ==
    \/ Plan \/ SavePlan \/ CreateStep \/ NextStep \/ LoopEnds
    \/ StartStep \/ CallTool \/ RecordCall \/ Synthesize
    \/ CompleteStep \/ AppendContext \/ Fallback \/ SkipStep
    \/ Replan \/ InjectStep
    \/ WriteOutcomeDb \/ WriteOutcomeRedis \/ WriteQuality \/ Return
    \/ WorkRaises \/ ToolKeyError \/ SessionFault

Next == Begin \/ Progress \/ StoreFault \/ Crash

Spec == Init /\ [][Next]_vars

(* A coroutine that can run runs, and every call it awaits answers or      *)
(* raises.  No fairness for new attempts, store faults or crashes.         *)
FairSpec == Spec /\ WF_vars(Progress)
-----------------------------------------------------------------------------
(* Properties.                                                             *)

StepType == [order : Nat, dynamic : BOOLEAN, attempt : 1 .. MaxAttempts,
             status : {"PENDING", "RUNNING", "COMPLETED", "SKIPPED"},
             tool : BOOLEAN, calls : Nat]
FrameType ==
    [pc : Pcs, outcome : {"none", "COMPLETED", "FAILED"}, plan : Seq(Nat),
     todo : Seq(Nat), new : Seq(Nat), more : 0 .. MaxInject, cur : Nat,
     tries : 0 .. MaxToolTries - 1, replans : 0 .. MaxReplanDepth,
     nextOrder : Nat, wants : BOOLEAN, usable : BOOLEAN]

(* Every variable has its type; in particular a tool call is tried at most *)
(* max_tool_retries times (executor.py:123).                               *)
TypeOK ==
    /\ status \in {"PENDING", "RUNNING", "COMPLETED", "FAILED"}
    /\ live \in {"none", "RUNNING", "COMPLETED", "FAILED"}
    /\ steps \in Seq(StepType)
    /\ context \in Seq(Nat)
    /\ frame \in FrameType
    /\ attempt \in 0 .. MaxAttempts
    /\ faults \in 0 .. MaxStoreFaults
    /\ crashes \in 0 .. MaxCrashes

(* The steps of the attempt that runs, or ran last.                        *)
Mine == {i \in DOMAIN steps : steps[i].attempt = attempt}
Closed == {"COMPLETED", "SKIPPED"}

(* A run is COMPLETED only when every step of its plan, and every step     *)
(* injected into it, has been completed or skipped; store failures may     *)
(* leave behind rows of an injection that was given up.                    *)
CompletedRunHasNoOpenSteps ==
    status = "COMPLETED" =>
        \A i \in Mine : \/ steps[i].status \in Closed
                        \/ steps[i].dynamic /\ faults < MaxStoreFaults

(* README.md:570, "Replan loop is bounded": what is executed beyond the    *)
(* plan is what max_replan_depth decisions asked for.                      *)
NoPlanExplosion ==
    Cardinality({i \in Mine : steps[i].dynamic /\ steps[i].status # "PENDING"})
        <= MaxReplanDepth * MaxInject

(* The remaining steps are rows of this attempt that nobody has started,   *)
(* each of them once, the injected ones before the rest of the plan        *)
(* (orchestrator.py:251-252).                                              *)
QueueIsSound ==
    \A i \in DOMAIN frame.todo :
        LET s == frame.todo[i] IN
            /\ s \in Mine /\ steps[s].status = "PENDING"
            /\ \A j \in 1 .. i - 1 :
                 /\ frame.todo[j] # s
                 /\ steps[s].dynamic => steps[frame.todo[j]].dynamic

(* planner.py:47, "new steps don't collide with the original plan's        *)
(* orders": no two executed steps of an attempt have the same order, also  *)
(* after an injection that failed halfway left its rows behind, provided   *)
(* that the plan is numbered 1, 2, ...; the schema accepts other numbers.  *)
OrdersIdentifySteps ==
    LET planned == {i \in Mine : ~steps[i].dynamic}
        executed == {i \in Mine : steps[i].status # "PENDING"}
    IN  {steps[i].order : i \in planned} = 1 .. Cardinality(planned) =>
            \A i, j \in executed : steps[i].order = steps[j].order => i = j

(* Between two steps, the context that the next step is given lists        *)
(* exactly the steps of this attempt that are COMPLETED, each once, even   *)
(* when completing, appending or falling back has failed halfway.          *)
ContextIsFaithful ==
    frame.pc = "next" =>
        /\ {context[k] : k \in DOMAIN context} \cap Mine
             = {i \in Mine : steps[i].status = "COMPLETED"}
        /\ \A k, l \in DOMAIN context :
             context[k] \in Mine /\ context[k] = context[l] => k = l

(* A step that is done has its tool call in the log, and no step has two,  *)
(* although a call is made again when it could not be recorded.            *)
ToolCallsAreLogged ==
    \A i \in DOMAIN steps :
        /\ steps[i].calls <= 1
        /\ steps[i].tool /\ steps[i].status \in Closed => steps[i].calls = 1

(* A step row never goes back, and none of an earlier attempt changes: a   *)
(* COMPLETED step may become SKIPPED, but only while no later step has     *)
(* been told of it.                                                        *)
StepMoves(i) ==
    \/ steps'[i].status = steps[i].status
    \/ /\ i \in Mine
       /\ \/ steps[i].status = "PENDING" /\ steps'[i].status = "RUNNING"
          \/ steps[i].status = "RUNNING" /\ steps'[i].status \in Closed
          \/ /\ steps[i].status = "COMPLETED" /\ steps'[i].status = "SKIPPED"
             /\ \A k \in DOMAIN context : context[k] # i
StepsMoveForward == [][\A i \in DOMAIN steps : StepMoves(i)]_vars
-----------------------------------------------------------------------------
Contract == INSTANCE AttemptContract WITH
    phase <- IF frame.pc = "idle" THEN "idle"
             ELSE IF status = "RUNNING" THEN "working" ELSE "announcing",
    faulty <- faults < MaxStoreFaults \/ crashes < MaxCrashes

(* run_workflow returns, whatever its agents, its tools and its own        *)
(* exception handlers do, and meanwhile treats the stores as               *)
(* AttemptContract says.                                                   *)
KeepsContract == Contract!Spec
=============================================================================
