---------------------------- MODULE EventStream ----------------------------
(***************************************************************************)
(* GET /workflows/{run_id}/stream against the attempts that feed it.       *)
(* Attempts write two Redis keys of the run, its status and its context,   *)
(* the latter by reading it, extending the copy and writing it back; a     *)
(* stream polls both keys once a second, the status first, and turns what  *)
(* has changed into events.  Nothing locks the keys, and nothing keeps the *)
(* attempts apart: two requests or a delivery after a lost worker can have *)
(* two of them at work at once (RunLifecycle says how).  What holds for an *)
(* attempt that nobody worked beside is stated with the history alone.     *)
(***************************************************************************)
EXTENDS Naturals, SequencesExt

CONSTANTS
    Streams,      \* the clients' streams of this run
    MaxAttempts,  \* attempts made of this run
    MaxSteps,     \* steps an attempt completes at most
    MaxTicks      \* timeout_seconds, in polls

ASSUME StreamConstants == {MaxAttempts, MaxSteps, MaxTicks} \subseteq Nat

Attempts == 1 .. MaxAttempts

VARIABLES
    live,     \* run:{id}:status, and the attempt that wrote it (history)
    context,  \* completed_steps of run:{id}:context
    attempt,  \* each attempt at the run (alone: history)
    stream    \* each stream's event_generator

vars == <<live, context, attempt, stream>>
-----------------------------------------------------------------------------
NoStatus == "none"
_TERMINAL == {"COMPLETED", "FAILED", "DEAD_LETTER", "NEEDS_REVIEW"}
Settled == _TERMINAL \cup {"SAFETY_BLOCKED"}
Steps == Attempts \X (1 .. MaxSteps)

(* copy is the context as an append has read it, done the steps completed; *)
(* alone says that no other attempt has worked while this one did.         *)
Working == {"gate", "read", "write"}
Running == Working \cup {"announce"}
AttemptPcs == Running \cup {"unborn", "over"}
StreamPcs == {"idle", "sleep", "context", "done", "timeout", "broken"}
Open(s) == stream[s].pc \in {"sleep", "context"}

Init ==
    /\ live = [status |-> NoStatus, by |-> 0]
    /\ context = <<>>
    /\ attempt = [a \in Attempts |-> [pc |-> "unborn", copy |-> <<>>, done |-> 0,
                                      outcome |-> NoStatus, alone |-> TRUE]]
    /\ stream = [s \in Streams |->
                   [pc |-> "idle", elapsed |-> 0, status |-> NoStatus, by |-> 0,
                    last_status |-> NoStatus, last_step_count |-> 0, sent |-> <<>>]]
-----------------------------------------------------------------------------
(* The attempts: run_workflow, as far as it touches the two keys.          *)

Goto(a, pc) == attempt' = [attempt EXCEPT ![a].pc = pc]
Leave(a, pc) ==  \* its copy and its outcome go with the attempt
    attempt' = [attempt EXCEPT ![a].pc = pc, ![a].copy = <<>>, ![a].outcome = NoStatus]
Conclude(a, outcome) ==
    attempt' = [attempt EXCEPT ![a].pc = "announce", ![a].outcome = outcome]

(* Attempts are numbered as they start, whoever is still at work.          *)
Others(a) == {b \in Attempts \ {a} : attempt[b].pc \in Working}
Start(a) ==
    /\ attempt[a].pc = "unborn"
    /\ \A b \in 1 .. a - 1 : attempt[b].pc # "unborn"
    /\ attempt' = [b \in Attempts |->
                     IF b = a THEN [attempt[b] EXCEPT !.pc = "gate",
                                                      !.alone = (Others(a) = {})]
                     ELSE [attempt[b] EXCEPT !.alone = @ /\ b \notin Others(a)]]
    /\ live' = [status |-> "RUNNING", by |-> a]
    /\ UNCHANGED <<context, stream>>

(* Blocked, cached, held for review or failed: or on to the plan.          *)
Gate(a) ==
    /\ attempt[a].pc = "gate"
    /\ \/ Goto(a, "read")
       \/ \E o \in Settled \ {"DEAD_LETTER"} : Conclude(a, o)
    /\ UNCHANGED <<live, context, stream>>

(* append_completed_step reads the context ...                             *)
ReadContextAs(a, copy) ==
    /\ attempt[a].pc = "read" /\ attempt[a].done < MaxSteps
    /\ attempt' = [attempt EXCEPT ![a].pc = "write", ![a].copy = copy]
    /\ UNCHANGED <<live, context, stream>>

ReadOwnSteps(a) ==  \* mutant: what earlier attempts found is left behind
    ReadContextAs(a, SelectSeq(context, LAMBDA step : step[1] = a))
ReadContext(a) == ReadContextAs(a, context)

(* ... and update_context writes it back, one step longer.                 *)
WriteContext(a) ==
    /\ attempt[a].pc = "write"
    /\ LET n == attempt[a].done + 1 IN
         /\ context' = Append(attempt[a].copy, <<a, n>>)
         /\ attempt' = [attempt EXCEPT ![a].pc = "read", ![a].done = n,
                                       ![a].copy = <<>>]
    /\ UNCHANGED <<live, stream>>

(* The append fails and its step is skipped.                               *)
AppendFails(a) ==
    /\ attempt[a].pc = "write"
    /\ attempt' = [attempt EXCEPT ![a].pc = "read", ![a].copy = <<>>]
    /\ UNCHANGED <<live, context, stream>>

(* The plan is executed, or its execution fails.                           *)
Finish(a) ==
    /\ attempt[a].pc = "read"
    /\ \E o \in {"COMPLETED", "FAILED"} : Conclude(a, o)
    /\ UNCHANGED <<live, context, stream>>

AnnounceThen(a, pc) ==
    /\ attempt[a].pc = "announce"
    /\ live' = [status |-> attempt[a].outcome, by |-> a]
    /\ Leave(a, pc)
    /\ UNCHANGED <<context, stream>>

AnnounceEarly(a) ==  \* mutant: the outcome is announced before the last step
    AnnounceThen(a, IF attempt[a].done < MaxSteps THEN "read" ELSE "over")
Announce(a) == AnnounceThen(a, "over")

(* The process or its worker is lost, or no outcome could be written.      *)
Lose(a) ==
    /\ attempt[a].pc \in Running
    /\ Leave(a, "over")
    /\ UNCHANGED <<live, context, stream>>

(* dead_letter_task, when the last attempt of a task has raised; by then   *)
(* a /retry may have started another attempt.                              *)
DeadLetter(a) ==
    /\ attempt[a].pc = "over"
    /\ live' = [status |-> "DEAD_LETTER", by |-> a]
    /\ UNCHANGED <<context, attempt, stream>>

AttemptStep(a) ==
    \/ Start(a) \/ Gate(a) \/ ReadContext(a) \/ WriteContext(a) \/ AppendFails(a)
    \/ Finish(a) \/ Announce(a) \/ Lose(a) \/ DeadLetter(a)
-----------------------------------------------------------------------------
(* The streams: event_generator.                                           *)

OnlyStream == UNCHANGED <<live, context, attempt>>

Connect(s) ==
    /\ stream[s].pc = "idle"
    /\ stream' = [stream EXCEPT ![s].pc = "sleep"]
    /\ OnlyStream

(* A second later: get_status.                                             *)
PollWithin(s, limit) ==
    /\ stream[s].pc = "sleep" /\ stream[s].elapsed < limit
    /\ stream' = [stream EXCEPT ![s].pc = "context", ![s].elapsed = @ + 1,
                                ![s].status = live.status, ![s].by = live.by]
    /\ OnlyStream

PollOnceMore(s) == PollWithin(s, MaxTicks + 1)  \* mutant: <= for <
Poll(s) == PollWithin(s, MaxTicks)

(* get_context, and the events of this round.                              *)
Round(me, count) ==
    LET news == me.status \notin {NoStatus, me.last_status} IN
    [me EXCEPT !.sent = @ \o SubSeq(context, me.last_step_count + 1, Len(context)),
               !.last_step_count = IF Len(context) > @ THEN count ELSE @,
               !.last_status = IF news THEN me.status ELSE @,
               !.pc = IF news /\ me.status \in _TERMINAL THEN "done" ELSE "sleep"]

EmitCounting(s, count) ==
    /\ stream[s].pc = "context"
    /\ stream' = [stream EXCEPT ![s] = Round(@, count)]
    /\ OnlyStream

EmitUncounted(s) == EmitCounting(s, stream[s].last_step_count + 1)  \* mutant
Emit(s) == EmitCounting(s, Len(context))

Timeout(s) ==
    /\ stream[s].pc = "sleep" /\ stream[s].elapsed = MaxTicks
    /\ stream' = [stream EXCEPT ![s].pc = "timeout"]
    /\ OnlyStream

(* Redis cannot be read: the generator raises and the response breaks off. *)
Break(s) ==
    /\ Open(s)
    /\ stream' = [stream EXCEPT ![s].pc = "broken"]
    /\ OnlyStream

StreamStep(s) == Poll(s) \/ Emit(s) \/ Timeout(s)
-----------------------------------------------------------------------------
Next ==
    \/ \E a \in Attempts : AttemptStep(a)
    \/ \E s \in Streams : Connect(s) \/ StreamStep(s) \/ Break(s)

Spec == Init /\ [][Next]_vars
-----------------------------------------------------------------------------
(* Properties.                                                             *)

AttemptType == [pc : AttemptPcs, copy : Seq(Steps), done : 0 .. MaxSteps,
                outcome : Settled \cup {NoStatus}, alone : BOOLEAN]
StreamType == [pc : StreamPcs, elapsed : 0 .. MaxTicks,
               status : Settled \cup {NoStatus, "RUNNING"}, by : Nat,
               last_status : Settled \cup {NoStatus, "RUNNING"},
               last_step_count : Nat, sent : Seq(Steps)]

(* Every variable has its type; a stream polls no longer than its timeout  *)
(* (routes_runs.py:93), and an append under way has room for its step.     *)
TypeOK ==
    /\ live \in [status : Settled \cup {NoStatus, "RUNNING"}, by : Nat]
    /\ context \in Seq(Steps)
    /\ attempt \in [Attempts -> AttemptType]
    /\ stream \in [Streams -> StreamType]
    /\ \A a \in Attempts : attempt[a].pc = "write" => attempt[a].done < MaxSteps

(* No two attempts have been at work at once so far.                       *)
NoneOverlapped == \A a \in Attempts : attempt[a].alone

(* The step_completed events of a stream are the steps of the context in   *)
(* their order, each once and none left out, whenever it connected and     *)
(* however its reads fall between those of the writers (routes_runs.py:100 *)
(* to 105), until two attempts have been at work at once.                  *)
StepsInOrder ==
    NoneOverlapped => \A s \in Streams : IsPrefix(stream[s].sent, context)

(* A stream that says done has sent every step of the attempt whose        *)
(* outcome it announces, until two attempts have been at work at once: the *)
(* status is read before the context (routes_runs.py:97-98) and written    *)
(* after it (orchestrator.py:261).                                         *)
DoneAfterAllSteps ==
    NoneOverlapped =>
        \A s \in Streams : stream[s].pc = "done" =>
            \A k \in DOMAIN context :
                context[k][1] = stream[s].by =>
                    \E l \in DOMAIN stream[s].sent : stream[s].sent[l] = context[k]

(* The context is written back whole from a copy read earlier, under no    *)
(* lock (state_manager.py:61-66), so two attempts at work at once lose     *)
(* steps: their own, and never those of an attempt that nobody worked      *)
(* beside, however many overlap before and after it.                       *)
StepsSurvive ==
    \A a \in Attempts : attempt[a].alone =>
        \A n \in 1 .. attempt[a].done : \E k \in DOMAIN context : context[k] = <<a, n>>
-----------------------------------------------------------------------------
(* What makes the safety properties inductive.                             *)

(* Nobody is at work beside an attempt that is alone.                      *)
AloneIsAlone ==
    \A a, b \in Attempts :
        a # b /\ attempt[a].alone /\ attempt[a].pc \in Working => attempt[b].pc \notin Working

(* Nobody has written since the copy was read; in any case, no copy lacks  *)
(* a step of an attempt that was alone.                                    *)
CopyIsFresh ==
    NoneOverlapped =>
        \A a \in Attempts : attempt[a].pc = "write" => attempt[a].copy = context
CopiesKeepSteps ==
    \A a, b \in Attempts : attempt[a].alone /\ attempt[b].pc = "write" =>
        \A n \in 1 .. attempt[a].done :
            \E k \in DOMAIN attempt[b].copy : attempt[b].copy[k] = <<a, n>>
UnbornDidNothing ==
    \A a \in Attempts : attempt[a].pc = "unborn" => attempt[a].done = 0 /\ attempt[a].alone

(* last_step_count counts the events sent, which agree with the context.   *)
CountIsFaithful ==
    NoneOverlapped =>
        \A s \in Streams :
            /\ stream[s].last_step_count = Len(stream[s].sent)
            /\ Len(stream[s].sent) <= Len(context)
            /\ \A k \in 1 .. Len(stream[s].sent) : stream[s].sent[k] = context[k]

(* A settled status, where it is stored and where a stream has read it,    *)
(* comes from an attempt that is over.                                     *)
FromOver(read) ==
    read.status \in Settled => read.by \in Attempts /\ attempt[read.by].pc = "over"
SettledIsOver == FromOver(live) /\ \A s \in Streams : FromOver(stream[s])

(* What a stream that is done has counted includes that attempt's steps.   *)
DoneSawAll ==
    NoneOverlapped =>
        \A s \in Streams : stream[s].pc = "done" =>
            /\ stream[s].status \in Settled
            /\ \A k \in DOMAIN context :
                 context[k][1] = stream[s].by => k <= Len(stream[s].sent)

FeedInv ==
    /\ AloneIsAlone /\ CopyIsFresh /\ CopiesKeepSteps /\ UnbornDidNothing /\ StepsSurvive
    /\ CountIsFaithful /\ SettledIsOver /\ DoneSawAll
=============================================================================
