--------------------------- MODULE SemanticCache ---------------------------
(***************************************************************************)
(* The semantic cache of cache_service.py under the worker processes that  *)
(* share it: a rolling index of run ids and an entry per run, both in      *)
(* Redis, searched before a run is executed and extended after it.         *)
(*                                                                         *)
(* A process runs one task after the other, each in an event loop of its   *)
(* own, and keeps its clients between them.  A client that was used in one *)
(* loop raises in the next ("Future attached to a different loop"), so     *)
(* each task resets the state and LLM clients first; every error of the    *)
(* cache itself is swallowed.                                              *)
(***************************************************************************)
EXTENDS Integers, Sequences, FiniteSets

CONSTANTS
    Runs,
    Workers,     \* task processes
    Similarity,  \* similarity of two runs' inputs, in units of 0.0005
    Threshold,   \* semantic_cache_threshold, in the same units
    MaxEntries,  \* semantic_cache_max_entries
    MaxTasks,    \* tasks begun
    MaxFaults    \* Redis or embedding calls that fail, processes that die

NoRun == "none"

ASSUME CacheConstants ==
    /\ NoRun \notin Runs /\ IsFiniteSet(Workers)
    /\ Similarity \in [Runs -> [Runs -> 0 .. 2000]]
    /\ Threshold \in 0 .. 2000
    /\ {MaxEntries, MaxTasks, MaxFaults} \subseteq Nat
    /\ MaxEntries > 0

VARIABLES
    index,   \* semcache:index, the most recent run first
    entry,   \* semcache:{run_id}: the run's answer, or NoEntry
    output,  \* final_output of each run's row
    worker,  \* the task each process is running
    client,  \* each process's cached clients
    tasks,   \* tasks that may still begin
    faults   \* faults that may still happen

vars == <<index, entry, output, worker, client, tasks, faults>>
-----------------------------------------------------------------------------
(* An answer is named by the run that was executed for it; served says it  *)
(* was copied from that run's entry.                                       *)
NoEntry == [by |-> NoRun, served |-> FALSE]
Answer(r) == [by |-> r, served |-> FALSE]
Served(s) == [by |-> s, served |-> TRUE]

(* A client is not connected, connected in the task's event loop, or       *)
(* connected in the loop of an earlier task.                               *)
Clients == {"state", "llm", "cache"}
Bindings == {"none", "fresh", "stale"}

(* on_worker_process_init: a forked process has no connection of any kind. *)
FreshProcess == [c \in Clients |-> "none"]
Aged(binding) == IF binding = "none" THEN "none" ELSE "stale"

SearchPcs == {"check", "scan"}
StorePcs == {"store", "push", "trim"}
Pcs == SearchPcs \cup StorePcs \cup {"idle", "serve", "work"}

(* ids are the run_ids of the index, next the one to read; hit is the      *)
(* entry of best_hit, and bestSim starts 0.001 below the threshold.        *)
Idle == [pc |-> "idle", run |-> NoRun, skip |-> FALSE, ids |-> <<>>, next |-> 1,
         hit |-> NoEntry, bestSim |-> Threshold - 2]

Init ==
    /\ index = <<>>
    /\ entry = [r \in Runs |-> NoEntry]
    /\ output = [r \in Runs |-> NoEntry]
    /\ worker = [w \in Workers |-> Idle]
    /\ client = [w \in Workers |-> FreshProcess]
    /\ tasks = MaxTasks /\ faults = MaxFaults

Goto(w, pc) == worker' = [worker EXCEPT ![w] = IF pc = "idle" THEN Idle
                                              ELSE [@ EXCEPT !.pc = pc]]
At(w, pc) == worker[w].pc = pc
Usable(w, c) == client[w][c] # "stale"
Use(w, used) ==
    /\ \A c \in used : Usable(w, c)
    /\ client' = [client EXCEPT ![w] = [c \in Clients |->
                    IF c \in used THEN "fresh" ELSE client[w][c]]]
OnlyWorker == UNCHANGED <<index, entry, output, tasks, faults>>

Fault == faults > 0 /\ faults' = faults - 1
-----------------------------------------------------------------------------
(* execute_workflow_task                                                   *)

(* The clients of a process in a new task, once it has set the status and  *)
(* screened the input.                                                     *)
InNewLoop(w, reset) ==
    [c \in Clients |->
        LET old == IF c \in reset THEN "none" ELSE Aged(client[w][c]) IN
            IF c # "cache" /\ old = "none" THEN "fresh" ELSE old]

(* An approved run skips the cache.                                        *)
BeginResetting(w, r, reset) ==
    /\ At(w, "idle") /\ tasks > 0
    /\ tasks' = tasks - 1
    /\ \E pc \in {"check", "work"} :
         worker' = [worker EXCEPT ![w] = [Idle EXCEPT !.pc = pc, !.run = r,
                                                      !.skip = (pc = "work")]]
    /\ client' = [client EXCEPT ![w] = InNewLoop(w, reset)]
    /\ UNCHANGED <<index, entry, output, faults>>

BeginKeepingLlm(w, r) == BeginResetting(w, r, {"state"})  \* mutant
Begin(w, r) == BeginResetting(w, r, {"state", "llm"})

(* A dead_letter_task, or a run that the safety filter blocks.             *)
OtherTask(w) ==
    /\ At(w, "idle") /\ tasks > 0
    /\ tasks' = tasks - 1
    /\ client' = [client EXCEPT ![w] = InNewLoop(w, {"state", "llm"})]
    /\ UNCHANGED <<index, entry, output, worker, faults>>
-----------------------------------------------------------------------------
(* check_cache                                                             *)

(* What is decided once there is no further id to read.                    *)
Searched(me) ==
    [me EXCEPT !.pc = IF me.next <= Len(me.ids) THEN "scan"
                      ELSE IF me.hit = NoEntry THEN "work" ELSE "serve"]

(* lrange, and then the embedding of the input.                            *)
Window == SubSeq(index, 1, IF Len(index) < MaxEntries THEN Len(index) ELSE MaxEntries)
ReadIndex(w) ==
    /\ At(w, "check")
    /\ Use(w, {"cache"})
    /\ worker' = [worker EXCEPT ![w] = Searched([@ EXCEPT !.ids = Window])]
    /\ OnlyWorker

(* One entry; it may be gone, and a better one replaces the best so far.   *)
ReadEntryOver(w, bar) ==
    /\ At(w, "scan")
    /\ Use(w, {"cache"})
    /\ LET s == worker[w].ids[worker[w].next]
           sim == Similarity[worker[w].run][s]
           read == [worker[w] EXCEPT !.next = @ + 1]
       IN worker' = [worker EXCEPT ![w] = Searched(
              IF entry[s] # NoEntry /\ sim > bar
              THEN [read EXCEPT !.hit = entry[s], !.bestSim = sim] ELSE read)]
    /\ OnlyWorker

ReadEntryLast(w) == ReadEntryOver(w, Threshold - 2)  \* mutant: best_sim is not raised
ReadEntry(w) == ReadEntryOver(w, worker[w].bestSim)

(* Whatever raises in check_cache is a miss.                               *)
CheckFails(w) ==
    /\ worker[w].pc \in SearchPcs
    /\ \/ ~Usable(w, "cache") /\ UNCHANGED <<client, faults>>
       \/ Fault /\ Usable(w, "cache")
          /\ client' \in {client, [client EXCEPT ![w].cache = "fresh"]}
    /\ worker' = [worker EXCEPT ![w] = [Idle EXCEPT !.pc = "work", !.run = worker[w].run]]
    /\ UNCHANGED <<index, entry, output, tasks>>
-----------------------------------------------------------------------------
(* run_workflow, as far as the cache sees it.                              *)

(* What run_workflow writes as final_output: a copy of a hit or an answer. *)
FinalOutput(w) ==
    IF worker[w].hit = NoEntry THEN Answer(worker[w].run) ELSE Served(worker[w].hit.by)

(* A hit completes the run with a copy and nothing is stored.              *)
ServeThen(w, pc) ==
    /\ At(w, "serve")
    /\ Use(w, {"state"})
    /\ output' = [output EXCEPT ![worker[w].run] = FinalOutput(w)]
    /\ Goto(w, pc)
    /\ UNCHANGED <<index, entry, tasks, faults>>

ServeAndStore(w) == ServeThen(w, "store")  \* mutant: copies are cached as well
Serve(w) == ServeThen(w, "idle")

(* The run is executed: it has an answer, or fails, or waits for review.   *)
Work(w) ==
    /\ At(w, "work")
    /\ Use(w, {"state", "llm"})
    /\ \/ /\ output' = [output EXCEPT ![worker[w].run] = FinalOutput(w)]
          /\ Goto(w, "store")
       \/ Goto(w, "idle") /\ UNCHANGED output
    /\ UNCHANGED <<index, entry, tasks, faults>>
-----------------------------------------------------------------------------
(* store                                                                   *)

StoreEntry(w) ==
    /\ At(w, "store")
    /\ Use(w, {"cache"})
    /\ entry' = [entry EXCEPT ![worker[w].run] = FinalOutput(w)]
    /\ Goto(w, "push")
    /\ UNCHANGED <<index, output, tasks, faults>>

(* lpush: a run that is executed again is listed twice.                    *)
PushIndexThen(w, pc) ==
    /\ At(w, "push")
    /\ Use(w, {"cache"})
    /\ index' = <<worker[w].run>> \o index
    /\ Goto(w, pc)
    /\ UNCHANGED <<entry, output, tasks, faults>>

PushUntrimmed(w) == PushIndexThen(w, "idle")  \* mutant: ltrim is missing
PushIndex(w) == PushIndexThen(w, "trim")

TrimIndex(w) ==
    /\ At(w, "trim")
    /\ Use(w, {"cache"})
    /\ index' = Window
    /\ Goto(w, "idle")
    /\ UNCHANGED <<entry, output, tasks, faults>>

(* Whatever raises in store is forgotten.                                  *)
StoreFailsTo(w, next) ==
    /\ worker[w].pc \in StorePcs
    /\ \/ ~Usable(w, "cache") /\ UNCHANGED <<client, faults>>
       \/ Fault /\ Usable(w, "cache")
          /\ client' \in {client, [client EXCEPT ![w].cache = "fresh"]}
    /\ Goto(w, next)
    /\ UNCHANGED <<index, entry, output, tasks>>

StoreFailsAgain(w) == StoreFailsTo(w, worker[w].pc)  \* mutant: tried until it works
StoreFails(w) == StoreFailsTo(w, "idle")
-----------------------------------------------------------------------------
(* An entry lives for seven days, its id for as long as it is in the list. *)
Expire(r) ==
    /\ Fault
    /\ entry[r] # NoEntry
    /\ entry' = [entry EXCEPT ![r] = NoEntry]
    /\ UNCHANGED <<index, output, worker, client, tasks>>

(* The process dies and the pool replaces it.                              *)
Crash(w) ==
    /\ ~At(w, "idle")
    /\ Fault
    /\ worker' = [worker EXCEPT ![w] = Idle]
    /\ client' = [client EXCEPT ![w] = FreshProcess]
    /\ UNCHANGED <<index, entry, output, tasks>>

TaskStep(w) ==
    \/ ReadIndex(w) \/ ReadEntry(w) \/ CheckFails(w)
    \/ Serve(w) \/ Work(w) \/ StoreEntry(w) \/ PushIndex(w) \/ TrimIndex(w)
    \/ StoreFails(w)

Next ==
    \/ \E w \in Workers :
         \/ \E r \in Runs : Begin(w, r)
         \/ OtherTask(w) \/ TaskStep(w) \/ Crash(w)
    \/ \E r \in Runs : Expire(r)

Spec == Init /\ [][Next]_vars

(* A task that runs keeps running.  No fairness for new tasks or faults.   *)
FairSpec == Spec /\ \A w \in Workers : WF_vars(TaskStep(w))
-----------------------------------------------------------------------------
(* Properties.                                                             *)

Outputs == [by : Runs \cup {NoRun}, served : BOOLEAN]
WorkerType ==
    [pc : Pcs, run : Runs \cup {NoRun}, skip : BOOLEAN, ids : Seq(Runs), next : Nat,
     hit : Outputs, bestSim : Int]

(* Every variable has its type.  In particular no task finds the state or  *)
(* the LLM client connected in the event loop of an earlier one            *)
(* (tasks.py:50-51, 89-90).                                                *)
TypeOK ==
    /\ index \in Seq(Runs)
    /\ entry \in [Runs -> Outputs]
    /\ output \in [Runs -> Outputs]
    /\ worker \in [Workers -> WorkerType]
    /\ client \in [Workers -> [Clients -> Bindings]]
    /\ tasks \in 0 .. MaxTasks
    /\ faults \in 0 .. MaxFaults
    /\ \A w \in Workers : ~At(w, "idle") => Usable(w, "state") /\ Usable(w, "llm")

(* What a run is served is the answer of a run that was executed for a     *)
(* similar input.  A copy is never cached (orchestrator.py:98-106, 282),   *)
(* so that similarity does not wear off from copy to copy.                 *)
HitIsSimilar ==
    \A r \in Runs : output[r].served => Similarity[r][output[r].by] > Threshold - 2

(* Nothing that check_cache has read so far is more similar to the input   *)
(* than the best hit, or passes the bar when there is none, although       *)
(* entries are stored while it reads (cache_service.py:104-127).           *)
NothingBetterWasRead ==
    \A w \in Workers :
        LET me == worker[w] IN
            me.pc \in {"scan", "serve"} /\ faults = MaxFaults =>
                \A k \in 1 .. me.next - 1 : Similarity[me.run][me.ids[k]] <= me.bestSim

(* The index keeps to its window, but for what is about to be trimmed, as  *)
(* long as no fault comes between lpush and ltrim.                         *)
WindowIsBounded ==
    faults = MaxFaults =>
        Len(index) <= MaxEntries + Cardinality({w \in Workers : At(w, "trim")})

(* The cache fails silently: whatever goes wrong in it, the tasks end, and *)
(* once no more of them come every process is idle.                        *)
TasksEnd == <>[](\A w \in Workers : At(w, "idle"))
=============================================================================
