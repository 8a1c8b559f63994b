------------------------ MODULE SemanticCache_proofs ------------------------
(***************************************************************************)
(* Proofs about SemanticCache, for any runs with any similarity, any       *)
(* number of processes and tasks, any window and any number of faults.     *)
(***************************************************************************)
EXTENDS SemanticCache, SequenceTheorems, FiniteSetTheorems, TLAPS

(* What a task with these clients knows: its hit passed the bar and is     *)
(* nobody's copy, and a task that will store something was not served.     *)
TaskOK(me, mine) ==
    /\ me.pc # "idle" => me.run \in Runs
    /\ me.bestSim >= Threshold - 2
    /\ me.hit # NoEntry => /\ me.hit.by \in Runs /\ ~me.hit.served
                           /\ Similarity[me.run][me.hit.by] > Threshold - 2
    /\ me.pc \in {"check", "work"} \cup StorePcs => me.hit = NoEntry
    /\ me.pc = "serve" => me.hit # NoEntry
    /\ me.pc = "check" => me.next = 1
    /\ me.pc = "scan" => me.next <= Len(me.ids)
    /\ me.next >= 1
    /\ me.pc \in {"push", "trim"} => mine["cache"] # "stale"

TasksInv == \A w \in Workers : TaskOK(worker[w], client[w])

(* A cached answer belongs to its own run.                                 *)
EntryInv == \A s \in Runs : entry[s] # NoEntry => entry[s] = Answer(s)

(* What a task has listed and read, as long as nothing went wrong.         *)
Listed(ids, cached) == \A k \in 1 .. Len(ids) : cached[ids[k]] # NoEntry
BestSoFar(me) ==
    me.pc \in {"scan", "serve"} =>
        \A k \in 1 .. me.next - 1 : Similarity[me.run][me.ids[k]] <= me.bestSim
Calm(me, cached) ==
    /\ Listed(me.ids, cached) /\ BestSoFar(me)
    /\ me.pc = "push" => cached[me.run] # NoEntry
Trimming == {w \in Workers : At(w, "trim")}

CalmInv ==
    faults = MaxFaults =>
        /\ Listed(index, entry)
        /\ \A w \in Workers : Calm(worker[w], entry)
        /\ Len(index) <= MaxEntries + Cardinality(Trimming)

Inv == TypeOK /\ TasksInv /\ EntryInv /\ CalmInv /\ HitIsSimilar
-----------------------------------------------------------------------------
LEMMA IdleTask ==
    /\ Idle \in WorkerType
    /\ \A mine : TaskOK(Idle, mine)
    /\ \A cached : Calm(Idle, cached)
<1>1. <<>> \in Seq(Runs) /\ Len(<<>>) = 0
  OBVIOUS
<1>2. NoEntry \in Outputs
  BY DEF NoEntry, Outputs
<1>3. Threshold - 2 \in Int
  BY CacheConstants DEF CacheConstants
<1>4. Idle \in WorkerType
  BY <1>1, <1>2, <1>3 DEF Idle, WorkerType, Pcs
<1>5. \A mine : TaskOK(Idle, mine)
  BY <1>3 DEF Idle, TaskOK, StorePcs
<1>6. \A cached : Calm(Idle, cached)
  BY <1>1 DEF Idle, Calm, Listed, BestSoFar
<1> QED
  BY <1>4, <1>5, <1>6

LEMMA InitInv == Init => Inv
<1> SUFFICES ASSUME Init PROVE Inv
  OBVIOUS
<1>1. \A w \in Workers : worker[w] = Idle /\ worker[w].pc = "idle"
  BY DEF Init, Idle
<1>2. index = <<>> /\ Len(index) = 0
  BY DEF Init
<1>3. \A r \in Runs : entry[r] = NoEntry /\ output[r] = NoEntry
  BY DEF Init
<1>4. TypeOK
  <2>1. NoEntry \in Outputs /\ FreshProcess \in [Clients -> Bindings]
    BY DEF NoEntry, Outputs, FreshProcess, Bindings
  <2>2. MaxTasks \in 0 .. MaxTasks /\ MaxFaults \in 0 .. MaxFaults
    BY CacheConstants DEF CacheConstants
  <2> QED
    BY <1>1, <2>1, <2>2, IdleTask DEF Init, TypeOK, At
<1>5. TasksInv
  BY <1>1, IdleTask DEF TasksInv
<1>6. EntryInv /\ HitIsSimilar
  <2>1. \A r \in Runs : ~output[r].served
    BY <1>3 DEF NoEntry
  <2> QED
    BY <1>3, <2>1 DEF EntryInv, HitIsSimilar
<1>7. CalmInv
  <2>1. Trimming = {}
    BY <1>1 DEF Trimming, At
  <2>2. Cardinality(Trimming) = 0
    BY <2>1, FS_EmptySet
  <2> QED
    BY <1>1, <1>2, <2>2, IdleTask, CacheConstants DEF CalmInv, Listed, CacheConstants
<1> QED
  BY <1>4, <1>5, <1>6, <1>7 DEF Inv

LEMMA TrimmingIsFinite == IsFiniteSet(Trimming) /\ Cardinality(Trimming) \in Nat
<1>1. Trimming \subseteq Workers /\ IsFiniteSet(Workers)
  BY CacheConstants DEF Trimming, CacheConstants
<1> QED
  BY <1>1, FS_Subset, FS_CardinalityType

-----------------------------------------------------------------------------
(* The types and the knowledge of the tasks after a step of one of them.   *)
LEMMA OneTask ==
    ASSUME TypeOK, TasksInv, NEW w \in Workers,
           NEW me \in WorkerType, NEW mine \in [Clients -> Bindings],
           worker' = [worker EXCEPT ![w] = me], client' = [client EXCEPT ![w] = mine],
           TaskOK(me, mine),
           me.pc # "idle" => mine["state"] # "stale" /\ mine["llm"] # "stale"
    PROVE  /\ worker' \in [Workers -> WorkerType]
           /\ client' \in [Workers -> [Clients -> Bindings]]
           /\ \A v \in Workers : (~At(v, "idle"))' => (Usable(v, "state") /\ Usable(v, "llm"))'
           /\ TasksInv'
           /\ worker'[w] = me /\ client'[w] = mine
           /\ \A v \in Workers \ {w} : worker'[v] = worker[v] /\ client'[v] = client[v]
<1>1. worker \in [Workers -> WorkerType] /\ client \in [Workers -> [Clients -> Bindings]]
  BY DEF TypeOK
<1>2. /\ worker' \in [Workers -> WorkerType] /\ client' \in [Workers -> [Clients -> Bindings]]
      /\ worker'[w] = me /\ client'[w] = mine
      /\ \A v \in Workers \ {w} : worker'[v] = worker[v] /\ client'[v] = client[v]
  BY <1>1
<1>3. \A v \in Workers : (~At(v, "idle"))' => (Usable(v, "state") /\ Usable(v, "llm"))'
  BY <1>2 DEF TypeOK, At, Usable
<1>4. TasksInv'
  BY <1>2 DEF TasksInv
<1> QED
  BY <1>2, <1>3, <1>4

(* A step of one task that neither stores nor lists anything.              *)
LEMMA TaskMove ==
    ASSUME Inv, NEW w \in Workers,
           NEW me \in WorkerType, NEW mine \in [Clients -> Bindings],
           worker' = [worker EXCEPT ![w] = me], client' = [client EXCEPT ![w] = mine],
           TaskOK(me, mine),
           me.pc # "idle" => mine["state"] # "stale" /\ mine["llm"] # "stale",
           index' = index, entry' = entry,
           output' \in [Runs -> Outputs], HitIsSimilar',
           tasks' \in 0 .. MaxTasks, faults' \in 0 .. MaxFaults,
           faults' = MaxFaults =>
               /\ faults = MaxFaults /\ Calm(me, entry)
               /\ me.pc = "trim" <=> worker[w].pc = "trim"
    PROVE  Inv'
<1>1. TypeOK' /\ TasksInv'
  BY OneTask DEF Inv, TypeOK
<1>2. /\ worker'[w] = me
      /\ \A v \in Workers \ {w} : worker'[v] = worker[v]
  BY OneTask DEF Inv
<1>3. EntryInv'
  BY DEF Inv, EntryInv
<1>4. CalmInv'
  <2> SUFFICES ASSUME faults' = MaxFaults PROVE CalmInv'
    BY DEF CalmInv
  <2>1. /\ Listed(index, entry) /\ Len(index) <= MaxEntries + Cardinality(Trimming)
        /\ \A v \in Workers : Calm(worker[v], entry)
    BY DEF Inv, CalmInv
  <2>2. Trimming' = Trimming
    BY <1>2 DEF Trimming, At
  <2>3. \A v \in Workers : Calm(worker'[v], entry)
    BY <1>2, <2>1
  <2> QED
    BY <2>1, <2>2, <2>3 DEF CalmInv
<1> QED
  BY <1>1, <1>3, <1>4 DEF Inv

LEMMA UseFacts ==
    ASSUME TypeOK, NEW w \in Workers, NEW used, Use(w, used)
    PROVE  \E mine \in [Clients -> Bindings] :
             /\ client' = [client EXCEPT ![w] = mine]
             /\ \A c \in Clients : mine[c] = IF c \in used THEN "fresh" ELSE client[w][c]
<1> DEFINE mine == [c \in Clients |-> IF c \in used THEN "fresh" ELSE client[w][c]]
<1>1. client[w] \in [Clients -> Bindings] /\ "fresh" \in Bindings
  BY DEF TypeOK, Bindings
<1>2. mine \in [Clients -> Bindings]
  BY <1>1
<1>3. client' = [client EXCEPT ![w] = mine]
  BY DEF Use
<1> QED
  BY <1>2, <1>3

LEMMA TaskFacts ==
    ASSUME Inv, NEW w \in Workers
    PROVE  /\ worker[w] \in WorkerType /\ client[w] \in [Clients -> Bindings]
           /\ TaskOK(worker[w], client[w])
           /\ worker[w].pc # "idle" =>
                client[w]["state"] # "stale" /\ client[w]["llm"] # "stale"
           /\ faults = MaxFaults => Calm(worker[w], entry)
           /\ faults \in 0 .. MaxFaults /\ tasks \in 0 .. MaxTasks
           /\ MaxTasks \in Nat /\ MaxFaults \in Nat
BY CacheConstants DEF Inv, TypeOK, TasksInv, CalmInv, At, Usable, CacheConstants

-----------------------------------------------------------------------------
LEMMA BeginKeepsInv == \A w \in Workers, r \in Runs : Inv /\ Begin(w, r) => Inv'
<1> SUFFICES ASSUME NEW w \in Workers, NEW r \in Runs, Inv, Begin(w, r) PROVE Inv'
  OBVIOUS
<1> DEFINE mine == InNewLoop(w, {"state", "llm"})
<1>1. /\ worker[w].pc = "idle" /\ tasks > 0 /\ tasks' = tasks - 1
      /\ client' = [client EXCEPT ![w] = mine]
      /\ index' = index /\ entry' = entry /\ output' = output /\ faults' = faults
  BY DEF Begin, BeginResetting, At
<1>2. PICK pc \in {"check", "work"} :
        worker' = [worker EXCEPT ![w] = [Idle EXCEPT !.pc = pc, !.run = r, !.skip = (pc = "work")]]
  BY DEF Begin, BeginResetting
<1> DEFINE me == [Idle EXCEPT !.pc = pc, !.run = r, !.skip = (pc = "work")]
<1>3. mine \in [Clients -> Bindings] /\ mine["state"] # "stale" /\ mine["llm"] # "stale"
  <2>1. client[w] \in [Clients -> Bindings]
    BY TaskFacts
  <2> QED
    BY <2>1 DEF InNewLoop, Aged, Bindings, Clients
<1>4. /\ me \in WorkerType /\ me.pc = pc /\ me.run = r /\ me.hit = NoEntry /\ me.ids = <<>>
      /\ me.next = 1 /\ me.bestSim = Threshold - 2 /\ me.pc \in {"check", "work"}
  <2>1. (pc = "work") \in BOOLEAN
    OBVIOUS
  <2>2. Idle \in WorkerType /\ pc \in Pcs
    BY IdleTask DEF Pcs, SearchPcs
  <2>3. /\ Idle.hit = NoEntry /\ Idle.ids = <<>> /\ Idle.next = 1 /\ Idle.bestSim = Threshold - 2
    BY DEF Idle
  <2> QED
    BY <2>1, <2>2, <2>3 DEF WorkerType
<1> HIDE DEF me
<1>5. TaskOK(me, mine)
  <2>1. Threshold - 2 \in Int
    BY CacheConstants DEF CacheConstants
  <2>2. me.bestSim >= Threshold - 2 /\ me.run \in Runs
    BY <1>4, <2>1
  <2> QED
    BY <1>4, <2>2 DEF TaskOK
<1>6. Calm(me, entry)
  BY <1>4 DEF Calm, Listed, BestSoFar
<1>7. tasks' \in 0 .. MaxTasks
  BY <1>1, TaskFacts
<1>8. output' \in [Runs -> Outputs] /\ HitIsSimilar'
  BY <1>1 DEF Inv, TypeOK, HitIsSimilar
<1>9. worker' = [worker EXCEPT ![w] = me] /\ me.pc # "trim"
  BY <1>2, <1>4 DEF me
<1> QED
  BY <1>1, <1>3, <1>4, <1>5, <1>6, <1>7, <1>8, <1>9, TaskFacts, TaskMove

LEMMA OtherTaskKeepsInv == \A w \in Workers : Inv /\ OtherTask(w) => Inv'
<1> SUFFICES ASSUME NEW w \in Workers, Inv, OtherTask(w) PROVE Inv'
  OBVIOUS
<1> DEFINE mine == InNewLoop(w, {"state", "llm"})
<1>1. /\ worker[w].pc = "idle" /\ tasks > 0 /\ tasks' = tasks - 1
      /\ client' = [client EXCEPT ![w] = mine] /\ worker' = worker
      /\ index' = index /\ entry' = entry /\ output' = output /\ faults' = faults
  BY DEF OtherTask, At
<1>2. mine \in [Clients -> Bindings]
  <2>1. client[w] \in [Clients -> Bindings]
    BY TaskFacts
  <2> QED
    BY <2>1 DEF InNewLoop, Aged, Bindings, Clients
<1>3. worker' = [worker EXCEPT ![w] = worker[w]]
  BY <1>1 DEF Inv, TypeOK
<1>4. TaskOK(worker[w], mine)
  BY <1>1, TaskFacts DEF TaskOK
<1>5. tasks' \in 0 .. MaxTasks
  BY <1>1, TaskFacts
<1>6. output' \in [Runs -> Outputs] /\ HitIsSimilar'
  BY <1>1 DEF Inv, TypeOK, HitIsSimilar
<1> QED
  BY <1>1, <1>2, <1>3, <1>4, <1>5, <1>6, TaskFacts, TaskMove

-----------------------------------------------------------------------------
(* The search.                                                             *)

LEMMA SimilarityIsANumber ==
    /\ \A r, s \in Runs : Similarity[r][s] \in Int
    /\ Threshold - 2 \in Int
<1>1. Similarity \in [Runs -> [Runs -> 0 .. 2000]] /\ Threshold \in 0 .. 2000
  BY CacheConstants DEF CacheConstants
<1>2. ASSUME NEW r \in Runs, NEW s \in Runs PROVE Similarity[r][s] \in Int
  <2>1. Similarity[r] \in [Runs -> 0 .. 2000]
    BY <1>1
  <2> DEFINE x == Similarity[r][s]
  <2>2. x \in 0 .. 2000
    BY <2>1
  <2> HIDE DEF x
  <2>3. x \in Int
    BY <2>2
  <2> QED
    BY <2>3 DEF x
<1>3. Threshold - 2 \in Int
  BY <1>1
<1> QED
  BY <1>2, <1>3

LEMMA SearchedFacts ==
    ASSUME NEW me \in WorkerType
    PROVE  /\ Searched(me) \in WorkerType
           /\ \/ Searched(me).pc = "scan" /\ me.next <= Len(me.ids)
              \/ Searched(me).pc = "work" /\ me.hit = NoEntry
              \/ Searched(me).pc = "serve" /\ me.hit # NoEntry
           /\ Searched(me).run = me.run /\ Searched(me).ids = me.ids
           /\ Searched(me).next = me.next /\ Searched(me).hit = me.hit
           /\ Searched(me).bestSim = me.bestSim
BY DEF Searched, WorkerType, Pcs, SearchPcs

LEMMA WindowFacts ==
    ASSUME TypeOK
    PROVE  /\ Window \in Seq(Runs) /\ Len(Window) <= MaxEntries /\ Len(Window) <= Len(index)
           /\ Len(Window) \in Nat /\ Len(index) \in Nat
           /\ \A k \in 1 .. Len(Window) : k \in 1 .. Len(index) /\ Window[k] = index[k]
<1> DEFINE n == IF Len(index) < MaxEntries THEN Len(index) ELSE MaxEntries
<1>1. /\ index \in Seq(Runs) /\ Len(index) \in Nat /\ MaxEntries \in Nat
      /\ n \in Nat /\ n <= Len(index) /\ n <= MaxEntries
  BY CacheConstants, LenProperties DEF TypeOK, CacheConstants
<1>2. Window = SubSeq(index, 1, n)
  BY DEF Window
<1> HIDE DEF n
<1>3. \A k \in 1 .. n : index[k] \in Runs
  BY <1>1, ElementOfSeq
<1>4. Window = [k \in 1 .. n |-> index[k]]
  BY <1>1, <1>2
<1>5. Window \in Seq(Runs) /\ Len(Window) = n
  BY <1>1, <1>3, <1>4
<1> QED
  BY <1>1, <1>4, <1>5

LEMMA ReadIndexKeepsInv == \A w \in Workers : Inv /\ ReadIndex(w) => Inv'
<1> SUFFICES ASSUME NEW w \in Workers, Inv, ReadIndex(w) PROVE Inv'
  OBVIOUS
<1> DEFINE read == [worker[w] EXCEPT !.ids = Window]
           me == Searched(read)
<1>1. /\ worker[w].pc = "check" /\ Use(w, {"cache"}) /\ worker' = [worker EXCEPT ![w] = me]
      /\ index' = index /\ entry' = entry /\ output' = output
      /\ tasks' = tasks /\ faults' = faults
  BY DEF ReadIndex, At, OnlyWorker
<1>2. PICK mine \in [Clients -> Bindings] :
        /\ client' = [client EXCEPT ![w] = mine]
        /\ \A c \in Clients : mine[c] = IF c \in {"cache"} THEN "fresh" ELSE client[w][c]
  BY <1>1, UseFacts DEF Inv
<1>3. mine["state"] # "stale" /\ mine["llm"] # "stale"
  BY <1>1, <1>2, TaskFacts DEF Clients
<1>4. /\ read \in WorkerType /\ read.ids = Window /\ read.hit = NoEntry /\ read.next = 1
      /\ read.run \in Runs /\ read.bestSim >= Threshold - 2
  <2>1. /\ worker[w] \in WorkerType /\ worker[w].hit = NoEntry /\ worker[w].next = 1
        /\ worker[w].run \in Runs /\ worker[w].bestSim >= Threshold - 2
    BY <1>1, TaskFacts DEF TaskOK
  <2>2. Window \in Seq(Runs)
    BY WindowFacts DEF Inv
  <2> QED
    BY <2>1, <2>2 DEF WorkerType
<1> HIDE DEF read
<1>5. /\ me \in WorkerType /\ me.ids = Window /\ me.hit = NoEntry /\ me.next = 1
      /\ me.run \in Runs /\ me.bestSim >= Threshold - 2
      /\ \/ me.pc = "work"
         \/ me.pc = "scan" /\ 1 <= Len(Window)
  BY <1>4, SearchedFacts
<1> HIDE DEF me
<1>6. TaskOK(me, mine)
  BY <1>5 DEF TaskOK, StorePcs
<1>7. faults = MaxFaults => Calm(me, entry)
  <2> SUFFICES ASSUME faults = MaxFaults PROVE Calm(me, entry)
    OBVIOUS
  <2>1. Listed(index, entry)
    BY DEF Inv, CalmInv
  <2>2. Listed(me.ids, entry)
    BY <1>5, <2>1, WindowFacts DEF Inv, Listed
  <2>3. BestSoFar(me)
    BY <1>5 DEF BestSoFar
  <2> QED
    BY <1>5, <2>2, <2>3 DEF Calm
<1>8. output' \in [Runs -> Outputs] /\ HitIsSimilar'
  BY <1>1 DEF Inv, TypeOK, HitIsSimilar
<1>9. me.pc # "trim"
  BY <1>5
<1> QED
  BY <1>1, <1>2, <1>3, <1>5, <1>6, <1>7, <1>8, <1>9, TaskFacts, TaskMove

LEMMA ReadEntryKeepsInv == \A w \in Workers : Inv /\ ReadEntry(w) => Inv'
<1> SUFFICES ASSUME NEW w \in Workers, Inv, ReadEntry(w) PROVE Inv'
  OBVIOUS
<1> DEFINE s == worker[w].ids[worker[w].next]
           sim == Similarity[worker[w].run][s]
           better == entry[s] # NoEntry /\ sim > worker[w].bestSim
           read == [worker[w] EXCEPT !.next = @ + 1]
           found == IF better THEN [read EXCEPT !.hit = entry[s], !.bestSim = sim] ELSE read
           me == Searched(found)
<1>1. /\ worker[w].pc = "scan" /\ Use(w, {"cache"}) /\ worker' = [worker EXCEPT ![w] = me]
      /\ index' = index /\ entry' = entry /\ output' = output
      /\ tasks' = tasks /\ faults' = faults
  BY DEF ReadEntry, ReadEntryOver, At, OnlyWorker
<1>2. PICK mine \in [Clients -> Bindings] :
        /\ client' = [client EXCEPT ![w] = mine]
        /\ \A c \in Clients : mine[c] = IF c \in {"cache"} THEN "fresh" ELSE client[w][c]
  BY <1>1, UseFacts DEF Inv
<1>3. mine["state"] # "stale" /\ mine["llm"] # "stale"
  BY <1>1, <1>2, TaskFacts DEF Clients
<1>4. /\ worker[w] \in WorkerType /\ worker[w].ids \in Seq(Runs) /\ worker[w].run \in Runs
      /\ worker[w].next \in 1 .. Len(worker[w].ids) /\ worker[w].next \in Nat
      /\ worker[w].bestSim \in Int /\ worker[w].bestSim >= Threshold - 2
      /\ worker[w].hit \in Outputs
      /\ TaskOK(worker[w], client[w])
  <2>1. worker[w] \in WorkerType /\ TaskOK(worker[w], client[w])
    BY TaskFacts
  <2>2. /\ worker[w].ids \in Seq(Runs) /\ worker[w].next \in Nat /\ worker[w].bestSim \in Int
        /\ worker[w].hit \in Outputs
    BY <2>1 DEF WorkerType
  <2>3. /\ worker[w].run \in Runs /\ worker[w].bestSim >= Threshold - 2
        /\ worker[w].next <= Len(worker[w].ids) /\ worker[w].next >= 1
    BY <1>1, <2>1 DEF TaskOK
  <2>4. Len(worker[w].ids) \in Nat
    BY <2>2, LenProperties
  <2> QED
    BY <2>1, <2>2, <2>3, <2>4
<1>5. /\ s \in Runs /\ sim \in Int /\ Threshold - 2 \in Int /\ entry[s] \in Outputs
      /\ (entry[s] # NoEntry => entry[s] = Answer(s))
  <2>1. s \in Runs
    BY <1>4, ElementOfSeq
  <2>2. sim \in Int /\ Threshold - 2 \in Int
    BY <1>4, <2>1, SimilarityIsANumber
  <2>3. entry \in [Runs -> Outputs] /\ EntryInv
    BY DEF Inv, TypeOK
  <2> QED
    BY <2>1, <2>2, <2>3 DEF EntryInv
<1>6. /\ found \in WorkerType /\ found.ids = worker[w].ids /\ found.run = worker[w].run
      /\ found.next = worker[w].next + 1
      /\ \/ ~better /\ found.hit = worker[w].hit /\ found.bestSim = worker[w].bestSim
         \/ better /\ found.hit = entry[s] /\ found.bestSim = sim
  <2>1. worker[w].next + 1 \in Nat
    BY <1>4
  <2>2. CASE better
    BY <1>4, <1>5, <2>1, <2>2 DEF WorkerType
  <2>3. CASE ~better
    BY <1>4, <2>1, <2>3 DEF WorkerType
  <2> QED
    BY <2>2, <2>3
<1> HIDE DEF found, better, read
<1>7. /\ me \in WorkerType /\ me.ids = worker[w].ids /\ me.run = worker[w].run
      /\ me.next = worker[w].next + 1 /\ me.hit = found.hit /\ me.bestSim = found.bestSim
      /\ \/ me.pc = "scan" /\ me.next <= Len(me.ids)
         \/ me.pc = "work" /\ me.hit = NoEntry
         \/ me.pc = "serve" /\ me.hit # NoEntry
  BY <1>6, SearchedFacts
<1> HIDE DEF me
<1>8. /\ me.bestSim >= worker[w].bestSim /\ me.bestSim >= Threshold - 2
      /\ sim <= me.bestSim \/ entry[s] = NoEntry
  BY <1>4, <1>5, <1>6, <1>7 DEF better
<1>9. me.hit # NoEntry => /\ me.hit.by \in Runs /\ ~me.hit.served
                          /\ Similarity[me.run][me.hit.by] > Threshold - 2
  <2>1. CASE better
    <3>1. me.hit = Answer(s) /\ sim > Threshold - 2
      BY <1>4, <1>5, <1>6, <1>7, <2>1 DEF better
    <3> QED
      BY <1>5, <1>7, <3>1 DEF Answer
  <2>2. CASE ~better
    <3>1. me.hit = worker[w].hit
      BY <1>6, <1>7, <2>2
    <3> QED
      BY <1>4, <1>7, <3>1 DEF TaskOK
  <2> QED
    BY <2>1, <2>2
<1>10. TaskOK(me, mine)
  BY <1>4, <1>7, <1>8, <1>9 DEF TaskOK, StorePcs
<1>11. faults = MaxFaults => Calm(me, entry)
  <2> SUFFICES ASSUME faults = MaxFaults PROVE Calm(me, entry)
    OBVIOUS
  <2>1. Listed(worker[w].ids, entry) /\ BestSoFar(worker[w])
    BY TaskFacts DEF Calm
  <2>2. entry[s] # NoEntry
    BY <1>4, <2>1 DEF Listed
  <2>3. \A k \in 1 .. me.next - 1 : Similarity[me.run][me.ids[k]] <= me.bestSim
    <3> SUFFICES ASSUME NEW k \in 1 .. me.next - 1
        PROVE  Similarity[me.run][me.ids[k]] <= me.bestSim
      OBVIOUS
    <3>1. CASE k = worker[w].next
      BY <1>5, <1>7, <1>8, <2>2, <3>1
    <3>2. CASE k # worker[w].next
      <4>1. k \in 1 .. worker[w].next - 1 /\ k \in 1 .. Len(worker[w].ids)
        BY <1>4, <1>7, <3>2
      <4>2. Similarity[worker[w].run][worker[w].ids[k]] <= worker[w].bestSim
        BY <1>1, <2>1, <4>1 DEF BestSoFar
      <4>3. /\ Similarity[worker[w].run][worker[w].ids[k]] \in Int /\ me.bestSim \in Int
            /\ worker[w].bestSim \in Int
        <5>1. worker[w].ids[k] \in Runs
          BY <1>4, <4>1, ElementOfSeq
        <5> QED
          BY <1>4, <1>7, <5>1, SimilarityIsANumber DEF WorkerType
      <4> QED
        BY <1>7, <1>8, <4>2, <4>3
    <3> QED
      BY <3>1, <3>2
  <2> QED
    BY <1>7, <2>1, <2>3 DEF Calm, BestSoFar
<1>12. output' \in [Runs -> Outputs] /\ HitIsSimilar'
  BY <1>1 DEF Inv, TypeOK, HitIsSimilar
<1>13. worker' = [worker EXCEPT ![w] = me] /\ me.pc # "trim" /\ worker[w].pc # "trim"
  BY <1>1, <1>7 DEF me, found, better, read
<1> QED
  BY <1>1, <1>2, <1>3, <1>7, <1>10, <1>11, <1>12, <1>13, TaskFacts, TaskMove

(* What is left of the clients when an operation of the cache raises.  In  *)
(* a process without faults only a stale client does.                      *)
Raises(w) ==
    \/ ~Usable(w, "cache") /\ UNCHANGED <<client, faults>>
    \/ /\ Fault /\ Usable(w, "cache")
       /\ client' \in {client, [client EXCEPT ![w].cache = "fresh"]}

LEMMA RaisesFacts ==
    ASSUME Inv, NEW w \in Workers, Raises(w)
    PROVE  /\ faults' \in 0 .. MaxFaults
           /\ faults' = MaxFaults => faults = MaxFaults /\ ~Usable(w, "cache")
           /\ \E mine \in [Clients -> Bindings] :
                /\ client' = [client EXCEPT ![w] = mine]
                /\ mine["state"] = client[w]["state"] /\ mine["llm"] = client[w]["llm"]
<1>1. /\ faults \in 0 .. MaxFaults /\ MaxFaults \in Nat
      /\ client \in [Workers -> [Clients -> Bindings]] /\ client[w] \in [Clients -> Bindings]
  BY TaskFacts DEF Inv, TypeOK
<1>2. CASE ~Usable(w, "cache") /\ UNCHANGED <<client, faults>>
  <2>1. client' = [client EXCEPT ![w] = client[w]] /\ faults' = faults
    BY <1>1, <1>2
  <2> QED
    BY <1>1, <1>2, <2>1
<1>3. CASE /\ Fault
           /\ client' \in {client, [client EXCEPT ![w].cache = "fresh"]}
  <2>1. faults' = faults - 1 /\ faults > 0
    BY <1>3 DEF Fault
  <2>2. faults' \in 0 .. MaxFaults /\ faults' # MaxFaults
    BY <1>1, <2>1
  <2>3. CASE client' = client
    <3>1. client' = [client EXCEPT ![w] = client[w]]
      BY <1>1, <2>3
    <3> QED
      BY <1>1, <2>2, <3>1
  <2>4. CASE client' = [client EXCEPT ![w].cache = "fresh"]
    <3> DEFINE mine == [client[w] EXCEPT !.cache = "fresh"]
    <3>1. mine \in [Clients -> Bindings] /\ client' = [client EXCEPT ![w] = mine]
      BY <1>1, <2>4 DEF Bindings
    <3>2. mine["state"] = client[w]["state"] /\ mine["llm"] = client[w]["llm"]
      BY <1>1 DEF Clients
    <3> HIDE DEF mine
    <3> QED
      BY <2>2, <3>1, <3>2
  <2> QED
    BY <1>3, <2>3, <2>4
<1> QED
  BY <1>2, <1>3 DEF Raises

(* Whatever raises in the search, the task goes on without a hit.          *)
LEMMA CheckFailsKeepsInv == \A w \in Workers : Inv /\ CheckFails(w) => Inv'
<1> SUFFICES ASSUME NEW w \in Workers, Inv, CheckFails(w) PROVE Inv'
  OBVIOUS
<1> DEFINE me == [Idle EXCEPT !.pc = "work", !.run = worker[w].run]
<1>1. /\ worker[w].pc \in SearchPcs /\ worker' = [worker EXCEPT ![w] = me]
      /\ index' = index /\ entry' = entry /\ output' = output /\ tasks' = tasks
      /\ Raises(w)
  BY DEF CheckFails, Raises
<1>2. PICK mine \in [Clients -> Bindings] :
        /\ client' = [client EXCEPT ![w] = mine]
        /\ mine["state"] = client[w]["state"] /\ mine["llm"] = client[w]["llm"]
  BY <1>1, RaisesFacts
<1>3. /\ worker[w] \in WorkerType /\ worker[w].run \in Runs /\ worker[w].pc # "trim"
      /\ mine["state"] # "stale" /\ mine["llm"] # "stale"
  BY <1>1, <1>2, TaskFacts DEF TaskOK, SearchPcs
<1>4. /\ me \in WorkerType /\ me.pc = "work" /\ me.run \in Runs /\ me.hit = NoEntry
      /\ me.ids = <<>> /\ me.next = 1 /\ me.bestSim = Threshold - 2
  BY <1>3, IdleTask DEF Idle, WorkerType, Pcs
<1> HIDE DEF me
<1>5. TaskOK(me, mine)
  <2>1. me.bestSim >= Threshold - 2
    BY <1>4, SimilarityIsANumber
  <2> QED
    BY <1>4, <2>1 DEF TaskOK
<1>6. Calm(me, entry)
  BY <1>4 DEF Calm, Listed, BestSoFar
<1>7. output' \in [Runs -> Outputs] /\ HitIsSimilar'
  BY <1>1 DEF Inv, TypeOK, HitIsSimilar
<1>8. /\ faults' \in 0 .. MaxFaults /\ tasks' \in 0 .. MaxTasks
      /\ faults' = MaxFaults => faults = MaxFaults
  BY <1>1, RaisesFacts, TaskFacts
<1> QED
  BY <1>1, <1>2, <1>3, <1>4, <1>5, <1>6, <1>7, <1>8, TaskMove

-----------------------------------------------------------------------------
(* The run.                                                                *)

LEMMA CrashKeepsInv == \A w \in Workers : Inv /\ Crash(w) => Inv'
<1> SUFFICES ASSUME NEW w \in Workers, Inv, Crash(w) PROVE Inv'
  OBVIOUS
<1>1. /\ worker' = [worker EXCEPT ![w] = Idle] /\ client' = [client EXCEPT ![w] = FreshProcess]
      /\ index' = index /\ entry' = entry /\ output' = output /\ tasks' = tasks
      /\ faults > 0 /\ faults' = faults - 1
  BY DEF Crash, Fault
<1>2. FreshProcess \in [Clients -> Bindings]
  BY DEF FreshProcess, Bindings
<1>3. faults' \in 0 .. MaxFaults /\ faults' # MaxFaults /\ tasks' \in 0 .. MaxTasks
  BY <1>1, TaskFacts
<1>4. output' \in [Runs -> Outputs] /\ HitIsSimilar'
  BY <1>1 DEF Inv, TypeOK, HitIsSimilar
<1>5. Idle.pc = "idle"
  BY DEF Idle
<1> QED
  BY <1>1, <1>2, <1>3, <1>4, <1>5, IdleTask, TaskMove

LEMMA ServeKeepsInv == \A w \in Workers : Inv /\ Serve(w) => Inv'
<1> SUFFICES ASSUME NEW w \in Workers, Inv, Serve(w) PROVE Inv'
  OBVIOUS
<1>1. /\ worker[w].pc = "serve" /\ Use(w, {"state"}) /\ worker' = [worker EXCEPT ![w] = Idle]
      /\ output' = [output EXCEPT ![worker[w].run] = FinalOutput(w)]
      /\ index' = index /\ entry' = entry /\ tasks' = tasks /\ faults' = faults
  BY DEF Serve, ServeThen, At, Goto
<1>2. PICK mine \in [Clients -> Bindings] : client' = [client EXCEPT ![w] = mine]
  BY <1>1, UseFacts DEF Inv
<1>3. /\ worker[w].run \in Runs /\ worker[w].hit # NoEntry
      /\ worker[w].hit.by \in Runs
      /\ Similarity[worker[w].run][worker[w].hit.by] > Threshold - 2
  BY <1>1, TaskFacts DEF TaskOK
<1>4. /\ FinalOutput(w) \in Outputs /\ FinalOutput(w).by = worker[w].hit.by
  BY <1>3 DEF FinalOutput, Served, Outputs
<1>5. output' \in [Runs -> Outputs] /\ HitIsSimilar'
  <2>1. output \in [Runs -> Outputs] /\ HitIsSimilar
    BY DEF Inv, TypeOK
  <2> QED
    BY <1>1, <1>3, <1>4, <2>1 DEF HitIsSimilar
<1>6. Idle.pc = "idle"
  BY DEF Idle
<1> QED
  BY <1>1, <1>2, <1>5, <1>6, IdleTask, TaskFacts, TaskMove

LEMMA WorkKeepsInv == \A w \in Workers : Inv /\ Work(w) => Inv'
<1> SUFFICES ASSUME NEW w \in Workers, Inv, Work(w) PROVE Inv'
  OBVIOUS
<1> DEFINE ran == [worker[w] EXCEPT !.pc = "store"]
<1>1. /\ worker[w].pc = "work" /\ Use(w, {"state", "llm"})
      /\ index' = index /\ entry' = entry /\ tasks' = tasks /\ faults' = faults
  BY DEF Work, At
<1>2. PICK mine \in [Clients -> Bindings] :
        /\ client' = [client EXCEPT ![w] = mine]
        /\ \A c \in Clients : mine[c] = IF c \in {"state", "llm"} THEN "fresh" ELSE client[w][c]
  BY <1>1, UseFacts DEF Inv
<1>3. output \in [Runs -> Outputs] /\ HitIsSimilar
  BY DEF Inv, TypeOK
<1>4. /\ worker[w] \in WorkerType /\ worker[w].run \in Runs /\ worker[w].hit = NoEntry
      /\ TaskOK(worker[w], client[w])
  BY <1>1, TaskFacts DEF TaskOK
<1>5. CASE /\ output' = [output EXCEPT ![worker[w].run] = FinalOutput(w)]
           /\ worker' = [worker EXCEPT ![w] = ran]
  <2>1. FinalOutput(w) \in Outputs /\ ~FinalOutput(w).served
    BY <1>4 DEF FinalOutput, Answer, Outputs
  <2>2. output' \in [Runs -> Outputs] /\ HitIsSimilar'
    BY <1>3, <1>4, <1>5, <2>1 DEF HitIsSimilar
  <2>3. /\ ran \in WorkerType /\ ran.pc = "store" /\ ran.run = worker[w].run
        /\ ran.hit = NoEntry /\ ran.ids = worker[w].ids /\ ran.next = worker[w].next
        /\ ran.bestSim = worker[w].bestSim
    BY <1>4 DEF WorkerType, Pcs, StorePcs
  <2> HIDE DEF ran
  <2>4. TaskOK(ran, mine)
    BY <1>4, <2>3 DEF TaskOK
  <2>5. faults = MaxFaults => Calm(ran, entry)
    BY <2>3, TaskFacts DEF Calm, BestSoFar
  <2>6. mine["state"] # "stale" /\ mine["llm"] # "stale"
    BY <1>2 DEF Clients
  <2> QED
    BY <1>1, <1>2, <1>5, <2>2, <2>3, <2>4, <2>5, <2>6, TaskFacts, TaskMove
<1>6. CASE worker' = [worker EXCEPT ![w] = Idle] /\ output' = output
  <2>1. output' \in [Runs -> Outputs] /\ HitIsSimilar' /\ Idle.pc = "idle"
    BY <1>3, <1>6 DEF HitIsSimilar, Idle
  <2> QED
    BY <1>1, <1>2, <1>6, <2>1, IdleTask, TaskFacts, TaskMove
<1> QED
  BY <1>5, <1>6 DEF Work, Goto

-----------------------------------------------------------------------------
(* The store.                                                              *)

(* Without a fault only a stale client raises, and the cache's client is   *)
(* not stale any more once store has used it.                              *)
LEMMA StoreFailsKeepsInv == \A w \in Workers : Inv /\ StoreFails(w) => Inv'
<1> SUFFICES ASSUME NEW w \in Workers, Inv, StoreFails(w) PROVE Inv'
  OBVIOUS
<1>1. /\ worker[w].pc \in StorePcs /\ worker' = [worker EXCEPT ![w] = Idle]
      /\ index' = index /\ entry' = entry /\ output' = output /\ tasks' = tasks
      /\ Raises(w)
  BY DEF StoreFails, StoreFailsTo, Goto, Raises
<1>2. PICK mine \in [Clients -> Bindings] : client' = [client EXCEPT ![w] = mine]
  BY <1>1, RaisesFacts
<1>3. faults' \in 0 .. MaxFaults
  BY <1>1, RaisesFacts
<1>4. faults' = MaxFaults => faults = MaxFaults /\ worker[w].pc # "trim"
  <2> SUFFICES ASSUME faults' = MaxFaults PROVE faults = MaxFaults /\ worker[w].pc # "trim"
    OBVIOUS
  <2>1. faults = MaxFaults /\ client[w]["cache"] = "stale"
    BY <1>1, RaisesFacts DEF Usable
  <2> QED
    BY <2>1, TaskFacts DEF TaskOK
<1>5. output' \in [Runs -> Outputs] /\ HitIsSimilar'
  BY <1>1 DEF Inv, TypeOK, HitIsSimilar
<1>6. Idle.pc = "idle"
  BY DEF Idle
<1> QED
  BY <1>1, <1>2, <1>3, <1>4, <1>5, <1>6, IdleTask, TaskFacts, TaskMove

LEMMA StoreEntryKeepsInv == \A w \in Workers : Inv /\ StoreEntry(w) => Inv'
<1> SUFFICES ASSUME NEW w \in Workers, Inv, StoreEntry(w) PROVE Inv'
  OBVIOUS
<1> DEFINE me == [worker[w] EXCEPT !.pc = "push"]
           run == worker[w].run
<1>1. /\ worker[w].pc = "store" /\ Use(w, {"cache"}) /\ worker' = [worker EXCEPT ![w] = me]
      /\ entry' = [entry EXCEPT ![run] = FinalOutput(w)]
      /\ index' = index /\ output' = output /\ tasks' = tasks /\ faults' = faults
  BY DEF StoreEntry, At, Goto
<1>2. PICK mine \in [Clients -> Bindings] :
        /\ client' = [client EXCEPT ![w] = mine]
        /\ \A c \in Clients : mine[c] = IF c \in {"cache"} THEN "fresh" ELSE client[w][c]
  BY <1>1, UseFacts DEF Inv
<1>3. /\ worker[w] \in WorkerType /\ run \in Runs /\ worker[w].hit = NoEntry
      /\ TaskOK(worker[w], client[w])
      /\ mine["state"] # "stale" /\ mine["llm"] # "stale" /\ mine["cache"] # "stale"
  BY <1>1, <1>2, TaskFacts DEF TaskOK, StorePcs, Clients
<1>4. /\ me \in WorkerType /\ me.pc = "push" /\ me.run = run
      /\ me.hit = NoEntry /\ me.ids = worker[w].ids /\ me.next = worker[w].next
      /\ me.bestSim = worker[w].bestSim
  BY <1>3 DEF WorkerType, Pcs, StorePcs
<1> HIDE DEF me
<1>5. TaskOK(me, mine)
  BY <1>3, <1>4 DEF TaskOK
<1>6. FinalOutput(w) = Answer(run) /\ Answer(run) # NoEntry /\ Answer(run) \in Outputs
  <2>1. run # NoRun
    BY <1>3, CacheConstants DEF CacheConstants
  <2> QED
    BY <1>3, <2>1 DEF FinalOutput, Answer, NoEntry, Outputs
<1>7. entry' \in [Runs -> Outputs] /\ entry'[run] = Answer(run)
  BY <1>1, <1>3, <1>6 DEF Inv, TypeOK
<1>8. \A s \in Runs : entry[s] # NoEntry => entry'[s] # NoEntry
  BY <1>1, <1>3, <1>6 DEF Inv, TypeOK
<1>9. EntryInv'
  BY <1>1, <1>3, <1>6 DEF Inv, TypeOK, EntryInv
<1>10. /\ TypeOK' /\ TasksInv' /\ worker'[w] = me
       /\ \A v \in Workers \ {w} : worker'[v] = worker[v]
  BY <1>1, <1>2, <1>3, <1>4, <1>5, <1>7, OneTask DEF Inv, TypeOK
<1>11. HitIsSimilar'
  BY <1>1 DEF Inv, HitIsSimilar
<1>12. CalmInv'
  <2> SUFFICES ASSUME faults = MaxFaults PROVE CalmInv'
    BY <1>1 DEF CalmInv
  <2>1. /\ Listed(index, entry) /\ Len(index) <= MaxEntries + Cardinality(Trimming)
        /\ \A v \in Workers : Calm(worker[v], entry)
    BY DEF Inv, CalmInv
  <2>2. \A ids \in Seq(Runs) : Listed(ids, entry) => Listed(ids, entry')
    BY <1>8, ElementOfSeq DEF Listed
  <2>3. Listed(index, entry')
    BY <2>1, <2>2 DEF Inv, TypeOK
  <2>4. Trimming' = Trimming
    BY <1>1, <1>4, <1>10 DEF Trimming, At
  <2>5. \A v \in Workers : Calm(worker'[v], entry')
    <3> SUFFICES ASSUME NEW v \in Workers PROVE Calm(worker'[v], entry')
      OBVIOUS
    <3>1. worker[v] \in WorkerType /\ worker[v].ids \in Seq(Runs)
      BY TaskFacts DEF WorkerType
    <3>2. Listed(worker[v].ids, entry')
      BY <2>1, <2>2, <3>1 DEF Calm
    <3>3. CASE v = w
      BY <1>4, <1>6, <1>7, <1>10, <3>2, <3>3 DEF Calm, BestSoFar
    <3>4. CASE v # w
      <4>1. worker'[v] = worker[v]
        BY <1>10, <3>4
      <4>2. worker[v].pc = "push" => entry'[worker[v].run] # NoEntry
        BY <1>8, <2>1, TaskFacts DEF Calm, TaskOK
      <4> QED
        BY <2>1, <3>2, <4>1, <4>2 DEF Calm
    <3> QED
      BY <3>3, <3>4
  <2> QED
    BY <1>1, <2>1, <2>3, <2>4, <2>5 DEF CalmInv
<1> QED
  BY <1>9, <1>10, <1>11, <1>12 DEF Inv

(* A new id is one more than the window holds until its task trims.        *)
LEMMA PushIndexKeepsInv == \A w \in Workers : Inv /\ PushIndex(w) => Inv'
<1> SUFFICES ASSUME NEW w \in Workers, Inv, PushIndex(w) PROVE Inv'
  OBVIOUS
<1> DEFINE me == [worker[w] EXCEPT !.pc = "trim"]
           run == worker[w].run
<1>1. /\ worker[w].pc = "push" /\ Use(w, {"cache"}) /\ worker' = [worker EXCEPT ![w] = me]
      /\ index' = <<run>> \o index
      /\ entry' = entry /\ output' = output /\ tasks' = tasks /\ faults' = faults
  BY DEF PushIndex, PushIndexThen, At, Goto
<1>2. PICK mine \in [Clients -> Bindings] :
        /\ client' = [client EXCEPT ![w] = mine]
        /\ \A c \in Clients : mine[c] = IF c \in {"cache"} THEN "fresh" ELSE client[w][c]
  BY <1>1, UseFacts DEF Inv
<1>3. /\ worker[w] \in WorkerType /\ run \in Runs /\ worker[w].hit = NoEntry
      /\ TaskOK(worker[w], client[w])
      /\ mine["state"] # "stale" /\ mine["llm"] # "stale" /\ mine["cache"] # "stale"
  BY <1>1, <1>2, TaskFacts DEF TaskOK, StorePcs, Clients
<1>4. /\ me \in WorkerType /\ me.pc = "trim" /\ me.run = run
      /\ me.hit = NoEntry /\ me.ids = worker[w].ids /\ me.next = worker[w].next
      /\ me.bestSim = worker[w].bestSim
  BY <1>3 DEF WorkerType, Pcs, StorePcs
<1> HIDE DEF me
<1>5. TaskOK(me, mine)
  BY <1>3, <1>4 DEF TaskOK
<1>6. /\ index \in Seq(Runs) /\ Len(index) \in Nat
      /\ index' \in Seq(Runs) /\ Len(index') = Len(index) + 1
      /\ \A k \in 1 .. Len(index') :
           index'[k] = run \/ \E j \in 1 .. Len(index) : index'[k] = index[j]
  <2>1. index \in Seq(Runs) /\ <<run>> \in Seq(Runs) /\ Len(<<run>>) = 1 /\ Len(index) \in Nat
    BY <1>3, LenProperties DEF Inv, TypeOK
  <2>2. /\ index' \in Seq(Runs) /\ Len(index') = 1 + Len(index)
        /\ \A k \in 1 .. Len(index') : index'[k] = IF k <= 1 THEN <<run>>[k] ELSE index[k - 1]
    BY <1>1, <2>1, ConcatProperties
  <2>3. \A k \in 1 .. Len(index') :
          index'[k] = run \/ \E j \in 1 .. Len(index) : index'[k] = index[j]
    <3> TAKE k \in 1 .. Len(index')
    <3>1. CASE k = 1
      BY <2>2, <3>1
    <3>2. CASE k # 1
      <4>1. k - 1 \in 1 .. Len(index)
        BY <2>1, <2>2, <3>2
      <4> QED
        BY <2>1, <2>2, <3>2, <4>1
    <3> QED
      BY <3>1, <3>2
  <2> QED
    BY <2>1, <2>2, <2>3
<1>7. /\ TypeOK' /\ TasksInv' /\ worker'[w] = me
      /\ \A v \in Workers \ {w} : worker'[v] = worker[v]
  BY <1>1, <1>2, <1>3, <1>4, <1>5, <1>6, OneTask DEF Inv, TypeOK
<1>8. EntryInv' /\ HitIsSimilar'
  BY <1>1 DEF Inv, EntryInv, HitIsSimilar
<1>9. CalmInv'
  <2> SUFFICES ASSUME faults = MaxFaults PROVE CalmInv'
    BY <1>1 DEF CalmInv
  <2>1. /\ Listed(index, entry) /\ Len(index) <= MaxEntries + Cardinality(Trimming)
        /\ \A v \in Workers : Calm(worker[v], entry)
    BY DEF Inv, CalmInv
  <2>2. Listed(index', entry)
    BY <1>1, <1>6, <2>1 DEF Listed, Calm
  <2>3. \A v \in Workers : Calm(worker'[v], entry)
    <3>1. Calm(me, entry)
      BY <1>4, <2>1 DEF Calm, BestSoFar
    <3> QED
      BY <1>7, <2>1, <3>1
  <2>4. Trimming' = Trimming \cup {w} /\ w \notin Trimming
    BY <1>1, <1>4, <1>7 DEF Trimming, At
  <2>5. Cardinality(Trimming') = Cardinality(Trimming) + 1
    BY <2>4, TrimmingIsFinite, FS_AddElement
  <2>6. Len(index') <= MaxEntries + Cardinality(Trimming')
    BY <1>6, <2>1, <2>5, TrimmingIsFinite, CacheConstants DEF CacheConstants
  <2> QED
    BY <1>1, <2>2, <2>3, <2>6 DEF CalmInv
<1> QED
  BY <1>7, <1>8, <1>9 DEF Inv

LEMMA TrimIndexKeepsInv == \A w \in Workers : Inv /\ TrimIndex(w) => Inv'
<1> SUFFICES ASSUME NEW w \in Workers, Inv, TrimIndex(w) PROVE Inv'
  OBVIOUS
<1>1. /\ Use(w, {"cache"}) /\ worker' = [worker EXCEPT ![w] = Idle] /\ index' = Window
      /\ entry' = entry /\ output' = output /\ tasks' = tasks /\ faults' = faults
  BY DEF TrimIndex, Goto
<1>2. PICK mine \in [Clients -> Bindings] : client' = [client EXCEPT ![w] = mine]
  BY <1>1, UseFacts DEF Inv
<1>3. Idle.pc = "idle"
  BY DEF Idle
<1>4. /\ TypeOK' /\ TasksInv' /\ worker'[w] = Idle
      /\ \A v \in Workers \ {w} : worker'[v] = worker[v]
  BY <1>1, <1>2, <1>3, IdleTask, WindowFacts, OneTask DEF Inv, TypeOK
<1>5. EntryInv' /\ HitIsSimilar'
  BY <1>1 DEF Inv, EntryInv, HitIsSimilar
<1>6. CalmInv'
  <2> SUFFICES ASSUME faults = MaxFaults PROVE CalmInv'
    BY <1>1 DEF CalmInv
  <2>1. Listed(index, entry) /\ \A v \in Workers : Calm(worker[v], entry)
    BY DEF Inv, CalmInv
  <2>2. Listed(index', entry)
    BY <1>1, <2>1, WindowFacts DEF Inv, Listed
  <2>3. \A v \in Workers : Calm(worker'[v], entry)
    BY <1>4, <2>1, IdleTask
  <2>4. IsFiniteSet(Trimming') /\ Cardinality(Trimming') \in Nat
    <3>1. Trimming' \subseteq Workers /\ IsFiniteSet(Workers)
      BY CacheConstants DEF Trimming, CacheConstants
    <3> QED
      BY <3>1, FS_Subset, FS_CardinalityType
  <2>5. Len(index') <= MaxEntries /\ Len(index') \in Nat /\ MaxEntries \in Nat
    BY <1>1, WindowFacts, CacheConstants DEF Inv, CacheConstants
  <2>6. Len(index') <= MaxEntries + Cardinality(Trimming')
    BY <2>4, <2>5
  <2> QED
    BY <1>1, <2>2, <2>3, <2>6 DEF CalmInv
<1> QED
  BY <1>4, <1>5, <1>6 DEF Inv

LEMMA ExpireKeepsInv == \A r \in Runs : Inv /\ Expire(r) => Inv'
<1> SUFFICES ASSUME NEW r \in Runs, Inv, Expire(r) PROVE Inv'
  OBVIOUS
<1>1. /\ faults > 0 /\ faults' = faults - 1 /\ entry' = [entry EXCEPT ![r] = NoEntry]
      /\ index' = index /\ output' = output /\ worker' = worker /\ client' = client
      /\ tasks' = tasks
  BY DEF Expire, Fault
<1>2. faults \in 0 .. MaxFaults /\ MaxFaults \in Nat /\ TypeOK
  BY CacheConstants DEF Inv, TypeOK, CacheConstants
<1>3. faults' \in 0 .. MaxFaults /\ faults' # MaxFaults
  BY <1>1, <1>2
<1>4. entry' \in [Runs -> Outputs]
  BY <1>1, <1>2 DEF TypeOK, NoEntry, Outputs
<1>5. TypeOK'
  BY <1>1, <1>2, <1>3, <1>4 DEF TypeOK, At, Usable
<1>6. TasksInv' /\ HitIsSimilar'
  BY <1>1 DEF Inv, TasksInv, HitIsSimilar
<1>7. EntryInv'
  BY <1>1, <1>2 DEF Inv, TypeOK, EntryInv
<1>8. CalmInv'
  BY <1>3 DEF CalmInv
<1> QED
  BY <1>5, <1>6, <1>7, <1>8 DEF Inv

-----------------------------------------------------------------------------
LEMMA NextKeepsInv == Inv /\ [Next]_vars => Inv'
<1> SUFFICES ASSUME Inv, [Next]_vars PROVE Inv'
  OBVIOUS
<1>1. CASE Next
  <2>1. ASSUME NEW w \in Workers, TaskStep(w) PROVE Inv'
    BY <2>1, ReadIndexKeepsInv, ReadEntryKeepsInv, CheckFailsKeepsInv, ServeKeepsInv,
       WorkKeepsInv, StoreEntryKeepsInv, PushIndexKeepsInv, TrimIndexKeepsInv,
       StoreFailsKeepsInv DEF TaskStep
  <2> QED
    BY <1>1, <2>1, BeginKeepsInv, OtherTaskKeepsInv, CrashKeepsInv, ExpireKeepsInv DEF Next
<1>2. CASE UNCHANGED vars
  BY <1>2 DEF vars, Inv, TypeOK, At, Usable, TasksInv, EntryInv, CalmInv, Trimming, HitIsSimilar
<1> QED
  BY <1>1, <1>2

(* Everything the proofs know of the cache holds in every state.           *)
THEOREM CacheInvariant == Spec => []Inv
<1>1. Init => Inv
  BY InitInv
<1>2. Inv /\ [Next]_vars => Inv'
  BY NextKeepsInv
<1> QED
  BY <1>1, <1>2, PTL DEF Spec

(* Types, and with them the resets of tasks.py:50-51 and 89-90: no task    *)
(* ever runs with a state or LLM client of an earlier event loop.          *)
THEOREM CacheTypeCorrect == Spec => []TypeOK
<1>1. Inv => TypeOK
  BY DEF Inv
<1> QED
  BY <1>1, CacheInvariant, PTL

(* What a run is served was computed for an input above the bar            *)
(* (orchestrator.py:98-106, 282), whatever fails, expires or dies.         *)
THEOREM HitsAreSimilar == Spec => []HitIsSimilar
<1>1. Inv => HitIsSimilar
  BY DEF Inv
<1> QED
  BY <1>1, CacheInvariant, PTL

(* While nothing fails, check_cache never settles for less than the best   *)
(* entry it has read (cache_service.py:104-127).                           *)
THEOREM BestHitIsKept == Spec => []NothingBetterWasRead
<1>1. Inv => NothingBetterWasRead
  BY DEF Inv, CalmInv, Calm, BestSoFar, NothingBetterWasRead
<1> QED
  BY <1>1, CacheInvariant, PTL

(* While nothing fails, the index holds at most its window and one id for  *)
(* each task between lpush and ltrim (cache_service.py:171-172).           *)
THEOREM IndexKeepsItsWindow == Spec => []WindowIsBounded
<1>1. Inv => WindowIsBounded
  BY DEF Inv, CalmInv, Trimming, WindowIsBounded
<1> QED
  BY <1>1, CacheInvariant, PTL
=============================================================================
