--------------------------- MODULE Clients_proofs ---------------------------
(***************************************************************************)
(* Proofs about Clients and the Fleet they use, for any runs, priorities,  *)
(* worker processes and cases, and any number of reruns, faults, polls and *)
(* expired tokens.                                                         *)
(***************************************************************************)
EXTENDS Clients, SequenceTheorems, TLAPS

(* What may happen to one run.                                             *)
Move(r) == Create(r) \/ CreateFails(r) \/ Handle(r) \/ Retry(r) \/ Approve(r) \/ Work(r)

-----------------------------------------------------------------------------
(* The inductive invariant, part by part.                                  *)

(* The broker has a message for each run that is queued, and only one.     *)
QueueInv ==
    /\ \A i \in DOMAIN queue : at[queue[i]] = "queued"
    /\ \A i, j \in DOMAIN queue : queue[i] = queue[j] => i = j

(* A final status is only written over by the attempt that wrote it; and,  *)
(* unless a commit failed, a hit is on its way to COMPLETED and a          *)
(* violation to SAFETY_BLOCKED.                                            *)
Over(r) == row[r].status \in _TERMINAL_STATUSES

RunInv(r) ==
    /\ Over(r) => at[r] \in {"idle", "score", "fail"}
    /\ faults = MaxFaults =>
         /\ row[r].hit => \/ at[r] = "serve"
                          \/ at[r] = "idle" /\ row[r].status = "COMPLETED"
         /\ row[r].flagged => \/ at[r] = "block"
                              \/ at[r] = "idle" /\ row[r].status = "SAFETY_BLOCKED"

(* What the first query found over is still as it was.                     *)
ReportInv ==
    /\ reruns <= report.reruns
    /\ report.pc \in {"statuses", "absent"} => report.calm = {}
    /\ report.pc \in {"statuses", "absent", "hits"} =>
         report.hits = {} /\ report.flagged = {}
    /\ reruns = report.reruns => \A r \in report.calm :
         /\ at[r] = "idle"
         /\ r \in report.completed <=> row[r].status = "COMPLETED"
         /\ r \in report.blocked <=> row[r].status = "SAFETY_BLOCKED"

(* The user knows which of its submissions has no answer yet.              *)
UserInv ==
    /\ user.pc # "await" => user.awaiting = {}
    /\ \A r \in UserRuns : reply[r] = "waiting" => r \in user.awaiting

-----------------------------------------------------------------------------
(* The queue.                                                              *)

LEMMA QueueExtended ==
    ASSUME queue \in Seq(Runs), NEW r \in Runs
    PROVE  LET q == Append(queue, r)
               n == Len(queue) + 1
           IN  /\ q \in Seq(Runs) /\ DOMAIN q = DOMAIN queue \cup {n} /\ n \notin DOMAIN queue
               /\ q[n] = r /\ \A i \in DOMAIN queue : q[i] = queue[i]
<1>1. /\ Len(queue) \in Nat /\ DOMAIN queue = 1 .. Len(queue)
      /\ Append(queue, r) \in Seq(Runs) /\ Len(Append(queue, r)) = Len(queue) + 1
      /\ Append(queue, r)[Len(queue) + 1] = r
      /\ \A i \in 1 .. Len(queue) : Append(queue, r)[i] = queue[i]
  BY LenProperties, AppendProperties
<1>2. DOMAIN Append(queue, r) = 1 .. Len(queue) + 1
  BY <1>1, LenProperties
<1>3. /\ 1 .. Len(queue) + 1 = (1 .. Len(queue)) \cup {Len(queue) + 1}
      /\ Len(queue) + 1 \notin 1 .. Len(queue)
  BY <1>1
<1> QED
  BY <1>1, <1>2, <1>3

(* A message is taken out of the queue: the others are where From says.    *)
Without(i) == SubSeq(queue, 1, i - 1) \o SubSeq(queue, i + 1, Len(queue))
From(i, k) == IF k < i THEN k ELSE k + 1

LEMMA QueueShortened ==
    ASSUME queue \in Seq(Runs), NEW i \in DOMAIN queue
    PROVE  /\ Without(i) \in Seq(Runs)
           /\ \A k \in DOMAIN Without(i) :
                /\ From(i, k) \in DOMAIN queue /\ From(i, k) # i
                /\ Without(i)[k] = queue[From(i, k)]
           /\ \A k, l \in DOMAIN Without(i) : From(i, k) = From(i, l) => k = l
<1> DEFINE a == SubSeq(queue, 1, i - 1)
           b == SubSeq(queue, i + 1, Len(queue))
           q == Without(i)
<1>1. PICK n : n = Len(queue) /\ n \in Nat /\ DOMAIN queue = 1 .. n /\ i \in 1 .. n
  BY LenProperties
<1>2. \A k \in 1 .. n : queue[k] \in Runs
  BY <1>1, ElementOfSeq
<1>3. /\ a \in Seq(Runs) /\ Len(a) = i - 1 /\ \A k \in 1 .. i - 1 : a[k] = queue[k]
  <2>1. /\ SubSeq(queue, 1, i - 1) \in Seq(Runs)
        /\ Len(SubSeq(queue, 1, i - 1)) = IF 1 <= i - 1 THEN (i - 1) - 1 + 1 ELSE 0
        /\ \A k \in 1 .. (i - 1) - 1 + 1 : SubSeq(queue, 1, i - 1)[k] = queue[1 + k - 1]
    BY <1>1, <1>2, SubSeqProperties
  <2> QED
    BY <1>1, <2>1
<1>4. /\ b \in Seq(Runs) /\ Len(b) = n - i /\ \A k \in 1 .. n - i : b[k] = queue[i + k]
  <2>1. /\ SubSeq(queue, i + 1, n) \in Seq(Runs)
        /\ Len(SubSeq(queue, i + 1, n)) = IF i + 1 <= n THEN n - (i + 1) + 1 ELSE 0
        /\ \A k \in 1 .. n - (i + 1) + 1 : SubSeq(queue, i + 1, n)[k] = queue[(i + 1) + k - 1]
    BY <1>1, <1>2, SubSeqProperties
  <2> QED
    BY <1>1, <2>1
<1>5. q = a \o b
  BY DEF Without
<1> HIDE DEF a, b, q
<1>6. /\ q \in Seq(Runs) /\ Len(q) = n - 1
      /\ \A k \in 1 .. n - 1 : q[k] = IF k <= i - 1 THEN a[k] ELSE b[k - (i - 1)]
  <2>1. /\ a \o b \in Seq(Runs) /\ Len(a \o b) = Len(a) + Len(b)
        /\ \A k \in 1 .. Len(a) + Len(b) :
             (a \o b)[k] = IF k <= Len(a) THEN a[k] ELSE b[k - Len(a)]
    BY <1>3, <1>4, ConcatProperties
  <2>2. Len(a) + Len(b) = n - 1
    <3>1. PICK x, y : x = Len(a) /\ y = Len(b)
      OBVIOUS
    <3>2. x = i - 1 /\ y = n - i
      BY <1>3, <1>4, <3>1
    <3>3. x + y = n - 1
      BY <1>1, <3>2
    <3> QED
      BY <3>1, <3>3
  <2> QED
    BY <1>3, <1>5, <2>1, <2>2
<1>7. DOMAIN q = 1 .. n - 1
  BY <1>6, LenProperties
<1>8. \A k \in 1 .. n - 1 : /\ From(i, k) \in 1 .. n /\ From(i, k) # i
                           /\ q[k] = queue[From(i, k)]
  <2> TAKE k \in 1 .. n - 1
  <2>1. CASE k < i
    BY <1>1, <1>3, <1>6, <2>1 DEF From
  <2>2. CASE ~(k < i)
    <3>1. k - (i - 1) \in 1 .. n - i /\ i + (k - (i - 1)) = k + 1 /\ ~(k <= i - 1)
      BY <1>1, <2>2
    <3>2. q[k] = queue[k + 1]
      BY <1>4, <1>6, <3>1
    <3> QED
      BY <1>1, <2>2, <3>2 DEF From
  <2> QED
    BY <2>1, <2>2
<1>9. \A k, l \in 1 .. n - 1 : From(i, k) = From(i, l) => k = l
  BY <1>1 DEF From
<1> QED
  BY <1>1, <1>6, <1>7, <1>8, <1>9 DEF q

-----------------------------------------------------------------------------
(* What happens to a run leaves the rows of the others alone.              *)

RowType == [status : Settled \cup {"none", "PENDING", "RUNNING"},
            hit : BOOLEAN, flagged : BOOLEAN, skip : BOOLEAN]
Replies == {"none", "waiting", "accepted", "refused"}

Only(r) == \A s \in Runs :
    s # r => row'[s] = row[s] /\ at'[s] = at[s] /\ reply'[s] = reply[s]

(* The row, the place and the answer of run r are written.                 *)
Written(r, new, pc, answer) ==
    /\ row' = [row EXCEPT ![r] = new] /\ at' = [at EXCEPT ![r] = pc]
    /\ reply' = [reply EXCEPT ![r] = answer]

LEMMA WrittenFacts ==
    ASSUME FleetTypeOK, NEW r \in Runs, NEW new \in RowType, NEW pc \in Pcs,
           NEW answer \in Replies, Written(r, new, pc, answer)
    PROVE  /\ row' \in [Runs -> RowType] /\ at' \in [Runs -> Pcs] /\ reply' \in [Runs -> Replies]
           /\ row'[r] = new /\ at'[r] = pc /\ reply'[r] = answer
           /\ Only(r)
BY DEF FleetTypeOK, Written, RowType, Replies, Only

(* The places a run can go to.                                             *)
LEMMA PcNames ==
    /\ AttemptPcs \subseteq Pcs
    /\ {"none", "publish", "queued", "idle", "screen", "fail"} \subseteq Pcs
    /\ {"screen", "fail"} \subseteq AttemptPcs
BY DEF Pcs, AttemptPcs

(* A commit, a decision or an answer that leaves the rest as it is.        *)
LEMMA RowsWritten ==
    ASSUME FleetTypeOK, NEW r \in Runs
    PROVE  /\ row = [row EXCEPT ![r] = row[r]] /\ at = [at EXCEPT ![r] = at[r]]
           /\ reply = [reply EXCEPT ![r] = reply[r]]
           /\ \A st : [row EXCEPT ![r].status = st]
                        = [row EXCEPT ![r] = [row[r] EXCEPT !.status = st]]
           /\ row[r] \in RowType /\ at[r] \in Pcs /\ reply[r] \in Replies
           /\ \A st \in Settled \cup {"none", "PENDING", "RUNNING"} :
                LET new == [row[r] EXCEPT !.status = st] IN
                  /\ new \in RowType /\ new.status = st
                  /\ new.hit = row[r].hit /\ new.flagged = row[r].flagged
BY DEF FleetTypeOK, RowType, Replies

(* An outcome is written to the row of run r.                              *)
Concludes(r, pc, st, next) ==
    /\ at[r] = pc /\ Written(r, [row[r] EXCEPT !.status = st], next, reply[r])
    /\ UNCHANGED <<queue, faults, reruns>>

LEMMA DecideFacts ==
    ASSUME FleetTypeOK, NEW r \in Runs, NEW pc, NEW next, Decide(r, pc, next)
    PROVE  /\ at[r] = pc /\ \E p \in next : Written(r, row[r], p, reply[r])
           /\ UNCHANGED <<queue, faults, reruns>>
BY RowsWritten DEF Decide, OnlyAt, Written

LEMMA ConcludeFacts ==
    ASSUME FleetTypeOK, NEW r \in Runs, NEW pc, NEW st, NEW next, Conclude(r, pc, st, next)
    PROVE  Concludes(r, pc, st, next)
BY RowsWritten DEF Conclude, SetStatus, Goto, OnlyRow, Concludes, Written

LEMMA QueueKept ==
    ASSUME FleetTypeOK, QueueInv, NEW r \in Runs, Only(r), queue' = queue, at[r] # "queued"
    PROVE  QueueInv'
<1>1. \A i \in DOMAIN queue : queue[i] \in Runs /\ queue[i] # r
  <2> TAKE i \in DOMAIN queue
  <2>1. queue[i] \in Runs
    <3>1. i \in 1 .. Len(queue) /\ queue \in Seq(Runs)
      BY LenProperties DEF FleetTypeOK
    <3> QED
      BY <3>1, ElementOfSeq
  <2> QED
    BY <2>1 DEF QueueInv
<1> QED
  BY <1>1 DEF QueueInv, Only

LEMMA QueueGrows ==
    ASSUME FleetTypeOK, QueueInv, NEW r \in Runs, Only(r), queue' = Append(queue, r),
           at[r] # "queued", at'[r] = "queued"
    PROVE  queue' \in Seq(Runs) /\ QueueInv'
<1>1. queue \in Seq(Runs)
  BY DEF FleetTypeOK
<1>2. PICK n : /\ queue' \in Seq(Runs) /\ DOMAIN queue' = DOMAIN queue \cup {n}
               /\ n \notin DOMAIN queue /\ queue'[n] = r
               /\ \A i \in DOMAIN queue : queue'[i] = queue[i]
  BY <1>1, QueueExtended
<1>3. \A i \in DOMAIN queue : queue[i] \in Runs /\ queue[i] # r /\ at'[queue[i]] = "queued"
  <2> TAKE i \in DOMAIN queue
  <2>1. queue[i] \in Runs
    <3>1. i \in 1 .. Len(queue)
      BY <1>1, LenProperties
    <3> QED
      BY <1>1, <3>1, ElementOfSeq
  <2> QED
    BY <2>1 DEF QueueInv, Only
<1> QED
  BY <1>2, <1>3 DEF QueueInv

LEMMA QueueShrinks ==
    ASSUME FleetTypeOK, QueueInv, NEW r \in Runs, Only(r), NEW i \in DOMAIN queue,
           queue[i] = r, queue' = Without(i)
    PROVE  queue' \in Seq(Runs) /\ QueueInv'
<1>1. queue \in Seq(Runs)
  BY DEF FleetTypeOK
<1>2. /\ queue' \in Seq(Runs)
      /\ \A k \in DOMAIN queue' : /\ From(i, k) \in DOMAIN queue /\ From(i, k) # i
                                  /\ queue'[k] = queue[From(i, k)]
      /\ \A k, l \in DOMAIN queue' : From(i, k) = From(i, l) => k = l
  BY <1>1, QueueShortened
<1>3. \A k \in DOMAIN queue' : /\ queue[From(i, k)] # r /\ queue[From(i, k)] \in Runs
                               /\ at[queue[From(i, k)]] = "queued"
  <2> TAKE k \in DOMAIN queue'
  <2>1. queue[From(i, k)] \in Runs
    <3>1. From(i, k) \in 1 .. Len(queue)
      BY <1>1, <1>2, LenProperties
    <3> QED
      BY <1>1, <3>1, ElementOfSeq
  <2> QED
    BY <1>2, <2>1 DEF QueueInv
<1>4. \A k \in DOMAIN queue' : at'[queue'[k]] = "queued"
  BY <1>2, <1>3 DEF Only
<1>5. \A k, l \in DOMAIN queue' : queue'[k] = queue'[l] => k = l
  BY <1>2 DEF QueueInv
<1> QED
  BY <1>2, <1>4, <1>5 DEF QueueInv

-----------------------------------------------------------------------------
(* What each transition of a run keeps.                                    *)
Sound(r) ==
    /\ FleetTypeOK' /\ QueueInv' /\ RunInv(r)' /\ Only(r)
    /\ faults' <= faults /\ reruns' <= reruns
    /\ at[r] = "idle" => reruns' < reruns
    /\ reruns' = reruns /\ Over(r) => Over(r)'
    /\ \/ reply'[r] = reply[r]
       \/ reply[r] = "waiting" /\ reply'[r] \in {"accepted", "refused"}
       \/ Create(r) /\ reply'[r] = "waiting"
       \/ CreateFails(r) /\ reply'[r] = "refused"

LEMMA CountersAreNat ==
    ASSUME FleetTypeOK
    PROVE  /\ faults \in Nat /\ reruns \in Nat /\ MaxFaults \in Nat /\ MaxReruns \in Nat
           /\ faults <= MaxFaults /\ reruns <= MaxReruns
BY FleetConstants DEF FleetTypeOK, FleetConstants

(* A write of run r, in terms of the row, the place and the answer.        *)
LEMMA SoundWrite ==
    ASSUME FleetTypeOK, QueueInv, NEW r \in Runs, NEW new \in RowType, NEW pc \in Pcs,
           NEW answer \in Replies, Written(r, new, pc, answer),
           Only(r) => queue' \in Seq(Runs) /\ QueueInv',
           faults' = faults \/ (faults > 0 /\ faults' = faults - 1),
           reruns' = reruns \/ (reruns > 0 /\ reruns' = reruns - 1),
           at[r] = "idle" => reruns' # reruns,
           new.status \in _TERMINAL_STATUSES => pc \in {"idle", "score", "fail"},
           reruns' = reruns /\ Over(r) => new.status \in _TERMINAL_STATUSES,
           faults' = faults /\ faults = MaxFaults =>
             /\ new.hit => pc = "serve" \/ (pc = "idle" /\ new.status = "COMPLETED")
             /\ new.flagged => pc = "block" \/ (pc = "idle" /\ new.status = "SAFETY_BLOCKED"),
           \/ answer = reply[r]
           \/ reply[r] = "waiting" /\ answer \in {"accepted", "refused"}
           \/ Create(r) /\ answer = "waiting"
           \/ CreateFails(r) /\ answer = "refused"
    PROVE  Sound(r)
<1>1. /\ row' \in [Runs -> RowType] /\ at' \in [Runs -> Pcs] /\ reply' \in [Runs -> Replies]
      /\ row'[r] = new /\ at'[r] = pc /\ reply'[r] = answer /\ Only(r)
  BY WrittenFacts
<1>2. /\ faults' \in 0 .. MaxFaults /\ reruns' \in 0 .. MaxReruns
      /\ faults' <= faults /\ reruns' <= reruns /\ (reruns' # reruns => reruns' < reruns)
      /\ faults' = MaxFaults => faults' = faults /\ faults = MaxFaults
  BY CountersAreNat
<1>3. queue' \in Seq(Runs) /\ QueueInv'
  BY <1>1
<1>4. FleetTypeOK'
  BY <1>1, <1>2, <1>3 DEF FleetTypeOK, RowType, Replies
<1>5. RunInv(r)'
  <2>1. Over(r)' => at'[r] \in {"idle", "score", "fail"}
    BY <1>1 DEF Over
  <2>2. faults' = MaxFaults =>
          /\ row'[r].hit => at'[r] = "serve" \/ (at'[r] = "idle" /\ row'[r].status = "COMPLETED")
          /\ row'[r].flagged =>
               at'[r] = "block" \/ (at'[r] = "idle" /\ row'[r].status = "SAFETY_BLOCKED")
    BY <1>1, <1>2
  <2> QED
    BY <2>1, <2>2 DEF RunInv
<1>6. reruns' = reruns /\ Over(r) => Over(r)'
  BY <1>1 DEF Over
<1> QED
  BY <1>1, <1>2, <1>3, <1>4, <1>5, <1>6 DEF Sound

LEMMA SoundRequest ==
    ASSUME FleetTypeOK, QueueInv, NEW r \in Runs, RunInv(r),
           Create(r) \/ CreateFails(r) \/ Retry(r) \/ Approve(r)
    PROVE  Sound(r)
<1>0. row[r] \in RowType /\ at[r] \in Pcs /\ reply[r] \in Replies
  BY RowsWritten
<1>1. CASE Create(r)
  <2> DEFINE new == [row[r] EXCEPT !.status = "PENDING"]
  <2>1. /\ Written(r, new, "publish", "waiting") /\ at[r] = "none"
        /\ UNCHANGED <<queue, faults, reruns>>
    BY <1>1, RowsWritten DEF Create, SetStatus, Goto, Written
  <2>2. /\ new \in RowType /\ new.status = "PENDING" /\ new.hit = row[r].hit
        /\ new.flagged = row[r].flagged
    BY RowsWritten
  <2> HIDE DEF new
  <2>3. ~Over(r) /\ (faults = MaxFaults => ~new.hit /\ ~new.flagged)
    BY <2>1, <2>2 DEF RunInv
  <2>4. Only(r) => queue' \in Seq(Runs) /\ QueueInv'
    BY <2>1, QueueKept DEF FleetTypeOK
  <2> QED
    BY <1>1, <2>1, <2>2, <2>3, <2>4, PcNames, SoundWrite DEF _TERMINAL_STATUSES, Replies
<1>2. CASE CreateFails(r)
  <2>1. /\ Written(r, row[r], at[r], "refused") /\ at[r] = "none"
        /\ faults > 0 /\ faults' = faults - 1 /\ UNCHANGED <<queue, reruns>>
    BY <1>2, RowsWritten DEF CreateFails, Written
  <2>2. ~Over(r) /\ faults' # faults
    BY <2>1, CountersAreNat DEF RunInv
  <2>3. Only(r) => queue' \in Seq(Runs) /\ QueueInv'
    BY <2>1, QueueKept DEF FleetTypeOK
  <2> QED
    BY <1>0, <1>2, <2>1, <2>2, <2>3, SoundWrite DEF Replies, Over
<1>3. CASE Retry(r) \/ Approve(r)
  <2>1. PICK skip \in BOOLEAN : \/ RerunOf(r, Retryable, skip)
                                \/ RerunOf(r, {"NEEDS_REVIEW"}, skip)
    BY <1>3 DEF Retry, Approve
  <2> DEFINE new == [row[r] EXCEPT !.status = "PENDING", !.skip = skip]
  <2>2. /\ Written(r, new, "publish", reply[r]) /\ at[r] = "idle"
        /\ row[r].status \in Retryable \cup {"NEEDS_REVIEW"}
        /\ reruns > 0 /\ reruns' = reruns - 1 /\ UNCHANGED <<queue, faults>>
    <3>1. /\ row' = [row EXCEPT ![r].status = "PENDING", ![r].skip = skip]
          /\ at' = [at EXCEPT ![r] = "publish"] /\ reply' = reply /\ at[r] = "idle"
          /\ row[r].status \in Retryable \cup {"NEEDS_REVIEW"}
          /\ reruns > 0 /\ reruns' = reruns - 1 /\ UNCHANGED <<queue, faults>>
      BY <2>1 DEF RerunOf, Goto
    <3>2. row' = [row EXCEPT ![r] = new]
      BY <3>1 DEF FleetTypeOK
    <3> HIDE DEF new
    <3> QED
      BY <3>1, <3>2, RowsWritten DEF Written
  <2>3. /\ new \in RowType /\ new.status = "PENDING" /\ new.hit = row[r].hit
        /\ new.flagged = row[r].flagged
    <3>1. row[r] \in RowType
      BY <1>0
    <3> QED
      BY <3>1 DEF RowType
  <2> HIDE DEF new
  <2>4. faults = MaxFaults => ~new.hit /\ ~new.flagged
    BY <2>2, <2>3 DEF RunInv, Retryable
  <2>5. reruns' # reruns
    BY <2>2, CountersAreNat
  <2>6. Only(r) => queue' \in Seq(Runs) /\ QueueInv'
    BY <2>2, QueueKept DEF FleetTypeOK
  <2> QED
    BY <1>0, <2>2, <2>3, <2>4, <2>5, <2>6, PcNames, SoundWrite DEF _TERMINAL_STATUSES
<1> QED
  BY <1>1, <1>2, <1>3

LEMMA SoundHandle ==
    ASSUME FleetTypeOK, QueueInv, NEW r \in Runs, RunInv(r), Handle(r)
    PROVE  Sound(r)
<1>0. row[r] \in RowType /\ at[r] \in Pcs /\ reply[r] \in Replies
  BY RowsWritten
<1>1. PICK pc \in {"queued", "idle"}, answer \in {"accepted", "refused"} :
        /\ Written(r, row[r], pc, IF reply[r] = "waiting" THEN answer ELSE reply[r])
        /\ at[r] = "publish" /\ reruns' = reruns
        /\ faults' = faults \/ (faults > 0 /\ faults' = faults - 1)
        /\ pc = "idle" => faults > 0 /\ faults' = faults - 1
        /\ \/ queue' = Append(queue, r) /\ pc = "queued"
           \/ queue' = queue
  <2>1. CASE Publish(r)
    BY <2>1, RowsWritten DEF Publish, Goto, Answer, Written
  <2>2. CASE PublishFails(r)
    BY <2>2, RowsWritten DEF PublishFails, Goto, Answer, Written
  <2> QED
    BY <2>1, <2>2 DEF Handle
<1>2. pc \in Pcs /\ at[r] \notin {"queued", "idle", "score", "fail", "serve", "block"}
  BY <1>1, PcNames
<1>3. ~Over(r) /\ (faults = MaxFaults => ~row[r].hit /\ ~row[r].flagged)
  BY <1>2 DEF RunInv
<1> DEFINE a == IF reply[r] = "waiting" THEN answer ELSE reply[r]
<1>4. a \in Replies
  BY <1>0, <1>1 DEF Replies
<1>5. Only(r) => queue' \in Seq(Runs) /\ QueueInv'
  <2> SUFFICES ASSUME Only(r) PROVE queue' \in Seq(Runs) /\ QueueInv'
    OBVIOUS
  <2>1. CASE queue' = queue
    BY <1>2, <2>1, QueueKept DEF FleetTypeOK
  <2>2. CASE queue' = Append(queue, r) /\ pc = "queued"
    <3>1. at'[r] = "queued"
      BY <1>1, <2>2 DEF Written, FleetTypeOK
    <3> QED
      BY <1>2, <2>2, <3>1, QueueGrows
  <2> QED
    BY <1>1, <2>1, <2>2
<1>6. a = reply[r] \/ (reply[r] = "waiting" /\ a \in {"accepted", "refused"})
  BY <1>1
<1>7. Written(r, row[r], pc, a)
  BY <1>1
<1> HIDE DEF a
<1> QED
  BY <1>0, <1>1, <1>2, <1>3, <1>4, <1>5, <1>6, <1>7, SoundWrite DEF Over

(* The attempt: taking the message, and each of its writes.                *)
LEMMA SoundTake ==
    ASSUME FleetTypeOK, QueueInv, NEW r \in Runs, RunInv(r), Take(r)
    PROVE  Sound(r)
<1>0. row[r] \in RowType /\ at[r] \in Pcs /\ reply[r] \in Replies
  BY RowsWritten
<1> DEFINE new == [row[r] EXCEPT !.status = "RUNNING"]
<1>1. PICK i \in DOMAIN queue : queue[i] = r /\ queue' = Without(i)
  BY DEF Take, Without
<1>2. Written(r, new, "screen", reply[r]) /\ UNCHANGED <<faults, reruns>>
  BY RowsWritten DEF Take, SetStatus, Goto, Written
<1>3. at[r] = "queued"
  BY <1>1 DEF QueueInv
<1>4. /\ new \in RowType /\ new.status = "RUNNING" /\ new.hit = row[r].hit
      /\ new.flagged = row[r].flagged
  BY RowsWritten
<1> HIDE DEF new
<1>5. ~Over(r) /\ (faults = MaxFaults => ~new.hit /\ ~new.flagged)
  BY <1>3, <1>4 DEF RunInv
<1>6. Only(r) => queue' \in Seq(Runs) /\ QueueInv'
  BY <1>1, QueueShrinks
<1> QED
  BY <1>0, <1>2, <1>3, <1>4, <1>5, <1>6, PcNames, SoundWrite DEF _TERMINAL_STATUSES

LEMMA SoundDecision ==
    ASSUME FleetTypeOK, QueueInv, NEW r \in Runs, RunInv(r),
           Screen(r) \/ Look(r) \/ Classify(r) \/ Steps(r) \/ Score(r)
    PROVE  Sound(r)
<1>0. row[r] \in RowType /\ at[r] \in Pcs /\ reply[r] \in Replies
  BY RowsWritten
<1>1. PICK pc :
        /\ Written(r, row[r], pc, reply[r]) /\ UNCHANGED <<queue, faults, reruns>>
        /\ \/ at[r] = "score" /\ pc = "idle"
           \/ /\ at[r] \in {"screen", "look", "classify", "steps"}
              /\ pc \in {"flag", "look", "classify", "hit", "steps", "fail", "review", "complete"}
  <2>1. CASE Screen(r)
    BY <2>1, DecideFacts DEF Screen
  <2>2. CASE Look(r)
    <3>1. /\ at[r] = "look" /\ UNCHANGED <<queue, faults, reruns>>
          /\ \E p \in {"classify"} \cup (IF row[r].skip THEN {} ELSE {"hit"}) :
               Written(r, row[r], p, reply[r])
      BY <2>2, DecideFacts DEF Look
    <3> QED
      BY <3>1
  <2>3. CASE Classify(r)
    <3>1. /\ at[r] = "classify" /\ UNCHANGED <<queue, faults, reruns>>
          /\ \E p \in {"steps", "fail"} \cup (IF row[r].skip THEN {} ELSE {"review"}) :
               Written(r, row[r], p, reply[r])
      BY <2>3, DecideFacts DEF Classify
    <3> QED
      BY <3>1
  <2>4. CASE Steps(r) \/ Score(r)
    BY <2>4, DecideFacts DEF Steps, Score
  <2> QED
    BY <2>1, <2>2, <2>3, <2>4
<1>2. pc \in Pcs
  BY <1>1 DEF Pcs, AttemptPcs
<1>3. (at[r] # "score" => ~Over(r)) /\ (faults = MaxFaults => ~row[r].hit /\ ~row[r].flagged)
  BY <1>1 DEF RunInv
<1>4. Only(r) => queue' \in Seq(Runs) /\ QueueInv'
  BY <1>1, QueueKept DEF FleetTypeOK
<1> QED
  BY <1>0, <1>1, <1>2, <1>3, <1>4, SoundWrite DEF Over

LEMMA SoundOutcome ==
    ASSUME FleetTypeOK, QueueInv, NEW r \in Runs, RunInv(r),
           Block(r) \/ Serve(r) \/ Review(r) \/ Complete(r) \/ Fail(r)
    PROVE  Sound(r)
<1>0. row[r] \in RowType /\ at[r] \in Pcs /\ reply[r] \in Replies
  BY RowsWritten
<1>1. PICK st \in Settled, next \in {"idle", "score"} :
        /\ Written(r, [row[r] EXCEPT !.status = st], next, reply[r])
        /\ UNCHANGED <<queue, faults, reruns>>
        /\ \/ at[r] = "block" /\ st = "SAFETY_BLOCKED" /\ next = "idle"
           \/ at[r] = "serve" /\ st = "COMPLETED" /\ next = "idle"
           \/ at[r] = "review" /\ st = "NEEDS_REVIEW"
           \/ at[r] = "complete" /\ st = "COMPLETED"
           \/ at[r] = "fail" /\ st = "FAILED"
  <2>1. CASE Block(r)
    BY <2>1, ConcludeFacts DEF Block, Concludes, Settled
  <2>2. CASE Serve(r)
    BY <2>2, ConcludeFacts DEF Serve, Concludes, Settled
  <2>3. CASE Review(r)
    BY <2>3, ConcludeFacts DEF Review, Concludes, Settled
  <2>4. CASE Complete(r)
    BY <2>4, ConcludeFacts DEF Complete, Concludes, Settled
  <2>5. CASE Fail(r)
    BY <2>5, ConcludeFacts DEF Fail, Concludes, Settled
  <2> QED
    BY <2>1, <2>2, <2>3, <2>4, <2>5
<1> DEFINE new == [row[r] EXCEPT !.status = st]
<1>2. /\ new \in RowType /\ new.status = st /\ new.hit = row[r].hit
      /\ new.flagged = row[r].flagged
  BY RowsWritten
<1>3. Written(r, new, next, reply[r])
  BY <1>1
<1> HIDE DEF new
<1>4. next \in Pcs
  BY <1>1 DEF Pcs, AttemptPcs
<1>5. /\ Over(r) => st \in _TERMINAL_STATUSES
      /\ faults = MaxFaults =>
           /\ new.hit => next = "idle" /\ st = "COMPLETED"
           /\ new.flagged => next = "idle" /\ st = "SAFETY_BLOCKED"
  <2>1. Over(r) => at[r] = "fail"
    BY <1>1 DEF RunInv
  <2>2. faults = MaxFaults => /\ row[r].hit => at[r] = "serve"
                              /\ row[r].flagged => at[r] = "block"
    BY <1>1 DEF RunInv
  <2> QED
    BY <1>1, <1>2, <2>1, <2>2 DEF _TERMINAL_STATUSES
<1>6. Only(r) => queue' \in Seq(Runs) /\ QueueInv'
  BY <1>1, QueueKept DEF FleetTypeOK
<1> QED
  BY <1>0, <1>1, <1>2, <1>3, <1>4, <1>5, <1>6, SoundWrite

LEMMA SoundMark ==
    ASSUME FleetTypeOK, QueueInv, NEW r \in Runs, RunInv(r), Flag(r) \/ Hit(r)
    PROVE  Sound(r)
<1>0. row[r] \in RowType /\ at[r] \in Pcs /\ reply[r] \in Replies
  BY RowsWritten
<1>1. ASSUME NEW new \in RowType, NEW pc \in {"block", "serve"},
             Written(r, new, pc, reply[r]), UNCHANGED <<queue, faults, reruns>>,
             at[r] \in {"flag", "hit"}, new.status = row[r].status,
             new.hit => row[r].hit \/ pc = "serve",
             new.flagged => row[r].flagged \/ pc = "block"
      PROVE  Sound(r)
  <2>1. ~Over(r) /\ (faults = MaxFaults => ~row[r].hit /\ ~row[r].flagged)
    BY <1>1 DEF RunInv
  <2>2. Only(r) => queue' \in Seq(Runs) /\ QueueInv'
    BY <1>1, QueueKept DEF FleetTypeOK
  <2>3. pc \in Pcs
    BY DEF Pcs, AttemptPcs
  <2> QED
    BY <1>0, <1>1, <2>1, <2>2, <2>3, SoundWrite DEF Over
<1>2. CASE Flag(r)
  <2> DEFINE new == [row[r] EXCEPT !.flagged = TRUE]
  <2>1. /\ Written(r, new, "block", reply[r]) /\ UNCHANGED <<queue, faults, reruns>>
        /\ at[r] = "flag"
    BY <1>2, RowsWritten DEF Flag, Goto, OnlyRow, Written
  <2>2. new \in RowType /\ new.status = row[r].status /\ new.hit = row[r].hit
    BY <1>0 DEF RowType
  <2> HIDE DEF new
  <2> QED
    BY <1>1, <2>1, <2>2
<1>3. CASE Hit(r)
  <2> DEFINE new == [row[r] EXCEPT !.hit = TRUE]
  <2>1. /\ Written(r, new, "serve", reply[r]) /\ UNCHANGED <<queue, faults, reruns>>
        /\ at[r] = "hit"
    BY <1>3, RowsWritten DEF Hit, Goto, OnlyRow, Written
  <2>2. new \in RowType /\ new.status = row[r].status /\ new.flagged = row[r].flagged
    BY <1>0 DEF RowType
  <2> HIDE DEF new
  <2> QED
    BY <1>1, <2>1, <2>2
<1> QED
  BY <1>2, <1>3

LEMMA SoundFailure ==
    ASSUME FleetTypeOK, QueueInv, NEW r \in Runs, RunInv(r), CommitFails(r) \/ Abandon(r)
    PROVE  Sound(r)
<1>0. row[r] \in RowType /\ at[r] \in Pcs /\ reply[r] \in Replies
  BY RowsWritten
<1>1. /\ faults > 0 /\ faults' = faults - 1 /\ faults' # faults /\ reruns' = reruns
      /\ queue' = queue /\ at[r] \in AttemptPcs /\ at[r] \notin {"idle", "queued"}
  BY CountersAreNat DEF CommitFails, Abandon, AttemptPcs
<1>2. Only(r) => queue' \in Seq(Runs) /\ QueueInv'
  BY <1>1, QueueKept DEF FleetTypeOK
<1>3. CASE CommitFails(r)
  <2>1. PICK pc \in {"idle", "fail"} : Written(r, row[r], pc, reply[r])
    BY <1>3, RowsWritten DEF CommitFails, Goto, Written
  <2>2. pc \in Pcs
    BY PcNames
  <2> QED
    BY <1>0, <1>1, <1>2, <2>1, <2>2, SoundWrite DEF Over
<1>4. CASE Abandon(r)
  <2> DEFINE new == [row[r] EXCEPT !.status = "DEAD_LETTER"]
  <2>1. Written(r, new, "idle", reply[r])
    BY <1>4, RowsWritten DEF Abandon, SetStatus, Goto, Written
  <2>2. new \in RowType /\ new.status = "DEAD_LETTER"
    BY RowsWritten DEF Settled
  <2> HIDE DEF new
  <2> QED
    BY <1>0, <1>1, <1>2, <2>1, <2>2, PcNames, SoundWrite DEF _TERMINAL_STATUSES
<1> QED
  BY <1>3, <1>4

LEMMA SoundMove ==
    ASSUME FleetTypeOK, QueueInv, NEW r \in Runs, RunInv(r), Move(r)
    PROVE  Sound(r)
BY SoundRequest, SoundHandle, SoundTake, SoundDecision, SoundOutcome, SoundMark, SoundFailure
   DEF Move, Work

-----------------------------------------------------------------------------
(* The clients.                                                            *)

EvalType ==
    [pc : {"token", "submit", "await", "poll", "report", "aborted", "absent"},
     token : Tokens, case : DOMAIN Cases, left : 0 .. MaxPolls,
     verdict : [DOMAIN Cases -> Verdicts]]
UserType ==
    [pc : {"start", "idle", "await", "absent"}, token : Tokens,
     awaiting : SUBSET UserRuns, pending : SUBSET UserRuns]
ReportType ==
    [pc : {"statuses", "hits", "flagged", "done", "absent"}, calm : SUBSET Runs,
     completed : SUBSET Runs, blocked : SUBSET Runs,
     hits : SUBSET Runs, flagged : SUBSET Runs, reruns : 0 .. MaxReruns]

LEMMA CaseFacts ==
    /\ DOMAIN Cases = 1 .. Len(Cases) /\ Len(Cases) \in Nat /\ Len(Cases) >= 1
    /\ 1 \in DOMAIN Cases /\ \A i \in DOMAIN Cases : Cases[i] \in Runs \ UserRuns
    /\ UserRuns \subseteq Runs /\ MaxPolls \in Nat /\ MaxExpiries \in Nat
<1>1. /\ Cases \in Seq(Runs) /\ Cases # <<>> /\ UserRuns \subseteq Runs
      /\ {Cases[i] : i \in DOMAIN Cases} \cap UserRuns = {}
      /\ MaxPolls \in Nat /\ MaxExpiries \in Nat
  BY ClientConstants DEF ClientConstants
<1>2. DOMAIN Cases = 1 .. Len(Cases) /\ Len(Cases) \in Nat /\ Len(Cases) # 0
  BY <1>1, LenProperties, EmptySeq
<1>3. \A i \in DOMAIN Cases : Cases[i] \in Runs
  BY <1>1, <1>2, ElementOfSeq
<1> QED
  BY <1>1, <1>2, <1>3

LEMMA ClientsTyped ==
    TypeOK <=> /\ FleetTypeOK /\ eval \in EvalType /\ user \in UserType
               /\ report \in ReportType /\ expiries \in 0 .. MaxExpiries
BY DEF TypeOK, EvalType, UserType, ReportType

LEMMA TypeInit == ClientsInit => TypeOK
<1> SUFFICES ASSUME ClientsInit PROVE TypeOK
  OBVIOUS
<1>1. FleetTypeOK
  <2>1. MaxFaults \in 0 .. MaxFaults /\ MaxReruns \in 0 .. MaxReruns /\ <<>> \in Seq(Runs)
    BY FleetConstants, EmptySeq DEF FleetConstants
  <2> QED
    BY <2>1 DEF ClientsInit, Init, NoRow, FleetTypeOK, Pcs
<1>2. PICK here \in Companies :
        /\ eval = [pc |-> IF "eval" \in here THEN "token" ELSE "absent", token |-> "none",
                   case |-> 1, left |-> MaxPolls, verdict |-> [i \in DOMAIN Cases |-> "none"]]
        /\ user = [pc |-> IF "user" \in here THEN "start" ELSE "absent", token |-> "none",
                   awaiting |-> {}, pending |-> {}]
        /\ report = [pc |-> IF "metrics" \in here THEN "statuses" ELSE "absent", calm |-> {},
                     reruns |-> MaxReruns, completed |-> {}, blocked |-> {}, hits |-> {},
                     flagged |-> {}]
  BY DEF ClientsInit
<1>3. MaxPolls \in 0 .. MaxPolls /\ MaxReruns \in 0 .. MaxReruns
      /\ MaxExpiries \in 0 .. MaxExpiries
  BY CaseFacts, FleetConstants DEF FleetConstants
<1>4. eval \in EvalType
  BY <1>2, <1>3, CaseFacts DEF EvalType, Tokens, Verdicts
<1>5. user \in UserType /\ report \in ReportType
  BY <1>2, <1>3 DEF UserType, ReportType, Tokens
<1>6. expiries \in 0 .. MaxExpiries
  BY <1>3 DEF ClientsInit
<1> QED
  BY <1>1, <1>4, <1>5, <1>6, ClientsTyped

LEMMA EvalNext ==
    ASSUME NEW e \in EvalType, NEW v \in Verdicts
    PROVE  /\ NextSubmit(e) \in EvalType /\ NextPoll(e, v) \in EvalType
           /\ [e EXCEPT !.verdict[e.case] = v] \in EvalType
<1>1. e.case \in DOMAIN Cases /\ e.verdict \in [DOMAIN Cases -> Verdicts]
  BY DEF EvalType
<1>2. [e EXCEPT !.verdict[e.case] = v] \in EvalType
  BY DEF EvalType
<1>3. e.case < Len(Cases) => e.case + 1 \in DOMAIN Cases
  BY <1>1, CaseFacts
<1>4. NextSubmit(e) \in EvalType
  BY <1>3, CaseFacts DEF NextSubmit, EvalType
<1>5. MaxPolls \in 0 .. MaxPolls
  BY CaseFacts
<1>6. PICK f : f = [e EXCEPT !.verdict[e.case] = v, !.left = MaxPolls]
  OBVIOUS
<1>7. /\ NextPoll(e, v) = IF e.case < Len(Cases) THEN [f EXCEPT !.case = @ + 1]
                         ELSE [f EXCEPT !.pc = "report"]
      /\ f \in EvalType /\ f.case = e.case
  <2>1. f \in EvalType /\ f.case = e.case
    BY <1>5, <1>6 DEF EvalType
  <2> QED
    BY <1>6, <2>1 DEF NextPoll
<1>8. NextPoll(e, v) \in EvalType
  <2>1. CASE e.case < Len(Cases)
    <3>1. NextPoll(e, v) = [f EXCEPT !.case = f.case + 1] /\ f.case + 1 \in DOMAIN Cases
      BY <1>3, <1>7, <2>1
    <3> QED
      BY <1>7, <3>1 DEF EvalType
  <2>2. CASE ~(e.case < Len(Cases))
    <3>1. NextPoll(e, v) = [f EXCEPT !.pc = "report"]
      BY <1>7, <2>2
    <3> QED
      BY <1>7, <3>1 DEF EvalType
  <2> QED
    BY <2>1, <2>2
<1> QED
  BY <1>2, <1>4, <1>8

LEMMA EvalTyped == TypeOK /\ (Eval \/ Expire) => eval' \in EvalType
<1> SUFFICES ASSUME TypeOK, Eval \/ Expire PROVE eval' \in EvalType
  OBVIOUS
<1>0. eval \in EvalType /\ eval.left \in 0 .. MaxPolls /\ eval.case \in DOMAIN Cases
  BY ClientsTyped DEF EvalType
<1>1. CASE EvalToken \/ EvalSubmit
  BY <1>0, <1>1 DEF EvalToken, EvalSubmit, EvalType, Tokens
<1>2. CASE EvalUnauthorized \/ EvalSubmitted
  <2>1. "submit_failed" \in Verdicts
    BY DEF Verdicts
  <2>2. \/ eval' = NextSubmit(eval)
        \/ eval' = NextSubmit([eval EXCEPT !.verdict[eval.case] = "submit_failed"])
    BY <1>2 DEF EvalUnauthorized, EvalSubmitted
  <2>3. [eval EXCEPT !.verdict[eval.case] = "submit_failed"] \in EvalType
    BY <1>0, <2>1, EvalNext
  <2> QED
    BY <1>0, <2>1, <2>2, <2>3, EvalNext
<1>3. CASE EvalPoll
  <2>1. /\ eval.left > 0
        /\ \/ eval' = [eval EXCEPT !.left = eval.left - 1]
           \/ \E v \in TERMINAL \cup {"error"} : eval' = NextPoll(eval, v)
    BY <1>3 DEF EvalPoll, EvalPollLeaving
  <2>2. eval.left - 1 \in 0 .. MaxPolls
    BY <1>0, <2>1, CaseFacts
  <2>3. [eval EXCEPT !.left = eval.left - 1] \in EvalType
    BY <1>0, <2>2 DEF EvalType
  <2> QED
    BY <1>0, <2>1, <2>3, EvalNext DEF Verdicts
<1>4. CASE EvalTimesOut \/ EvalSkips
  <2>1. \E v \in Verdicts : eval' = NextPoll(eval, v)
    BY <1>0, <1>4 DEF EvalTimesOut, EvalSkips, EvalType, Verdicts
  <2> QED
    BY <1>0, <2>1, EvalNext
<1>5. CASE Expire
  BY <1>0, <1>5 DEF Expire, EvalType, Tokens
<1> QED
  BY <1>1, <1>2, <1>3, <1>4, <1>5 DEF Eval

LEMMA UserTyped == TypeOK /\ (User \/ Expire) => user' \in UserType
<1> SUFFICES ASSUME TypeOK, User \/ Expire PROVE user' \in UserType
  OBVIOUS
<1>0. user \in UserType
  BY ClientsTyped
<1>1. CASE User
  <2>1. CASE UserStart \/ UserRefused
    BY <1>0, <2>1 DEF UserStart, UserRefused, FetchToken, UserType, Tokens
  <2>2. CASE UserSubmitted
    <3>1. /\ {r \in user.awaiting : reply[r] = "accepted"} \subseteq UserRuns
          /\ {} \in SUBSET UserRuns
      BY <1>0 DEF UserType
    <3> QED
      BY <1>0, <2>2, <3>1 DEF UserSubmitted, UserType
  <2>3. ASSUME NEW r \in UserRuns, UserSubmit(r) PROVE user' \in UserType
    BY <1>0, <2>3 DEF UserSubmit, UserType
  <2>4. ASSUME NEW r \in UserRuns, UserPoll(r) PROVE user' \in UserType
    <3>1. user' = [user EXCEPT !.pending = user.pending \ {r}]
      BY <2>4 DEF UserPoll, UserPollDropping
    <3>2. user.pending \ {r} \in SUBSET UserRuns
      BY <1>0 DEF UserType
    <3> QED
      BY <1>0, <3>1, <3>2 DEF UserType
  <2> QED
    BY <1>1, <2>1, <2>2, <2>3, <2>4 DEF User
<1>2. CASE Expire
  BY <1>0, <1>2 DEF Expire, UserType, Tokens
<1> QED
  BY <1>1, <1>2

LEMMA ReportTyped == TypeOK /\ Metrics => report' \in ReportType
<1> SUFFICES ASSUME TypeOK, Metrics PROVE report' \in ReportType
  OBVIOUS
<1>0. report \in ReportType /\ reruns \in 0 .. MaxReruns
  BY ClientsTyped DEF FleetTypeOK
<1>1. CASE CountStatuses
  <2>1. PICK a, b, c \in SUBSET Runs :
          report' = [report EXCEPT !.pc = "hits", !.completed = a, !.blocked = b, !.calm = c,
                                   !.reruns = reruns]
    <3>1. /\ {r \in Runs : row[r].status = "COMPLETED"} \in SUBSET Runs
          /\ {r \in Runs : row[r].status = "SAFETY_BLOCKED"} \in SUBSET Runs
          /\ {r \in Runs : at[r] = "idle" /\ row[r].status # "none"} \in SUBSET Runs
      OBVIOUS
    <3> QED
      BY <1>1, <3>1 DEF CountStatuses
  <2> QED
    BY <1>0, <2>1 DEF ReportType
<1>2. CASE CountHits
  <2>1. {r \in Runs : row[r].hit} \in SUBSET Runs
    OBVIOUS
  <2> QED
    BY <1>0, <1>2, <2>1 DEF CountHits, ReportType
<1>3. CASE CountFlagged
  <2>1. {r \in Runs : row[r].flagged} \in SUBSET Runs
    OBVIOUS
  <2> QED
    BY <1>0, <1>3, <2>1 DEF CountFlagged, ReportType
<1> QED
  BY <1>1, <1>2, <1>3 DEF Metrics
-----------------------------------------------------------------------------
(* A step moves one run, or leaves them all where they are.                *)

Still ==
    /\ UNCHANGED <<row, at, queue, reply, reruns>>
    /\ faults' \in 0 .. MaxFaults /\ faults' <= faults
    /\ report' = report \/ Metrics
    /\ \/ user' = user \/ Expire \/ UserStart \/ UserRefused \/ UserSubmitted
       \/ \E r \in UserRuns : UserPoll(r)

Moves(r) ==
    /\ Move(r) /\ report' = report
    /\ \/ UserSubmit(r)
       \/ user' = user /\ (r \notin UserRuns \/ at[r] # "none")

LEMMA TokenIsStill ==
    ASSUME FleetTypeOK, NEW pc, FetchToken(pc)
    PROVE  /\ UNCHANGED <<row, at, queue, reply, reruns>>
           /\ faults' \in 0 .. MaxFaults /\ faults' <= faults
BY CountersAreNat DEF FetchToken

LEMMA ServiceMoves ==
    ASSUME QueueInv, NEW r \in Runs, Handle(r) \/ Retry(r) \/ Approve(r) \/ Work(r)
    PROVE  Move(r) /\ at[r] # "none"
<1>1. CASE Handle(r) \/ Retry(r) \/ Approve(r)
  BY <1>1 DEF Move, Handle, Publish, PublishFails, Retry, Approve, RerunOf
<1>2. CASE Take(r)
  <2>1. at[r] = "queued"
    BY <1>2 DEF Take, QueueInv
  <2> QED
    BY <1>2, <2>1 DEF Move, Work
<1>3. CASE Screen(r) \/ Look(r) \/ Classify(r) \/ Steps(r) \/ Score(r)
  <2>1. at[r] \in {"screen", "look", "classify", "steps", "score"}
    BY <1>3 DEF Screen, Look, Classify, Steps, Score, Decide
  <2> QED
    BY <1>3, <2>1 DEF Move, Work
<1>4. CASE Block(r) \/ Serve(r) \/ Review(r) \/ Complete(r) \/ Fail(r) \/ Flag(r) \/ Hit(r)
  <2>1. at[r] \in {"block", "serve", "review", "complete", "fail", "flag", "hit"}
    BY <1>4 DEF Block, Serve, Review, Complete, Fail, Conclude, Flag, Hit
  <2> QED
    BY <1>4, <2>1 DEF Move, Work
<1>5. CASE CommitFails(r) \/ Abandon(r)
  <2>1. at[r] \in AttemptPcs
    BY <1>5, PcNames DEF CommitFails, Abandon
  <2> QED
    BY <1>5, <2>1 DEF Move, Work, AttemptPcs
<1> QED
  BY <1>1, <1>2, <1>3, <1>4, <1>5 DEF Work

LEMMA NextCases ==
    ASSUME TypeOK, QueueInv, Next
    PROVE  Still \/ \E r \in Runs : Moves(r)
<1>0. /\ FleetTypeOK /\ faults \in 0 .. MaxFaults /\ faults <= faults
      /\ eval.case \in DOMAIN Cases
  <2>1. FleetTypeOK /\ eval \in EvalType
    BY ClientsTyped
  <2> QED
    BY <2>1, CountersAreNat DEF FleetTypeOK, EvalType
<1>1. CASE EvalSubmit
  <2>1. Cases[eval.case] \in Runs \ UserRuns
    BY <1>0, CaseFacts
  <2>2. Moves(Cases[eval.case])
    BY <1>1, <2>1 DEF EvalSubmit, OnlyEval, Moves, Move
  <2> QED
    BY <2>1, <2>2
<1>2. CASE Eval /\ ~EvalSubmit
  <2>1. UNCHANGED fleet /\ OnlyEval
    BY <1>2 DEF Eval, EvalToken, EvalUnauthorized, EvalSubmitted, EvalPoll,
                EvalPollLeaving, EvalTimesOut, EvalSkips
  <2> QED
    BY <1>0, <2>1 DEF fleet, OnlyEval, Still
<1>3. CASE UserStart \/ UserRefused
  <2>1. FetchToken("idle") /\ OnlyUser
    BY <1>3 DEF UserStart, UserRefused
  <2> QED
    BY <1>0, <1>3, <2>1, TokenIsStill DEF OnlyUser, Still
<1>4. CASE UserSubmitted
  BY <1>0, <1>4 DEF UserSubmitted, fleet, OnlyUser, Still
<1>5. ASSUME NEW r \in UserRuns, UserSubmit(r) PROVE \E s \in Runs : Moves(s)
  <2>1. r \in Runs
    BY CaseFacts
  <2>2. Moves(r)
    BY <1>5 DEF UserSubmit, OnlyUser, Moves, Move
  <2> QED
    BY <2>1, <2>2
<1>6. ASSUME NEW r \in UserRuns, UserPoll(r) PROVE Still
  <2>1. UNCHANGED fleet /\ OnlyUser
    BY <1>6 DEF UserPoll, UserPollDropping
  <2> QED
    BY <1>0, <1>6, <2>1 DEF fleet, OnlyUser, Still
<1>7. CASE Metrics
  BY <1>0, <1>7 DEF Metrics, fleet, Still
<1>8. CASE Expire
  BY <1>0, <1>8 DEF Expire, fleet, Still
<1>9. CASE Service /\ UNCHANGED clients
  <2>1. PICK r \in Runs : Handle(r) \/ Retry(r) \/ Approve(r) \/ Work(r)
    BY <1>9 DEF Service
  <2>2. Moves(r)
    BY <1>9, <2>1, ServiceMoves DEF clients, Moves
  <2> QED
    BY <2>2
<1> QED
  BY <1>1, <1>2, <1>3, <1>4, <1>5, <1>6, <1>7, <1>8, <1>9 DEF Next, User

-----------------------------------------------------------------------------
(* The runs, under every step.                                             *)

RunsInv == QueueInv /\ \A r \in Runs : RunInv(r)

LEMMA MovesAreSound ==
    ASSUME TypeOK, RunsInv, NEW r \in Runs, Moves(r)
    PROVE  Sound(r)
BY ClientsTyped, SoundMove DEF RunsInv, Moves

LEMMA RunsStep == TypeOK /\ RunsInv /\ [Next]_vars => FleetTypeOK' /\ RunsInv'
<1> SUFFICES ASSUME TypeOK, RunsInv, [Next]_vars PROVE FleetTypeOK' /\ RunsInv'
  OBVIOUS
<1>0. FleetTypeOK /\ QueueInv /\ \A r \in Runs : RunInv(r)
  BY ClientsTyped DEF RunsInv
<1>1. CASE Still \/ UNCHANGED vars
  <2>1. /\ UNCHANGED <<row, at, queue, reply, reruns>>
        /\ faults' \in 0 .. MaxFaults /\ faults' <= faults
    BY <1>0, <1>1, CountersAreNat DEF Still, vars, fleet, FleetTypeOK
  <2>2. faults' = MaxFaults => faults = MaxFaults
    BY <1>0, <2>1, CountersAreNat
  <2>3. FleetTypeOK' /\ QueueInv'
    BY <1>0, <2>1 DEF FleetTypeOK, QueueInv
  <2>4. \A r \in Runs : RunInv(r)'
    BY <1>0, <2>1, <2>2 DEF RunInv, Over
  <2> QED
    BY <2>3, <2>4 DEF RunsInv
<1>2. ASSUME NEW r \in Runs, Moves(r) PROVE FleetTypeOK' /\ RunsInv'
  <2>1. /\ FleetTypeOK' /\ QueueInv' /\ RunInv(r)' /\ Only(r) /\ faults' <= faults
    BY <1>2, MovesAreSound DEF Sound
  <2>2. faults' = MaxFaults => faults = MaxFaults
    <3>1. faults' \in 0 .. MaxFaults
      BY <2>1 DEF FleetTypeOK
    <3> QED
      BY <1>0, <2>1, <3>1, CountersAreNat
  <2>3. ASSUME NEW s \in Runs PROVE RunInv(s)'
    <3>1. CASE s = r
      BY <2>1, <3>1
    <3>2. CASE s # r
      BY <1>0, <2>1, <2>2, <3>2 DEF RunInv, Over, Only
    <3> QED
      BY <3>1, <3>2
  <2> QED
    BY <2>1, <2>3 DEF RunsInv
<1> QED
  BY <1>0, <1>1, <1>2, NextCases

LEMMA TypeStep == TypeOK /\ RunsInv /\ [Next]_vars => TypeOK'
<1> SUFFICES ASSUME TypeOK, RunsInv, [Next]_vars PROVE TypeOK'
  OBVIOUS
<1>0. /\ FleetTypeOK /\ eval \in EvalType /\ user \in UserType
      /\ report \in ReportType /\ expiries \in 0 .. MaxExpiries
  BY ClientsTyped
<1>1. FleetTypeOK'
  BY RunsStep
<1>2. CASE UNCHANGED vars
  BY <1>0, <1>1, <1>2, ClientsTyped DEF vars, clients, TypeOK
<1>3. CASE Next
  <2>1. eval' \in EvalType
    <3>1. Eval \/ Expire \/ eval' = eval
      BY <1>3 DEF Next, User, UserStart, UserRefused, UserSubmitted, UserSubmit, UserPoll,
                  UserPollDropping, OnlyUser, Metrics, clients
    <3> QED
      BY <1>0, <3>1, EvalTyped
  <2>2. user' \in UserType
    <3>1. User \/ Expire \/ user' = user
      BY <1>3 DEF Next, Eval, EvalToken, EvalSubmit, EvalUnauthorized, EvalSubmitted, EvalPoll,
                  EvalPollLeaving, EvalTimesOut, EvalSkips, OnlyEval, Metrics, clients
    <3> QED
      BY <1>0, <3>1, UserTyped
  <2>3. report' \in ReportType
    <3>1. Metrics \/ report' = report
      BY <1>3, NextCases DEF RunsInv, Still, Moves
    <3> QED
      BY <1>0, <3>1, ReportTyped
  <2>4. expiries' \in 0 .. MaxExpiries
    <3>1. Expire \/ expiries' = expiries
      <4>1. CASE Eval
        BY <4>1 DEF Eval, EvalToken, EvalSubmit, EvalUnauthorized, EvalSubmitted, EvalPoll,
                    EvalPollLeaving, EvalTimesOut, EvalSkips, OnlyEval
      <4>2. CASE User
        BY <4>2 DEF User, UserStart, UserRefused, UserSubmitted, UserSubmit, UserPoll,
                    UserPollDropping, OnlyUser
      <4>3. CASE Metrics \/ Expire \/ (Service /\ UNCHANGED clients)
        BY <4>3 DEF Metrics, clients
      <4> QED
        BY <1>3, <4>1, <4>2, <4>3 DEF Next
    <3>2. CASE Expire
      BY <1>0, <3>2, CaseFacts DEF Expire
    <3> QED
      BY <1>0, <3>1, <3>2
  <2> QED
    BY <1>1, <2>1, <2>2, <2>3, <2>4 DEF TypeOK, EvalType, UserType, ReportType
<1> QED
  BY <1>2, <1>3
-----------------------------------------------------------------------------
(* The report.                                                             *)

LEMMA ReportInit == ClientsInit => ReportInv /\ SkewIsMotion
<1> SUFFICES ASSUME ClientsInit PROVE ReportInv /\ SkewIsMotion
  OBVIOUS
<1>1. /\ report.calm = {} /\ report.hits = {} /\ report.flagged = {}
      /\ report.reruns = MaxReruns /\ reruns = MaxReruns
  BY DEF ClientsInit, Init
<1>2. reruns <= report.reruns
  BY <1>1, FleetConstants DEF FleetConstants
<1> QED
  BY <1>1, <1>2 DEF ReportInv, SkewIsMotion

(* A query counts what it finds in the rows.                               *)
LEMMA QueriesAreSound ==
    ASSUME TypeOK, RunsInv, ReportInv, SkewIsMotion, Metrics
    PROVE  ReportInv' /\ SkewIsMotion'
<1>0. /\ UNCHANGED fleet /\ report \in ReportType /\ reruns <= reruns
      /\ FleetTypeOK /\ \A r \in Runs : RunInv(r)
  BY ClientsTyped, CountersAreNat DEF Metrics, RunsInv
<1>1. /\ row' = row /\ at' = at /\ faults' = faults /\ reruns' = reruns
  BY <1>0 DEF fleet
<1>2. CASE CountStatuses
  <2>1. /\ report'.pc = "hits" /\ report'.reruns = reruns
        /\ report'.completed = {r \in Runs : row[r].status = "COMPLETED"}
        /\ report'.blocked = {r \in Runs : row[r].status = "SAFETY_BLOCKED"}
        /\ report'.calm = {r \in Runs : at[r] = "idle" /\ row[r].status # "none"}
        /\ report'.hits = report.hits /\ report'.flagged = report.flagged
        /\ report.pc = "statuses"
    BY <1>0, <1>2 DEF CountStatuses, ReportType
  <2>2. report'.hits = {} /\ report'.flagged = {}
    BY <2>1 DEF ReportInv
  <2> QED
    BY <1>0, <1>1, <2>1, <2>2 DEF ReportInv, SkewIsMotion
<1>3. CASE CountHits \/ CountFlagged
  <2>1. /\ report'.pc \in {"flagged", "done"} /\ report'.reruns = report.reruns
        /\ report'.calm = report.calm /\ report'.completed = report.completed
        /\ report'.blocked = report.blocked
        /\ report'.hits \in {report.hits, {r \in Runs : row[r].hit}}
        /\ report'.flagged \in {report.flagged, {r \in Runs : row[r].flagged}}
        /\ report.calm \subseteq Runs
    BY <1>0, <1>3 DEF CountHits, CountFlagged, ReportType
  <2>2. ReportInv'
    BY <1>1, <2>1 DEF ReportInv
  <2>3. ASSUME faults = MaxFaults, reruns = report.reruns, NEW r \in report.calm
        PROVE  /\ row[r].hit => r \in report.completed
               /\ row[r].flagged => r \in report.blocked
    BY <1>0, <2>1, <2>3 DEF ReportInv, RunInv
  <2> QED
    BY <1>1, <2>1, <2>2, <2>3 DEF SkewIsMotion
<1> QED
  BY <1>2, <1>3 DEF Metrics

(* A run that was over moves again only by a rerun.                        *)
LEMMA ReportStep ==
    TypeOK /\ RunsInv /\ ReportInv /\ SkewIsMotion /\ [Next]_vars => ReportInv' /\ SkewIsMotion'
<1> SUFFICES ASSUME TypeOK, RunsInv, ReportInv, SkewIsMotion, [Next]_vars
             PROVE  ReportInv' /\ SkewIsMotion'
  OBVIOUS
<1>0. FleetTypeOK /\ report \in ReportType /\ reruns <= report.reruns
  BY ClientsTyped DEF ReportInv
<1>1. /\ FleetTypeOK' /\ faults \in 0 .. MaxFaults /\ reruns \in Nat /\ report.reruns \in Nat
      /\ faults' \in 0 .. MaxFaults /\ reruns' \in Nat
  <2>1. FleetTypeOK'
    BY RunsStep
  <2> QED
    BY <1>0, <2>1, FleetConstants DEF FleetTypeOK, FleetConstants, ReportType
<1>2. CASE (Still /\ ~Metrics) \/ UNCHANGED vars
  <2>1. /\ UNCHANGED <<row, at, reruns, report>> /\ faults' <= faults
    BY <1>1, <1>2 DEF Still, vars, fleet, clients
  <2>2. faults' = MaxFaults => faults = MaxFaults
    BY <1>0, <1>1, <2>1, CountersAreNat
  <2> QED
    BY <2>1, <2>2 DEF ReportInv, SkewIsMotion
<1>3. CASE Metrics
  BY <1>3, QueriesAreSound
<1>4. ASSUME NEW r \in Runs, Moves(r) PROVE ReportInv' /\ SkewIsMotion'
  <2>1. /\ Only(r) /\ faults' <= faults /\ reruns' <= reruns
        /\ at[r] = "idle" => reruns' < reruns
        /\ report' = report
    BY <1>4, MovesAreSound DEF Sound, Moves
  <2>2. /\ faults' = MaxFaults => faults = MaxFaults
        /\ reruns' <= report.reruns
        /\ reruns' = report.reruns => reruns = report.reruns /\ at[r] # "idle"
    BY <1>0, <1>1, <2>1, CountersAreNat
  <2>3. ASSUME reruns' = report.reruns, NEW s \in report.calm
        PROVE  row'[s] = row[s] /\ at'[s] = at[s]
    <3>1. at[s] = "idle" /\ s \in Runs
      BY <1>0, <2>2, <2>3 DEF ReportInv, ReportType
    <3> QED
      BY <2>1, <2>2, <2>3, <3>1 DEF Only
  <2>4. ReportInv'
    BY <2>1, <2>2, <2>3 DEF ReportInv
  <2> QED
    BY <2>1, <2>2, <2>4 DEF SkewIsMotion
<1> QED
  BY <1>2, <1>3, <1>4, NextCases DEF RunsInv

-----------------------------------------------------------------------------
(* The load test's user.                                                   *)

LEMMA UserInit == ClientsInit => UserInv /\ AcceptedRunsAreWatched
<1> SUFFICES ASSUME ClientsInit PROVE UserInv /\ AcceptedRunsAreWatched
  OBVIOUS
<1>1. user.awaiting = {} /\ \A r \in Runs : reply[r] = "none"
  BY DEF ClientsInit, Init
<1> QED
  BY <1>1, CaseFacts DEF UserInv, AcceptedRunsAreWatched

(* What the user does by itself.                                           *)
LEMMA UserAlone ==
    ASSUME TypeOK, UserInv, AcceptedRunsAreWatched,
           UNCHANGED <<row, at, queue, reply, reruns>>,
           \/ user' = user \/ Expire \/ UserStart \/ UserRefused \/ UserSubmitted
           \/ \E r \in UserRuns : UserPoll(r)
    PROVE  UserInv' /\ AcceptedRunsAreWatched'
<1>0. user \in UserType
  BY ClientsTyped
<1>1. CASE user' = user
  BY <1>1 DEF UserInv, AcceptedRunsAreWatched
<1>2. CASE Expire \/ UserStart \/ UserRefused
  <2>1. /\ user'.awaiting = user.awaiting /\ user'.pending = user.pending
        /\ user'.pc # "await" => user.pc # "await"
    BY <1>0, <1>2 DEF Expire, UserStart, UserRefused, FetchToken, UserType
  <2> QED
    BY <2>1 DEF UserInv, AcceptedRunsAreWatched
<1>3. CASE UserSubmitted
  <2>1. /\ user'.awaiting = {}
        /\ user'.pending = user.pending \cup {r \in user.awaiting : reply[r] = "accepted"}
        /\ \A r \in user.awaiting : reply[r] \in {"accepted", "refused"}
    BY <1>0, <1>3 DEF UserSubmitted, UserType
  <2> QED
    BY <2>1 DEF UserInv, AcceptedRunsAreWatched
<1>4. ASSUME NEW r \in UserRuns, UserPoll(r) PROVE UserInv' /\ AcceptedRunsAreWatched'
  <2>1. /\ user'.awaiting = user.awaiting /\ user'.pending = user.pending \ {r}
        /\ user'.pc = user.pc /\ row[r].status \in _TERMINAL_STATUSES
    BY <1>0, <1>4 DEF UserPoll, UserPollDropping, UserType
  <2> QED
    BY <2>1 DEF UserInv, AcceptedRunsAreWatched
<1> QED
  BY <1>1, <1>2, <1>3, <1>4

LEMMA UserStep ==
    TypeOK /\ RunsInv /\ UserInv /\ AcceptedRunsAreWatched /\ [Next]_vars
      => UserInv' /\ AcceptedRunsAreWatched'
<1> SUFFICES ASSUME TypeOK, RunsInv, UserInv, AcceptedRunsAreWatched, [Next]_vars
             PROVE  UserInv' /\ AcceptedRunsAreWatched'
  OBVIOUS
<1>0. FleetTypeOK /\ user \in UserType /\ UserRuns \subseteq Runs
  BY ClientsTyped, CaseFacts
<1>1. CASE Still \/ UNCHANGED vars
  BY <1>1, UserAlone DEF Still, vars, fleet, clients
<1>2. ASSUME NEW r \in Runs, Moves(r) PROVE UserInv' /\ AcceptedRunsAreWatched'
  <2>1. /\ Only(r)
        /\ reruns' = MaxReruns => reruns = MaxReruns /\ reruns' = reruns
    <3>1. Only(r) /\ FleetTypeOK' /\ reruns' <= reruns
      BY <1>2, MovesAreSound DEF Sound
    <3>2. reruns' \in Nat
      BY <3>1, FleetConstants DEF FleetTypeOK, FleetConstants
    <3> QED
      BY <1>0, <3>1, <3>2, CountersAreNat
  <2>2. /\ reruns' = reruns /\ Over(r) => Over(r)'
        /\ \/ reply'[r] = reply[r]
           \/ reply[r] = "waiting" /\ reply'[r] \in {"accepted", "refused"}
           \/ at[r] = "none" /\ reply'[r] \in {"waiting", "refused"}
    BY <1>2, MovesAreSound DEF Sound, Create, CreateFails
  <2>3. CASE user' = user /\ (r \notin UserRuns \/ at[r] # "none")
    <3>1. ASSUME NEW s \in UserRuns, s # r
          PROVE  row'[s] = row[s] /\ reply'[s] = reply[s]
      BY <1>0, <2>1, <3>1 DEF Only
    <3>2. UserInv'
      BY <2>2, <2>3, <3>1 DEF UserInv
    <3>3. ASSUME NEW s \in UserRuns, reply'[s] = "accepted", s \notin user.awaiting,
                 reruns' = MaxReruns
          PROVE  s \in user.pending \/ row'[s].status \in _TERMINAL_STATUSES
      <4>1. reply[s] = "accepted"
        BY <2>2, <2>3, <3>1, <3>3 DEF UserInv
      <4>2. s \in user.pending \/ row[s].status \in _TERMINAL_STATUSES
        BY <2>1, <3>3, <4>1 DEF AcceptedRunsAreWatched
      <4> QED
        BY <2>1, <2>2, <3>1, <3>3, <4>2 DEF Over
    <3> QED
      BY <2>3, <3>2, <3>3 DEF AcceptedRunsAreWatched
  <2>4. CASE UserSubmit(r)
    <3>1. /\ user.pc = "idle" /\ reply[r] = "none" /\ reply'[r] \in {"waiting", "refused"}
      BY <1>0, <2>4 DEF UserSubmit, Create, CreateFails, FleetTypeOK
    <3>2. /\ user'.pc = "await" /\ user'.awaiting = {r} /\ user'.pending = user.pending
      BY <1>0, <2>4 DEF UserSubmit, UserType
    <3>3. user.awaiting = {} /\ \A s \in UserRuns : reply[s] # "waiting"
      BY <3>1 DEF UserInv
    <3>4. ASSUME NEW s \in UserRuns, s # r
          PROVE  row'[s] = row[s] /\ reply'[s] = reply[s]
      BY <1>0, <2>1, <3>4 DEF Only
    <3>5. UserInv'
      BY <3>2, <3>3, <3>4 DEF UserInv
    <3> QED
      BY <2>1, <3>1, <3>2, <3>3, <3>4, <3>5 DEF AcceptedRunsAreWatched
  <2> QED
    BY <1>2, <2>3, <2>4 DEF Moves
<1> QED
  BY <1>1, <1>2, NextCases DEF RunsInv

-----------------------------------------------------------------------------
(* The theorems.                                                           *)

IInv == TypeOK /\ RunsInv /\ ReportInv /\ SkewIsMotion /\ UserInv /\ AcceptedRunsAreWatched

LEMMA RunsInit == ClientsInit => RunsInv
<1> SUFFICES ASSUME ClientsInit PROVE RunsInv
  OBVIOUS
<1>1. /\ queue = <<>> /\ \A r \in Runs : row[r] = NoRow /\ at[r] = "none"
  BY DEF ClientsInit, Init
<1>2. QueueInv
  BY <1>1 DEF QueueInv
<1>3. \A r \in Runs : RunInv(r)
  BY <1>1 DEF RunInv, Over, NoRow, _TERMINAL_STATUSES
<1> QED
  BY <1>2, <1>3 DEF RunsInv

LEMMA Invariance == Spec => []IInv
<1>1. ClientsInit => IInv
  BY TypeInit, RunsInit, ReportInit, UserInit DEF IInv
<1>2. IInv /\ [Next]_vars => IInv'
  BY TypeStep, RunsStep, ReportStep, UserStep DEF IInv
<1> QED
  BY <1>1, <1>2, PTL DEF Spec

(* Every variable keeps its type: no number of runs, cases, polls, reruns  *)
(* or expired tokens takes the harness beyond its last case, or any        *)
(* counter below 0.                                                        *)
THEOREM TypeCorrect == Spec => []TypeOK
<1>1. IInv => TypeOK
  BY DEF IInv
<1> QED
  BY <1>1, Invariance, PTL

(* metrics_service.py:61: the queries of one request share no snapshot,    *)
(* but, unless a commit fails, what their counts disagree about was moving *)
(* when the first of them ran, or was rerun since.                         *)
THEOREM ReportsSkewByMotion == Spec => []SkewIsMotion
<1>1. IInv => SkewIsMotion
  BY DEF IInv
<1> QED
  BY <1>1, Invariance, PTL

(* locustfile.py:175, "No run IDs are lost": whatever requests are refused *)
(* and tokens expire, the user has every run that was accepted on its list *)
(* until it is over.                                                       *)
THEOREM NoRunIsLost == Spec => []AcceptedRunsAreWatched
<1>1. IInv => AcceptedRunsAreWatched
  BY DEF IInv
<1> QED
  BY <1>1, Invariance, PTL
=============================================================================
