------------------------- MODULE EventStream_proofs -------------------------
(***************************************************************************)
(* Proofs about EventStream, for any set of streams and any number of      *)
(* attempts, steps and polls.                                              *)
(***************************************************************************)
EXTENDS EventStream, SequenceTheorems, TLAPS

(* Sequences that agree as far as the first one goes.                      *)
LEMMA AgreeingIsPrefix ==
    ASSUME NEW S, NEW s \in Seq(S), NEW t \in Seq(S), Len(s) <= Len(t),
           \A k \in 1 .. Len(s) : s[k] = t[k]
    PROVE  IsPrefix(s, t) /\ s = SubSeq(t, 1, Len(s))
<1> DEFINE u == SubSeq(t, 1, Len(s))
<1>1. Len(s) \in Nat /\ Len(t) \in Nat
  BY LenProperties
<1>2. \A k \in 1 .. Len(s) : t[k] \in S
  BY <1>1, ElementOfSeq
<1>3. u \in Seq(S) /\ Len(u) = Len(s) /\ \A k \in 1 .. Len(s) : u[k] = t[k]
  BY <1>1, <1>2, SubSeqProperties
<1>4. s = u
  BY <1>1, <1>3, SeqEqual
<1>5. SubSeq(s, 1, Len(s)) = s
  BY SubSeqFull
<1> QED
  BY <1>1, <1>4, <1>5 DEF IsPrefix

(* A longer context still begins with what the shorter one was.            *)
LEMMA AppendExtends ==
    ASSUME NEW S, NEW s \in Seq(S), NEW e \in S
    PROVE  /\ Append(s, e) \in Seq(S)
           /\ Len(Append(s, e)) = Len(s) + 1
           /\ \A k \in 1 .. Len(s) : Append(s, e)[k] = s[k]
           /\ Append(s, e)[Len(s) + 1] = e
           /\ IsPrefix(s, Append(s, e))
<1> DEFINE t == Append(s, e)
<1>1. /\ t \in Seq(S) /\ Len(t) = Len(s) + 1
      /\ \A k \in 1 .. Len(s) : t[k] = s[k]
      /\ t[Len(s) + 1] = e
  BY AppendProperties
<1>2. Len(s) \in Nat
  BY LenProperties
<1> HIDE DEF t
<1>3. Len(s) <= Len(t)
  BY <1>1, <1>2
<1>4. IsPrefix(s, t)
  BY <1>1, <1>3, AgreeingIsPrefix
<1> QED
  BY <1>1, <1>4 DEF t

(* A round of events brings a stream level with the context.               *)
LEMMA RoundCatchesUp ==
    ASSUME context \in Seq(Steps), NEW me \in StreamType,
           me.last_step_count = Len(me.sent), Len(me.sent) <= Len(context),
           \A k \in 1 .. Len(me.sent) : me.sent[k] = context[k]
    PROVE  LET new == Round(me, Len(context)) IN
             /\ new \in StreamType
             /\ new.sent = context /\ new.last_step_count = Len(context)
             /\ new.status = me.status /\ new.by = me.by
             /\ new.pc \in {"done", "sleep"}
             /\ new.pc = "done" => me.status \in Settled
<1> DEFINE n == Len(me.sent)
           new == Round(me, Len(context))
<1>1. me.sent \in Seq(Steps) /\ n \in Nat /\ Len(context) \in Nat
  BY LenProperties DEF StreamType
<1>2. me.sent = SubSeq(context, 1, n)
  BY <1>1, AgreeingIsPrefix
<1>3. SubSeq(context, 1, n) \o SubSeq(context, n + 1, Len(context)) = context
  <2> HIDE DEF n
  <2>1. /\ 1 \in 1 .. Len(context) + 1 /\ n \in 1 - 1 .. Len(context)
        /\ Len(context) \in n .. Len(context)
    BY <1>1 DEF n
  <2>2. SubSeq(context, 1, Len(context)) = context
    BY SubSeqFull
  <2> QED
    BY <2>1, <2>2, ConcatAdjacentSubSeq
<1>4. me.sent \o SubSeq(context, me.last_step_count + 1, Len(context)) = context
  BY <1>2, <1>3
<1>5. (IF Len(context) > me.last_step_count THEN Len(context) ELSE me.last_step_count)
        = Len(context)
  BY <1>1
<1> DEFINE news == me.status \notin {NoStatus, me.last_status}
<1>6. new = [me EXCEPT !.sent = context, !.last_step_count = Len(context),
                       !.last_status = IF news THEN me.status ELSE @,
                       !.pc = IF news /\ me.status \in _TERMINAL
                              THEN "done" ELSE "sleep"]
  BY <1>4, <1>5, Zenon DEF Round
<1> HIDE DEF new
<1> QED
  BY <1>1, <1>6 DEF StreamType, StreamPcs, Settled, new

(* Whatever was lost from the context, a round keeps a stream's type.      *)
LEMMA RoundIsTyped ==
    ASSUME context \in Seq(Steps), NEW me \in StreamType
    PROVE  /\ Round(me, Len(context)) \in StreamType
           /\ Round(me, Len(context)).status = me.status
           /\ Round(me, Len(context)).by = me.by
<1> DEFINE n == Len(context)
           m == me.last_step_count + 1
           new == Round(me, n)
<1>1. n \in Nat /\ m \in Nat \ {0} /\ me.sent \in Seq(Steps)
  BY LenProperties DEF StreamType
<1>2. \A i \in m .. n : context[i] \in Steps
  <2> SUFFICES ASSUME NEW i \in m .. n PROVE context[i] \in Steps
    OBVIOUS
  <2>1. i \in 1 .. n
    BY <1>1
  <2> QED
    BY <2>1, ElementOfSeq
<1> HIDE DEF n, m
<1>3. SubSeq(context, m, n) \in Seq(Steps)
  BY <1>1, <1>2, SubSeqProperties
<1>4. me.sent \o SubSeq(context, m, n) \in Seq(Steps)
  BY <1>1, <1>3, ConcatProperties
<1> DEFINE news == me.status \notin {NoStatus, me.last_status}
<1>5. new = [me EXCEPT !.sent = me.sent \o SubSeq(context, m, n),
                       !.last_step_count = IF n > me.last_step_count THEN n
                                           ELSE me.last_step_count,
                       !.last_status = IF news THEN me.status ELSE @,
                       !.pc = IF news /\ me.status \in _TERMINAL
                              THEN "done" ELSE "sleep"]
  BY Zenon DEF Round, n, m
<1> HIDE DEF new
<1>6. (IF n > me.last_step_count THEN n ELSE me.last_step_count) \in Nat
  BY <1>1 DEF StreamType
<1>7. new \in StreamType /\ new.status = me.status /\ new.by = me.by
  BY <1>4, <1>5, <1>6 DEF StreamType, StreamPcs
<1> QED
  BY <1>7 DEF new, n

-----------------------------------------------------------------------------
(* The inductive invariant.                                                *)

Inv == TypeOK /\ FeedInv

LEMMA InitInv == Init => Inv
<1> SUFFICES ASSUME Init PROVE Inv
  OBVIOUS
<1>1. TypeOK
  BY StreamConstants DEF Init, TypeOK, AttemptType, StreamType, AttemptPcs, StreamPcs,
     NoStatus, StreamConstants
<1>2. FeedInv
  BY DEF Init, FeedInv, AloneIsAlone, CopyIsFresh, CopiesKeepSteps, UnbornDidNothing,
     StepsSurvive, CountIsFaithful, SettledIsOver, FromOver, DoneSawAll, NoStatus, Settled,
     _TERMINAL, Working
<1> QED
  BY <1>1, <1>2 DEF Inv

(* What the invariant says of the attempts.                                *)
AttemptsInv ==
    AloneIsAlone /\ CopyIsFresh /\ CopiesKeepSteps /\ UnbornDidNothing /\ StepsSurvive

(* What the invariant says of one stream.                                  *)
StreamOK(me) ==
    /\ me \in StreamType
    /\ FromOver(me)
    /\ NoneOverlapped =>
         /\ me.last_step_count = Len(me.sent) /\ Len(me.sent) <= Len(context)
         /\ \A k \in 1 .. Len(me.sent) : me.sent[k] = context[k]
         /\ me.pc = "done" =>
              /\ me.status \in Settled
              /\ \A k \in DOMAIN context : context[k][1] = me.by => k <= Len(me.sent)

LEMMA InvOfStreams ==
    Inv => \A s \in Streams : StreamOK(stream[s])
BY DEF Inv, TypeOK, FeedInv, CountIsFaithful, SettledIsOver, DoneSawAll, StreamOK

(* A step of one stream keeps the invariant if what it becomes is fine.    *)
LEMMA OneStreamChanges ==
    ASSUME Inv, NEW s \in Streams, NEW me, StreamOK(me),
           stream' = [stream EXCEPT ![s] = me], UNCHANGED <<live, context, attempt>>
    PROVE  Inv'
<1>1. \A q \in Streams : stream'[q] = IF q = s THEN me ELSE stream[q]
  BY DEF Inv, TypeOK
<1>2. \A q \in Streams : StreamOK(stream'[q])
  BY <1>1, InvOfStreams
<1>3. stream' \in [Streams -> StreamType]
  BY DEF Inv, TypeOK, StreamOK
<1>4. TypeOK' /\ FromOver(live)'
  BY <1>3 DEF Inv, TypeOK, FeedInv, SettledIsOver, FromOver
<1>5. AttemptsInv' /\ NoneOverlapped' = NoneOverlapped
  BY DEF Inv, FeedInv, AttemptsInv, AloneIsAlone, CopyIsFresh, CopiesKeepSteps,
     UnbornDidNothing, StepsSurvive, NoneOverlapped
<1>6. CountIsFaithful'
  BY <1>2, <1>5 DEF StreamOK, CountIsFaithful
<1>7. \A q \in Streams : FromOver(stream[q])'
  BY <1>2 DEF StreamOK, FromOver
<1>8. DoneSawAll'
  BY <1>2, <1>5 DEF StreamOK, DoneSawAll
<1> QED
  BY <1>4, <1>5, <1>6, <1>7, <1>8 DEF Inv, FeedInv, AttemptsInv, SettledIsOver

LEMMA StreamKeepsInv ==
    ASSUME Inv, NEW s \in Streams, Connect(s) \/ StreamStep(s) \/ Break(s)
    PROVE  Inv'
<1> DEFINE me == stream[s]
<1>1. StreamOK(me)
  BY InvOfStreams
<1>2. CASE Connect(s)
  <2>1. StreamOK([me EXCEPT !.pc = "sleep"])
    BY <1>1 DEF StreamOK, StreamType, StreamPcs, FromOver
  <2> QED
    BY <1>2, <2>1, OneStreamChanges DEF Connect, OnlyStream
<1>3. CASE Poll(s)
  <2> DEFINE new == [me EXCEPT !.pc = "context", !.elapsed = @ + 1,
                               !.status = live.status, !.by = live.by]
  <2>1. FromOver(live)
    BY DEF Inv, FeedInv, SettledIsOver
  <2>2. me.elapsed \in 0 .. MaxTicks /\ me.elapsed < MaxTicks /\ me.pc = "sleep"
    BY <1>1, <1>3 DEF StreamOK, StreamType, Poll, PollWithin
  <2>3. me.elapsed + 1 \in 0 .. MaxTicks
    BY <2>2, StreamConstants DEF StreamConstants
  <2>4. live \in [status : Settled \cup {NoStatus, "RUNNING"}, by : Nat]
    BY DEF Inv, TypeOK
  <2>5. new \in StreamType
    BY <1>1, <2>3, <2>4 DEF StreamOK, StreamType, StreamPcs
  <2>6. StreamOK(new)
    BY <1>1, <2>1, <2>5 DEF StreamOK, StreamType, FromOver
  <2>7. stream' = [stream EXCEPT ![s] = new]
    BY <1>3 DEF Poll, PollWithin
  <2> QED
    BY <1>3, <2>6, <2>7, OneStreamChanges DEF Poll, PollWithin, OnlyStream
<1>4. CASE Emit(s)
  <2> DEFINE new == Round(me, Len(context))
  <2>1. context \in Seq(Steps)
    BY DEF Inv, TypeOK
  <2>2. new \in StreamType /\ new.status = me.status /\ new.by = me.by
    BY <1>1, <2>1, RoundIsTyped DEF StreamOK
  <2>3. ASSUME NoneOverlapped
        PROVE  /\ new.sent = context /\ new.last_step_count = Len(context)
               /\ new.pc = "done" => me.status \in Settled
    BY <1>1, <2>1, <2>3, RoundCatchesUp DEF StreamOK
  <2>4. stream' = [stream EXCEPT ![s] = new]
    BY <1>4 DEF Emit, EmitCounting
  <2> HIDE DEF new
  <2>5. StreamOK(new)
    BY <1>1, <2>1, <2>2, <2>3, LenProperties DEF StreamOK, FromOver
  <2> QED
    BY <1>4, <2>4, <2>5, OneStreamChanges DEF Emit, EmitCounting, OnlyStream
<1>5. CASE Timeout(s)
  <2>1. StreamOK([me EXCEPT !.pc = "timeout"])
    BY <1>1 DEF StreamOK, StreamType, StreamPcs, FromOver
  <2> QED
    BY <1>5, <2>1, OneStreamChanges DEF Timeout, OnlyStream
<1>6. CASE Break(s)
  <2>1. StreamOK([me EXCEPT !.pc = "broken"])
    BY <1>1 DEF StreamOK, StreamType, StreamPcs, FromOver
  <2> QED
    BY <1>6, <2>1, OneStreamChanges DEF Break, OnlyStream
<1> QED
  BY <1>2, <1>3, <1>4, <1>5, <1>6 DEF StreamStep

-----------------------------------------------------------------------------
(* The attempts.                                                           *)

(* A step that leaves the context and the streams alone, and no attempt    *)
(* that is over, keeps what the invariant says of the streams.             *)
LEMMA StreamsUndisturbed ==
    ASSUME Inv, UNCHANGED <<context, stream>>, TypeOK', NoneOverlapped' => NoneOverlapped,
           \A b \in Attempts : attempt[b].pc = "over" => attempt'[b].pc = "over"
    PROVE  CountIsFaithful' /\ DoneSawAll' /\ \A s \in Streams : FromOver(stream[s])'
BY DEF Inv, FeedInv, CountIsFaithful, DoneSawAll, SettledIsOver, FromOver

LEMMA StartKeepsInv ==
    ASSUME Inv, NEW a \in Attempts, Start(a)
    PROVE  Inv'
<1> USE DEF Inv, FeedInv
<1>1. /\ attempt[a].pc = "unborn" /\ attempt[a] \in AttemptType
      /\ attempt[a].done = 0 /\ attempt[a].alone
      /\ UNCHANGED <<context, stream>> /\ live' = [status |-> "RUNNING", by |-> a]
      /\ \A b \in Attempts : attempt[b] \in AttemptType
  BY DEF Start, TypeOK, UnbornDidNothing
<1>2. /\ attempt'[a] = [attempt[a] EXCEPT !.pc = "gate", !.alone = (Others(a) = {})]
      /\ \A b \in Attempts \ {a} :
           attempt'[b] = [attempt[b] EXCEPT !.alone = @ /\ b \notin Others(a)]
  BY DEF Start
<1>3. /\ attempt'[a].pc = "gate" /\ attempt'[a].done = 0
      /\ attempt'[a].alone => Others(a) = {}
  BY <1>1, <1>2 DEF AttemptType
<1>4. ASSUME NEW b \in Attempts \ {a}
      PROVE  /\ attempt'[b].pc = attempt[b].pc /\ attempt'[b].done = attempt[b].done
             /\ attempt'[b].copy = attempt[b].copy /\ attempt'[b] \in AttemptType
             /\ attempt'[b].alone = (attempt[b].alone /\ b \notin Others(a))
  <2> DEFINE flag == attempt[b].alone /\ b \notin Others(a)
  <2>1. flag \in BOOLEAN /\ attempt[b] \in AttemptType
    BY <1>1
  <2>2. attempt'[b] = [attempt[b] EXCEPT !.alone = flag]
    BY <1>2
  <2> HIDE DEF flag
  <2>3. /\ attempt'[b].pc = attempt[b].pc /\ attempt'[b].done = attempt[b].done
        /\ attempt'[b].copy = attempt[b].copy /\ attempt'[b] \in AttemptType
        /\ attempt'[b].alone = flag
    BY <2>1, <2>2 DEF AttemptType
  <2> QED
    BY <2>3 DEF flag
<1>5. TypeOK'
  <2>1. live' \in [status : Settled \cup {NoStatus, "RUNNING"}, by : Nat]
    BY <1>1, StreamConstants DEF Attempts, StreamConstants
  <2>2. attempt'[a] \in AttemptType
    BY <1>1, <1>2 DEF AttemptType, AttemptPcs, Running, Working
  <2>3. attempt' \in [Attempts -> AttemptType]
    BY <1>4, <2>2 DEF Start
  <2>4. \A b \in Attempts : attempt'[b].pc = "write" => attempt'[b].done < MaxSteps
    BY <1>3, <1>4 DEF TypeOK
  <2> QED
    BY <1>1, <2>1, <2>3, <2>4 DEF TypeOK
<1>6. AloneIsAlone'
  BY <1>3, <1>4 DEF AloneIsAlone, Others
<1>7. NoneOverlapped' => NoneOverlapped
  BY <1>1, <1>4 DEF NoneOverlapped
<1>8. CopyIsFresh'
  BY <1>1, <1>3, <1>4, <1>7 DEF CopyIsFresh
<1>9. CopiesKeepSteps'
  <2> SUFFICES ASSUME NEW x \in Attempts, NEW b \in Attempts, attempt'[x].alone,
                      attempt'[b].pc = "write", NEW n \in 1 .. attempt'[x].done
               PROVE  \E k \in DOMAIN attempt'[b].copy : attempt'[b].copy[k] = <<x, n>>
    BY DEF CopiesKeepSteps
  <2>1. b # a /\ attempt[b].pc = "write" /\ attempt'[b].copy = attempt[b].copy
    BY <1>3, <1>4
  <2>2. x # a
    BY <1>3
  <2>3. attempt[x].alone
    BY <1>4, <2>2
  <2>4. n \in 1 .. attempt[x].done
    BY <1>4, <2>2
  <2>5. \E k \in DOMAIN attempt[b].copy : attempt[b].copy[k] = <<x, n>>
    BY <2>1, <2>3, <2>4 DEF CopiesKeepSteps
  <2> QED
    BY <2>1, <2>5
<1>10. UnbornDidNothing'
  <2> SUFFICES ASSUME NEW b \in Attempts, attempt'[b].pc = "unborn"
               PROVE  attempt'[b].done = 0 /\ attempt'[b].alone
    BY DEF UnbornDidNothing
  <2>1. b # a /\ attempt[b].pc = "unborn" /\ attempt[b].done = 0 /\ attempt[b].alone
    BY <1>3, <1>4 DEF UnbornDidNothing
  <2>2. b \notin Others(a)
    BY <2>1 DEF Others, Working
  <2> QED
    BY <1>1, <1>2, <2>1, <2>2 DEF AttemptType
<1>11. StepsSurvive'
  <2> SUFFICES ASSUME NEW x \in Attempts, attempt'[x].alone, NEW n \in 1 .. attempt'[x].done
               PROVE  \E k \in DOMAIN context : context[k] = <<x, n>>
    BY <1>1 DEF StepsSurvive
  <2>1. x # a
    BY <1>3
  <2> QED
    BY <1>4, <2>1 DEF StepsSurvive
<1>12. FromOver(live)'
  BY <1>1 DEF FromOver, Settled, _TERMINAL
<1>13. \A b \in Attempts : attempt[b].pc = "over" => attempt'[b].pc = "over"
  BY <1>1, <1>4
<1> QED
  BY <1>1, <1>5, <1>6, <1>7, <1>8, <1>9, <1>10, <1>11, <1>12, <1>13, StreamsUndisturbed
  DEF SettledIsOver

(* A step of an attempt that completes nothing: its copy, if it keeps one, *)
(* is the context.                                                         *)
LEMMA AttemptsStay ==
    ASSUME Inv, NEW a \in Attempts, UNCHANGED context, NEW new \in AttemptType,
           attempt' = [attempt EXCEPT ![a] = new], new.pc # "unborn",
           new.done = attempt[a].done, new.alone = attempt[a].alone,
           new.pc \in Working => attempt[a].pc \in Working,
           new.pc = "write" => new.copy = context
    PROVE  AttemptsInv' /\ NoneOverlapped' = NoneOverlapped
<1> USE DEF Inv, FeedInv
<1>1. \A b \in Attempts : attempt'[b] = IF b = a THEN new ELSE attempt[b]
  BY DEF TypeOK
<1>2. \A b \in Attempts : /\ attempt'[b].alone = attempt[b].alone
                          /\ attempt'[b].done = attempt[b].done
  BY <1>1
<1>3. NoneOverlapped' = NoneOverlapped
  BY <1>2 DEF NoneOverlapped
<1>4. AloneIsAlone'
  BY <1>1, <1>2 DEF AloneIsAlone
<1>5. CopyIsFresh'
  BY <1>1, <1>3 DEF CopyIsFresh
<1>6. StepsSurvive'
  BY <1>2 DEF StepsSurvive
<1>7. CopiesKeepSteps'
  <2> SUFFICES ASSUME NEW x \in Attempts, NEW b \in Attempts, attempt'[x].alone,
                      attempt'[b].pc = "write", NEW n \in 1 .. attempt'[x].done
               PROVE  \E k \in DOMAIN attempt'[b].copy : attempt'[b].copy[k] = <<x, n>>
    BY DEF CopiesKeepSteps
  <2>1. CASE b = a
    <3>1. attempt'[b].copy = context
      BY <1>1, <2>1
    <3> QED
      BY <1>2, <3>1 DEF StepsSurvive
  <2>2. CASE b # a
    <3>1. attempt'[b] = attempt[b]
      BY <1>1, <2>2
    <3>2. attempt[x].alone /\ n \in 1 .. attempt[x].done
      BY <1>2
    <3>3. \E k \in DOMAIN attempt[b].copy : attempt[b].copy[k] = <<x, n>>
      BY <3>1, <3>2 DEF CopiesKeepSteps
    <3> QED
      BY <3>1, <3>3
  <2> QED
    BY <2>1, <2>2
<1>8. UnbornDidNothing'
  BY <1>1 DEF UnbornDidNothing
<1> QED
  BY <1>3, <1>4, <1>5, <1>6, <1>7, <1>8 DEF AttemptsInv

(* An attempt that works moves on and touches neither key.                 *)
LEMMA MoveKeepsInv ==
    ASSUME Inv, NEW a \in Attempts, attempt[a].pc \in Running,
           UNCHANGED <<live, context, stream>>,
           NEW new \in AttemptType, attempt' = [attempt EXCEPT ![a] = new],
           new.pc \in Running \cup {"over"},
           new.done = attempt[a].done, new.alone = attempt[a].alone,
           new.pc \in Working => attempt[a].pc \in Working,
           new.pc = "write" => new.copy = context /\ new.done < MaxSteps
    PROVE  Inv'
<1>1. \A b \in Attempts : attempt'[b] = IF b = a THEN new ELSE attempt[b]
  BY DEF Inv, TypeOK
<1>2. TypeOK'
  BY <1>1 DEF Inv, TypeOK
<1>3. AttemptsInv' /\ NoneOverlapped' = NoneOverlapped
  <2>1. new.pc # "unborn"
    BY DEF Running, Working
  <2> QED
    BY <2>1, AttemptsStay
<1>4. \A b \in Attempts : attempt[b].pc = "over" => attempt'[b].pc = "over"
  BY <1>1 DEF Running, Working
<1>5. FromOver(live)'
  BY <1>4 DEF Inv, FeedInv, SettledIsOver, FromOver
<1> QED
  BY <1>2, <1>3, <1>4, <1>5, StreamsUndisturbed DEF Inv, FeedInv, AttemptsInv, SettledIsOver

(* The step that writes the context: its copy has every step that must     *)
(* survive, and is the context itself while nobody has overlapped.         *)
LEMMA WriteKeepsInv ==
    ASSUME Inv, NEW a \in Attempts, WriteContext(a)
    PROVE  Inv'
<1> DEFINE n == attempt[a].done + 1
           copy == attempt[a].copy
<1>1. /\ context \in Seq(Steps) /\ attempt[a] \in AttemptType /\ copy \in Seq(Steps)
      /\ attempt[a].pc = "write" /\ attempt[a].done < MaxSteps
      /\ attempt[a].done \in Nat
  BY DEF WriteContext, Inv, TypeOK, AttemptType
<1>2. n \in 1 .. MaxSteps
  BY <1>1, StreamConstants DEF AttemptType, StreamConstants
<1>3. <<a, n>> \in Steps
  BY <1>2 DEF Steps
<1> DEFINE new == [attempt[a] EXCEPT !.pc = "read", !.done = n, !.copy = <<>>]
<1>4. new \in AttemptType
  <2>1. <<>> \in Seq(Steps)
    OBVIOUS
  <2>2. n \in 0 .. MaxSteps
    BY <1>2
  <2> HIDE DEF n
  <2> QED
    BY <1>1, <2>1, <2>2 DEF AttemptType, AttemptPcs, Running, Working
<1>5. /\ attempt' = [attempt EXCEPT ![a] = new] /\ UNCHANGED <<live, stream>>
      /\ context' = Append(copy, <<a, n>>)
  BY DEF WriteContext
<1>6. /\ new.pc = "read" /\ new.done = n /\ new.alone = attempt[a].alone
      /\ \A b \in Attempts : attempt'[b] = IF b = a THEN new ELSE attempt[b]
  BY <1>1, <1>5 DEF Inv, TypeOK, AttemptType
<1>7. \A m \in 1 .. n : m = n \/ m \in 1 .. attempt[a].done
  BY <1>1
<1> HIDE DEF n, copy
<1>8. /\ context' \in Seq(Steps) /\ Len(context') = Len(copy) + 1
      /\ \A k \in 1 .. Len(copy) : context'[k] = copy[k]
      /\ context'[Len(copy) + 1] = <<a, n>>
  BY <1>1, <1>3, <1>5, AppendExtends
<1>9. /\ DOMAIN copy = 1 .. Len(copy) /\ Len(copy) \in Nat
      /\ DOMAIN context' = 1 .. Len(copy) + 1
  BY <1>1, <1>8, LenProperties
<1> HIDE DEF new
<1>10. \A b \in Attempts : attempt'[b].alone = attempt[b].alone
  BY <1>6
<1>11. NoneOverlapped' = NoneOverlapped
  BY <1>10 DEF NoneOverlapped
<1>12. NoneOverlapped => copy = context
  BY <1>1 DEF Inv, FeedInv, CopyIsFresh, copy
<1>13. attempt[a].alone => \A b \in Attempts : b # a => attempt[b].pc # "write"
  BY <1>1 DEF Inv, FeedInv, AloneIsAlone, Working
<1> USE DEF Inv, FeedInv
<1>14. TypeOK'
  BY <1>4, <1>5, <1>6, <1>8 DEF TypeOK
<1>15. AttemptsInv'
  <2>1. AloneIsAlone'
    BY <1>1, <1>6, <1>10 DEF AloneIsAlone, Working
  <2>2. CopyIsFresh'
    BY <1>6, <1>11, <1>13 DEF CopyIsFresh, NoneOverlapped
  <2>3. CopiesKeepSteps'
    <3> SUFFICES ASSUME NEW x \in Attempts, NEW b \in Attempts, attempt[x].alone,
                        attempt'[b].pc = "write", NEW m \in 1 .. attempt'[x].done
                 PROVE  \E k \in DOMAIN attempt'[b].copy : attempt'[b].copy[k] = <<x, m>>
      BY <1>10 DEF CopiesKeepSteps
    <3>1. b # a /\ attempt'[b] = attempt[b] /\ attempt[b].pc = "write"
      BY <1>6
    <3>2. x # a
      BY <1>13, <3>1
    <3> QED
      BY <1>6, <3>1, <3>2 DEF CopiesKeepSteps
  <2>4. UnbornDidNothing'
    BY <1>6 DEF UnbornDidNothing
  <2>5. StepsSurvive'
    <3> SUFFICES ASSUME NEW x \in Attempts, attempt[x].alone, NEW m \in 1 .. attempt'[x].done
                 PROVE  \E k \in DOMAIN context' : context'[k] = <<x, m>>
      BY <1>10 DEF StepsSurvive
    <3>1. CASE x = a /\ m = n
      BY <1>8, <1>9, <3>1
    <3>2. CASE ~(x = a /\ m = n)
      <4>1. m \in 1 .. attempt[x].done
        BY <1>6, <1>7, <3>2
      <4>2. PICK k \in DOMAIN copy : copy[k] = <<x, m>>
        BY <1>1, <4>1 DEF CopiesKeepSteps, copy
      <4> QED
        BY <1>8, <1>9, <4>2
    <3> QED
      BY <3>1, <3>2
  <2> QED
    BY <2>1, <2>2, <2>3, <2>4, <2>5 DEF AttemptsInv
<1>16. \A s \in Streams : Len(stream[s].sent) \in Nat
  BY LenProperties DEF TypeOK, StreamType
<1>17. CountIsFaithful'
  BY <1>5, <1>8, <1>9, <1>11, <1>12, <1>16 DEF CountIsFaithful
<1>18. SettledIsOver'
  BY <1>1, <1>5, <1>6 DEF SettledIsOver, FromOver
<1>19. DoneSawAll'
  <2> SUFFICES ASSUME NoneOverlapped, NEW s \in Streams, stream[s].pc = "done"
               PROVE  /\ stream[s].status \in Settled
                      /\ \A k \in DOMAIN context' :
                           context'[k][1] = stream[s].by => k <= Len(stream[s].sent)
    BY <1>5, <1>11 DEF DoneSawAll
  <2>1. stream[s].status \in Settled /\ attempt[stream[s].by].pc = "over"
    BY DEF DoneSawAll, SettledIsOver, FromOver
  <2>2. stream[s].by # a
    BY <1>1, <2>1
  <2> SUFFICES ASSUME NEW k \in DOMAIN context', context'[k][1] = stream[s].by
               PROVE  k <= Len(stream[s].sent)
    BY <2>1
  <2>3. k # Len(copy) + 1
    BY <1>8, <2>2
  <2>4. k \in DOMAIN copy /\ copy[k][1] = stream[s].by
    BY <1>8, <1>9, <2>3
  <2> QED
    BY <1>12, <2>4 DEF DoneSawAll
<1> QED
  BY <1>14, <1>15, <1>17, <1>18, <1>19 DEF AttemptsInv

(* An attempt that is at its outcome, or over, writes the status.          *)
LEMMA SettleKeepsInv ==
    ASSUME Inv, NEW a \in Attempts, Announce(a) \/ DeadLetter(a)
    PROVE  Inv'
<1>1. /\ UNCHANGED <<context, stream>> /\ live'.by = a
      /\ live' \in [status : Settled \cup {NoStatus, "RUNNING"}, by : Nat]
  <2>1. a \in Nat
    BY StreamConstants DEF Attempts, StreamConstants
  <2>2. attempt[a].outcome \in Settled \cup {NoStatus} /\ "DEAD_LETTER" \in Settled
    BY DEF Inv, TypeOK, AttemptType, Settled, _TERMINAL
  <2> QED
    BY <2>1, <2>2 DEF Announce, AnnounceThen, DeadLetter
<1>2. PICK new \in AttemptType : /\ attempt' = [attempt EXCEPT ![a] = new]
                                 /\ new.pc = "over" /\ new.done = attempt[a].done
                                 /\ new.alone = attempt[a].alone
  <2>1. attempt[a] \in AttemptType /\ attempt \in [Attempts -> AttemptType]
    BY DEF Inv, TypeOK
  <2>2. CASE Announce(a)
    <3> DEFINE left == [attempt[a] EXCEPT !.pc = "over", !.copy = <<>>, !.outcome = NoStatus]
    <3>1. <<>> \in Seq(Steps)
      OBVIOUS
    <3>2. /\ left \in AttemptType /\ left.pc = "over" /\ left.done = attempt[a].done
          /\ left.alone = attempt[a].alone
      BY <2>1, <3>1 DEF AttemptType, AttemptPcs
    <3>3. attempt' = [attempt EXCEPT ![a] = left]
      BY <2>2 DEF Announce, AnnounceThen, Leave
    <3> QED
      BY <3>2, <3>3
  <2>3. CASE DeadLetter(a)
    <3>1. attempt' = [attempt EXCEPT ![a] = attempt[a]] /\ attempt[a].pc = "over"
      BY <2>1, <2>3 DEF DeadLetter
    <3> QED
      BY <2>1, <3>1
  <2> QED
    BY <2>2, <2>3
<1>3. \A b \in Attempts : attempt'[b] = IF b = a THEN new ELSE attempt[b]
  BY <1>2 DEF Inv, TypeOK
<1>4. TypeOK'
  BY <1>1, <1>2, <1>3 DEF Inv, TypeOK
<1>5. AttemptsInv' /\ NoneOverlapped' = NoneOverlapped
  BY <1>1, <1>2, AttemptsStay DEF Working
<1>6. FromOver(live)'
  BY <1>1, <1>2, <1>3 DEF FromOver
<1>7. \A b \in Attempts : attempt[b].pc = "over" => attempt'[b].pc = "over"
  BY <1>2, <1>3
<1> QED
  BY <1>1, <1>4, <1>5, <1>6, <1>7, StreamsUndisturbed DEF Inv, FeedInv, AttemptsInv, SettledIsOver

LEMMA AttemptKeepsInv ==
    ASSUME Inv, NEW a \in Attempts, AttemptStep(a)
    PROVE  Inv'
<1> DEFINE me == attempt[a]
<1>1. me \in AttemptType /\ context \in Seq(Steps) /\ <<>> \in Seq(Steps)
  BY DEF Inv, TypeOK
<1> USE DEF AttemptType, AttemptPcs, Running, Working
<1>2. ASSUME NEW o \in Settled, Conclude(a, o), UNCHANGED <<live, context, stream>>,
             me.pc \in {"gate", "read"}
      PROVE  Inv'
  <2> DEFINE new == [me EXCEPT !.pc = "announce", !.outcome = o]
  <2>1. /\ new \in AttemptType /\ new.pc = "announce"
        /\ new.done = me.done /\ new.alone = me.alone
    BY <1>1
  <2>2. attempt' = [attempt EXCEPT ![a] = new]
    BY <1>2 DEF Conclude
  <2> HIDE DEF new
  <2> QED
    BY <1>2, <2>1, <2>2, MoveKeepsInv
<1>3. CASE Start(a)
  BY <1>3, StartKeepsInv
<1>4. CASE Gate(a)
  <2>1. CASE Goto(a, "read")
    <3> DEFINE new == [me EXCEPT !.pc = "read"]
    <3>1. new \in AttemptType /\ new.pc = "read" /\ new.done = me.done /\ new.alone = me.alone
      BY <1>1
    <3>2. /\ attempt' = [attempt EXCEPT ![a] = new] /\ me.pc = "gate"
          /\ UNCHANGED <<live, context, stream>>
      BY <1>4, <2>1 DEF Gate, Goto
    <3> HIDE DEF new
    <3> QED
      BY <3>1, <3>2, MoveKeepsInv
  <2> QED
    BY <1>2, <1>4, <2>1 DEF Gate
<1>5. CASE ReadContext(a)
  <2> DEFINE new == [me EXCEPT !.pc = "write", !.copy = context]
  <2>1. /\ new \in AttemptType /\ new.pc = "write" /\ new.copy = context
        /\ new.done = me.done /\ new.alone = me.alone
    BY <1>1
  <2>2. /\ attempt' = [attempt EXCEPT ![a] = new] /\ UNCHANGED <<live, context, stream>>
        /\ me.pc = "read" /\ me.done < MaxSteps
    BY <1>5 DEF ReadContext, ReadContextAs
  <2> HIDE DEF new
  <2> QED
    BY <2>1, <2>2, MoveKeepsInv
<1>6. CASE WriteContext(a)
  BY <1>6, WriteKeepsInv
<1>7. CASE AppendFails(a)
  <2> DEFINE new == [me EXCEPT !.pc = "read", !.copy = <<>>]
  <2>1. new \in AttemptType /\ new.pc = "read" /\ new.done = me.done /\ new.alone = me.alone
    BY <1>1
  <2>2. attempt' = [attempt EXCEPT ![a] = new] /\ UNCHANGED <<live, context, stream>>
        /\ me.pc = "write"
    BY <1>7 DEF AppendFails
  <2> HIDE DEF new
  <2> QED
    BY <2>1, <2>2, MoveKeepsInv
<1>8. CASE Finish(a)
  BY <1>2, <1>8 DEF Finish, Settled, _TERMINAL
<1>9. CASE Announce(a) \/ DeadLetter(a)
  BY <1>9, SettleKeepsInv
<1>10. CASE Lose(a)
  <2> DEFINE new == [me EXCEPT !.pc = "over", !.copy = <<>>, !.outcome = NoStatus]
  <2>1. new \in AttemptType /\ new.pc = "over" /\ new.done = me.done /\ new.alone = me.alone
    BY <1>1
  <2>2. attempt' = [attempt EXCEPT ![a] = new] /\ UNCHANGED <<live, context, stream>>
        /\ me.pc \in Running
    BY <1>10 DEF Lose, Leave
  <2> HIDE DEF new
  <2> QED
    BY <2>1, <2>2, MoveKeepsInv
<1> QED
  BY <1>3, <1>4, <1>5, <1>6, <1>7, <1>8, <1>9, <1>10 DEF AttemptStep

-----------------------------------------------------------------------------
(* The theorems.                                                           *)

LEMMA NextKeepsInv == Inv /\ [Next]_vars => Inv'
<1> SUFFICES ASSUME Inv, [Next]_vars PROVE Inv'
  OBVIOUS
<1>1. CASE \E a \in Attempts : AttemptStep(a)
  BY <1>1, AttemptKeepsInv
<1>2. CASE \E s \in Streams : Connect(s) \/ StreamStep(s) \/ Break(s)
  BY <1>2, StreamKeepsInv
<1>3. CASE UNCHANGED vars
  <2>1. TypeOK' /\ SettledIsOver' /\ NoneOverlapped' = NoneOverlapped
    BY <1>3 DEF vars, Inv, TypeOK, FeedInv, SettledIsOver, FromOver, NoneOverlapped
  <2>2. AttemptsInv'
    BY <1>3, <2>1 DEF vars, Inv, FeedInv, AttemptsInv, AloneIsAlone, CopyIsFresh,
       CopiesKeepSteps, UnbornDidNothing, StepsSurvive
  <2>3. CountIsFaithful' /\ DoneSawAll'
    BY <1>3, <2>1 DEF vars, Inv, FeedInv, CountIsFaithful, DoneSawAll
  <2> QED
    BY <2>1, <2>2, <2>3 DEF Inv, FeedInv, AttemptsInv
<1> QED
  BY <1>1, <1>2, <1>3 DEF Next

(* The inductive invariant of the stream and its feed.                     *)
THEOREM FeedInvariant == Spec => []Inv
BY InitInv, NextKeepsInv, PTL DEF Spec

(* Type correctness, with the bounds on polls and steps.                   *)
THEOREM StreamTypeCorrect == Spec => []TypeOK
<1>1. Inv => TypeOK
  BY DEF Inv
<1> QED
  BY <1>1, FeedInvariant, PTL

(* The invariant says that the events sent are a prefix of the context.    *)
THEOREM StreamIsFaithful == Spec => []StepsInOrder
<1>1. Inv => StepsInOrder
  <2> SUFFICES ASSUME Inv, NoneOverlapped, NEW s \in Streams
               PROVE  IsPrefix(stream[s].sent, context)
    BY DEF StepsInOrder
  <2>1. /\ stream[s].sent \in Seq(Steps) /\ context \in Seq(Steps)
        /\ Len(stream[s].sent) <= Len(context)
        /\ \A k \in 1 .. Len(stream[s].sent) : stream[s].sent[k] = context[k]
    BY DEF Inv, TypeOK, StreamType, FeedInv, CountIsFaithful
  <2> QED
    BY <2>1, AgreeingIsPrefix
<1> QED
  BY <1>1, FeedInvariant, PTL

(* No stream says done before it has sent the steps of that attempt.       *)
THEOREM DoneIsComplete == Spec => []DoneAfterAllSteps
<1>1. Inv => DoneAfterAllSteps
  <2> SUFFICES ASSUME Inv, NoneOverlapped, NEW s \in Streams, stream[s].pc = "done",
                      NEW k \in DOMAIN context, context[k][1] = stream[s].by
               PROVE  \E l \in DOMAIN stream[s].sent : stream[s].sent[l] = context[k]
    BY DEF DoneAfterAllSteps
  <2>1. stream[s].sent \in Seq(Steps) /\ context \in Seq(Steps)
    BY DEF Inv, TypeOK, StreamType
  <2>2. k \in 1 .. Len(context) /\ k <= Len(stream[s].sent)
    BY <2>1, LenProperties DEF Inv, FeedInv, DoneSawAll
  <2>3. k \in 1 .. Len(stream[s].sent) /\ DOMAIN stream[s].sent = 1 .. Len(stream[s].sent)
    BY <2>1, <2>2, LenProperties
  <2>4. stream[s].sent[k] = context[k]
    BY <2>3 DEF Inv, FeedInv, CountIsFaithful
  <2> QED
    BY <2>3, <2>4
<1> QED
  BY <1>1, FeedInvariant, PTL

(* However many attempts are at work at once, for any number of attempts   *)
(* and steps: the steps of one that nobody worked beside stay in the       *)
(* context for good.                                                       *)
THEOREM AloneLosesNothing == Spec => []StepsSurvive
<1>1. Inv => StepsSurvive
  BY DEF Inv, FeedInv
<1> QED
  BY <1>1, FeedInvariant, PTL
=============================================================================
