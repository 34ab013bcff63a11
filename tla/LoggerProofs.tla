---------------------------- MODULE LoggerProofs ----------------------------
(***************************************************************************)
(* The log, for any capacity, any number of records, derivations and       *)
(* callers of close(), and any threshold.                                  *)
(***************************************************************************)
EXTENDS Logger, FiniteSetTheorems, TLAPS

Counters == [accepted : Nat, written : Nat, dropped : Nat, failed : Nat]

\* What was handed over and what waits are the acceptance numbers in order;
\* the line in flight is the last one handed over.
LinesOK ==
    /\ running \in BOOLEAN /\ counts \in Counters
    /\ lines \in Seq(Nat) /\ queue \in Seq(Nat) /\ Len(queue) <= Capacity
    /\ Len(lines) + Len(queue) = counts.accepted
    /\ \A i \in 1..Len(lines) : lines[i] = i
    /\ \A i \in 1..Len(queue) : queue[i] = Len(lines) + i
    /\ inflight = (IF running THEN {Len(lines)} ELSE {})
    /\ running => Len(lines) > 0
    /\ ~running => queue = <<>>

\* The flush comes once, behind close() and behind the last line.
FlushOK ==
    /\ noop \in BOOLEAN /\ closed \in BOOLEAN
    /\ flush \in {"idle", "running", "done"}
    /\ flushes = (IF flush = "idle" THEN 0 ELSE 1)
    /\ flush # "idle" => closed /\ ~running

Settled == IF running THEN Len(lines) - 1 ELSE Len(lines)
FlushFailures == IF flush = "done" THEN 1 ELSE 0

\* Every emission is counted once, and every settled line that was not
\* written is among the failures: a lines were accepted, w written, d dropped,
\* f failed, e emitted, s settled, and x failures may be the flush's.
Balanced(a, w, d, f, e, s, x) ==
    /\ w <= s /\ s <= a
    /\ s - w <= f
    /\ a + d <= e
    /\ e <= a + d + f - (s - w)
    /\ a + d + f - (s - w) <= e + x

CountsOK ==
    /\ emitted \in 0..MaxRecords
    /\ Balanced(counts.accepted, counts.written, counts.dropped, counts.failed, emitted,
                Settled, FlushFailures)

\* Who is told ok is told the truth.
AnswersOK ==
    /\ closer \in [Closers -> {"new", "waiting"} \cup Results]
    /\ OkCloseMeansWritten

DeliveryInv == LinesOK /\ FlushOK /\ CountsOK /\ AnswersOK

-----------------------------------------------------------------------------
(***************************************************************************)
(* What counting one more does.                                            *)
(***************************************************************************)
LEMMA CountGives ==
    ASSUME counts \in Counters, NEW k \in {"accepted", "written", "dropped", "failed"}, Count(k)
    PROVE  /\ counts' \in Counters
           /\ counts'.accepted = counts.accepted + (IF k = "accepted" THEN 1 ELSE 0)
           /\ counts'.written = counts.written + (IF k = "written" THEN 1 ELSE 0)
           /\ counts'.dropped = counts.dropped + (IF k = "dropped" THEN 1 ELSE 0)
           /\ counts'.failed = counts.failed + (IF k = "failed" THEN 1 ELSE 0)
<1>1. CASE k = "accepted"
  BY <1>1 DEF Count, Counters
<1>2. CASE k = "written"
  BY <1>2 DEF Count, Counters
<1>3. CASE k = "dropped"
  BY <1>3 DEF Count, Counters
<1>4. CASE k = "failed"
  BY <1>4 DEF Count, Counters
<1> QED
  BY <1>1, <1>2, <1>3, <1>4

AreNumbers ==
    /\ counts.accepted \in Nat /\ counts.written \in Nat /\ counts.dropped \in Nat
    /\ counts.failed \in Nat /\ Len(lines) \in Nat /\ Len(queue) \in Nat /\ emitted \in Nat
    /\ MaxRecords \in Nat /\ Capacity \in Nat /\ Settled \in Nat /\ FlushFailures \in {0, 1}

(***************************************************************************)
(* The counts are numbers, and so are the lengths.                         *)
(***************************************************************************)
LEMMA Numbers ==
    ASSUME DeliveryInv
    PROVE  AreNumbers /\ LinesOK /\ FlushOK /\ CountsOK /\ AnswersOK
<1>1. LinesOK /\ FlushOK /\ CountsOK /\ AnswersOK
  BY DEF DeliveryInv
<1>2. /\ counts.accepted \in Nat /\ counts.written \in Nat /\ counts.dropped \in Nat
      /\ counts.failed \in Nat
  BY <1>1 DEF LinesOK, Counters
<1>3. Len(lines) \in Nat /\ Len(queue) \in Nat
  BY <1>1 DEF LinesOK
<1>4. MaxRecords \in Nat /\ Capacity \in Nat /\ emitted \in Nat
  BY <1>1, MaxRecordsAssumption, CapacityAssumption DEF CountsOK
<1>5. Settled \in Nat /\ FlushFailures \in {0, 1}
  BY <1>1, <1>2, <1>3 DEF LinesOK, Settled, FlushFailures
<1> QED
  BY <1>1, <1>2, <1>3, <1>4, <1>5 DEF AreNumbers

(***************************************************************************)
(* An answer stays true while no line is accepted, written or failed       *)
(* behind it.                                                              *)
(***************************************************************************)
LEMMA AnswersKept ==
    ASSUME AnswersOK, UNCHANGED closer,
           flush = "done" => /\ flush' = "done"
                             /\ counts'.failed = counts.failed
                             /\ counts'.written = counts.written
                             /\ counts'.accepted = counts.accepted
    PROVE  AnswersOK'
BY DEF AnswersOK, OkCloseMeansWritten

(***************************************************************************)
(* An emission that is counted as dropped, or as failed before close().    *)
(***************************************************************************)
LEMMA RefusedStep ==
    ASSUME DeliveryInv, EmitClosed \/ EmitFails \/ EmitDropped
    PROVE  DeliveryInv'
<1>0. /\ AreNumbers /\ LinesOK /\ FlushOK /\ CountsOK /\ AnswersOK /\ emitted' = emitted + 1
      /\ emitted < MaxRecords
      /\ UNCHANGED <<noop, queue, running, inflight, lines, closed, flush, flushes, closer>>
  BY Numbers DEF EmitClosed, EmitFails, EmitDropped, Emission
<1>1. counts \in Counters
  BY <1>0 DEF LinesOK
<1>2. PICK k \in {"dropped", "failed"} : Count(k) /\ (k = "failed" => ~closed)
  BY DEF EmitClosed, EmitFails, EmitDropped
<1>3. /\ counts' \in Counters /\ counts'.accepted = counts.accepted
      /\ counts'.written = counts.written
      /\ counts'.dropped = counts.dropped + (IF k = "dropped" THEN 1 ELSE 0)
      /\ counts'.failed = counts.failed + (IF k = "failed" THEN 1 ELSE 0)
  BY <1>0, <1>1, <1>2, CountGives DEF AreNumbers
<1>4. LinesOK'
  BY <1>0, <1>3 DEF LinesOK
<1>5. FlushOK'
  BY <1>0 DEF FlushOK
<1>6. Settled' = Settled /\ FlushFailures' = FlushFailures /\ FlushFailures \in Nat
  BY <1>0 DEF Settled, FlushFailures
<1>7. CountsOK'
  <2>1. emitted' \in 0..MaxRecords
    BY <1>0 DEF AreNumbers
  <2>a. PICK a \in Nat, w \in Nat, d \in Nat :
           a = counts.accepted /\ w = counts.written /\ d = counts.dropped
    BY <1>0 DEF AreNumbers
  <2>b. PICK f \in Nat, e \in Nat, s \in Nat, x \in {0, 1} :
           f = counts.failed /\ e = emitted /\ s = Settled /\ x = FlushFailures
    BY <1>0 DEF AreNumbers
  <2>2. Balanced(a, w, d, f, e, s, x)
    BY <1>0, <2>a, <2>b DEF CountsOK
  <2>3. Balanced(a, w, d + 1, f, e + 1, s, x) /\ Balanced(a, w, d, f + 1, e + 1, s, x)
    BY <2>2 DEF Balanced
  <2>4. CASE k = "dropped"
    <3>1. counts'.dropped = d + 1 /\ counts'.failed = f
      BY <1>3, <2>a, <2>b, <2>4
    <3> QED
      BY <1>0, <1>3, <1>6, <2>1, <2>a, <2>b, <2>3, <3>1 DEF CountsOK
  <2>5. CASE k = "failed"
    <3>1. counts'.dropped = d /\ counts'.failed = f + 1
      BY <1>3, <2>a, <2>b, <2>5
    <3> QED
      BY <1>0, <1>3, <1>6, <2>1, <2>a, <2>b, <2>3, <3>1 DEF CountsOK
  <2> QED
    BY <2>4, <2>5
<1>8. AnswersOK'
  <2>1. flush = "done" => counts'.failed = counts.failed
    BY <1>0, <1>2, <1>3 DEF FlushOK, AreNumbers
  <2> QED
    BY <1>0, <1>3, <2>1, AnswersKept
<1> QED
  BY <1>4, <1>5, <1>7, <1>8 DEF DeliveryInv

(***************************************************************************)
(* An emission that is accepted: it waits behind a running pump, or starts *)
(* one.                                                                    *)
(***************************************************************************)
LEMMA AcceptedStep ==
    ASSUME DeliveryInv, EmitAccepted
    PROVE  DeliveryInv'
<1>0. /\ AreNumbers /\ LinesOK /\ FlushOK /\ CountsOK /\ AnswersOK /\ emitted' = emitted + 1
      /\ emitted < MaxRecords /\ ~closed /\ ~Full /\ Count("accepted")
      /\ UNCHANGED <<noop, closed, flush, flushes, closer>>
  BY Numbers DEF EmitAccepted, Emission
<1>1. flush = "idle" /\ flush' = "idle" /\ running \in BOOLEAN /\ lines \in Seq(Nat)
      /\ queue \in Seq(Nat) /\ counts \in Counters
  BY <1>0 DEF FlushOK, LinesOK
<1>2. /\ counts' \in Counters /\ counts'.accepted = counts.accepted + 1
      /\ counts'.written = counts.written /\ counts'.dropped = counts.dropped
      /\ counts'.failed = counts.failed
  BY <1>0, <1>1, CountGives DEF AreNumbers
<1>3. LinesOK' /\ FlushOK' /\ Settled' = Settled
  <2>1. CASE running
    <3>1. /\ queue' = Append(queue, counts.accepted + 1) /\ running' = TRUE
          /\ inflight' = inflight /\ lines' = lines /\ Len(queue) < Capacity
      BY <1>0, <2>1 DEF EmitAccepted, Full, AreNumbers
    <3>2. /\ queue' \in Seq(Nat) /\ Len(queue') = Len(queue) + 1
          /\ queue'[Len(queue) + 1] = counts.accepted + 1
          /\ \A i \in 1..Len(queue) : queue'[i] = queue[i]
      BY <1>0, <1>1, <3>1 DEF AreNumbers
    <3>3. \A i \in 1..Len(queue') : queue'[i] = Len(lines) + i
      <4>1. counts.accepted + 1 = Len(lines) + (Len(queue) + 1)
        BY <1>0 DEF LinesOK, AreNumbers
      <4>2. \A i \in 1..Len(queue') : i \in 1..Len(queue) \/ i = Len(queue) + 1
        BY <1>0, <3>2 DEF AreNumbers
      <4> QED
        BY <1>0, <3>2, <4>1, <4>2 DEF LinesOK
    <3>4. Len(lines) + Len(queue') = counts'.accepted /\ Len(queue') <= Capacity
      BY <1>0, <1>2, <3>1, <3>2 DEF LinesOK, AreNumbers
    <3>5. LinesOK'
      BY <1>0, <1>2, <2>1, <3>1, <3>2, <3>3, <3>4 DEF LinesOK
    <3>6. FlushOK'
      BY <1>0, <1>1, <3>1 DEF FlushOK
    <3> QED
      BY <2>1, <3>1, <3>5, <3>6 DEF Settled
  <2>2. CASE ~running
    <3>1. /\ lines' = Append(lines, counts.accepted + 1) /\ running' = TRUE /\ queue = <<>>
          /\ inflight' = inflight \cup {counts.accepted + 1} /\ queue' = queue /\ inflight = {}
          /\ Len(lines) = counts.accepted
      BY <1>0, <2>2 DEF EmitAccepted, LinesOK, AreNumbers
    <3>2. /\ lines' \in Seq(Nat) /\ Len(lines') = Len(lines) + 1
          /\ lines'[Len(lines) + 1] = counts.accepted + 1
          /\ \A i \in 1..Len(lines) : lines'[i] = lines[i]
      BY <1>0, <1>1, <3>1 DEF AreNumbers
    <3>3. \A i \in 1..Len(lines') : lines'[i] = i
      BY <1>0, <3>1, <3>2 DEF LinesOK, AreNumbers
    <3>4. inflight' = {Len(lines')} /\ Len(lines') > 0 /\ Len(queue') = 0
      BY <1>0, <3>1, <3>2 DEF AreNumbers
    <3>5. Len(lines') + Len(queue') = counts'.accepted /\ Len(queue') <= Capacity
      BY <1>0, <1>2, <3>1, <3>2, <3>4 DEF AreNumbers
    <3>6. \A i \in 1..Len(queue') : queue'[i] = Len(lines') + i
      BY <3>4
    <3>7. LinesOK'
      BY <1>1, <1>2, <3>1, <3>2, <3>3, <3>4, <3>5, <3>6 DEF LinesOK
    <3>8. FlushOK'
      BY <1>0, <1>1, <3>1 DEF FlushOK
    <3> QED
      BY <1>0, <2>2, <3>1, <3>2, <3>7, <3>8 DEF Settled, AreNumbers
  <2> QED
    BY <1>1, <2>1, <2>2
<1>4. FlushFailures = 0 /\ FlushFailures' = 0
  BY <1>1 DEF FlushFailures
<1>5. CountsOK'
  <2>1. emitted' \in 0..MaxRecords
    BY <1>0 DEF AreNumbers
  <2>a. PICK a \in Nat, w \in Nat, d \in Nat :
           a = counts.accepted /\ w = counts.written /\ d = counts.dropped
    BY <1>0 DEF AreNumbers
  <2>b. PICK f \in Nat, e \in Nat, s \in Nat, x \in {0, 1} :
           f = counts.failed /\ e = emitted /\ s = Settled /\ x = FlushFailures
    BY <1>0 DEF AreNumbers
  <2>2. Balanced(a, w, d, f, e, s, x)
    BY <1>0, <2>a, <2>b DEF CountsOK
  <2>3. Balanced(a + 1, w, d, f, e + 1, s, x)
    BY <2>2 DEF Balanced
  <2> QED
    BY <1>0, <1>2, <1>3, <1>4, <2>1, <2>a, <2>b, <2>3 DEF CountsOK
<1>6. AnswersOK'
  BY <1>0, <1>1, AnswersKept
<1> QED
  BY <1>3, <1>5, <1>6 DEF DeliveryInv

(***************************************************************************)
(* A settled write moves the counts from s settled lines to s + 1.         *)
(***************************************************************************)
LEMMA SettledStep ==
    ASSUME DeliveryInv, SinkWrites \/ SinkRejects
    PROVE  DeliveryInv'
<1>0. /\ AreNumbers /\ LinesOK /\ FlushOK /\ CountsOK /\ AnswersOK
      /\ UNCHANGED <<noop, emitted, closed, closer>>
  BY Numbers DEF SinkWrites, SinkRejects
<1>1. PICK line \in inflight, k \in {"written", "failed"} : Count(k) /\ PumpContinues(line)
  BY DEF SinkWrites, SinkRejects
<1>2. /\ running = TRUE /\ inflight = {line} /\ line = Len(lines) /\ Len(lines) > 0
      /\ flush = "idle" /\ counts \in Counters /\ lines \in Seq(Nat) /\ queue \in Seq(Nat)
      /\ closed \in BOOLEAN /\ noop \in BOOLEAN
  BY <1>0, <1>1 DEF LinesOK, FlushOK
<1>3. /\ counts' \in Counters /\ counts'.accepted = counts.accepted
      /\ counts'.written = counts.written + (IF k = "written" THEN 1 ELSE 0)
      /\ counts'.dropped = counts.dropped
      /\ counts'.failed = counts.failed + (IF k = "failed" THEN 1 ELSE 0)
  BY <1>0, <1>1, <1>2, CountGives DEF AreNumbers
<1>4. LinesOK' /\ FlushOK' /\ Settled' = Settled + 1 /\ Settled' <= counts.accepted
      /\ (FlushFailures' \in {0, 1} /\ FlushFailures = 0)
  <2>1. CASE queue # <<>>
    <3>1. /\ inflight' = (inflight \ {line}) \cup {Head(queue)}
          /\ lines' = Append(lines, Head(queue)) /\ queue' = Tail(queue)
          /\ UNCHANGED <<running, flush, flushes>>
      BY <1>1, <2>1 DEF PumpContinues
    <3>2. Len(queue) > 0 /\ Head(queue) = queue[1] /\ queue[1] = Len(lines) + 1
      <4>1. Len(queue) > 0 /\ Head(queue) = queue[1]
        BY <1>2, <2>1
      <4> QED
        BY <1>0, <4>1 DEF LinesOK, AreNumbers
    <3>3. /\ lines' \in Seq(Nat) /\ Len(lines') = Len(lines) + 1
          /\ lines'[Len(lines) + 1] = Len(lines) + 1
          /\ \A i \in 1..Len(lines) : lines'[i] = lines[i]
      BY <1>0, <1>2, <3>1, <3>2 DEF AreNumbers
    <3>4. /\ queue' \in Seq(Nat) /\ Len(queue') = Len(queue) - 1
          /\ \A i \in 1..Len(queue') : queue'[i] = queue[i + 1]
      BY <1>2, <2>1, <3>1
    <3>5. \A i \in 1..Len(lines') : lines'[i] = i
      <4>1. \A i \in 1..Len(lines') : i \in 1..Len(lines) \/ i = Len(lines) + 1
        BY <1>0, <3>3 DEF AreNumbers
      <4> QED
        BY <1>0, <3>3, <4>1 DEF LinesOK
    <3>6. \A i \in 1..Len(queue') : queue'[i] = Len(lines') + i
      <4>1. \A i \in 1..Len(queue') : i + 1 \in 1..Len(queue)
        BY <1>0, <3>4 DEF AreNumbers
      <4>2. \A i \in 1..Len(queue') : queue[i + 1] = Len(lines) + (i + 1)
        BY <1>0, <4>1 DEF LinesOK
      <4>3. \A i \in 1..Len(queue') : Len(lines) + (i + 1) = Len(lines') + i
        BY <1>0, <3>3 DEF AreNumbers
      <4> QED
        BY <3>4, <4>2, <4>3
    <3>7. /\ inflight' = {Len(lines')} /\ Len(lines') > 0 /\ running' = TRUE
          /\ Len(lines') + Len(queue') = counts'.accepted /\ Len(queue') <= Capacity
      BY <1>0, <1>2, <1>3, <3>1, <3>2, <3>3, <3>4 DEF LinesOK, AreNumbers
    <3>8. LinesOK'
      BY <1>3, <3>3, <3>4, <3>5, <3>6, <3>7 DEF LinesOK
    <3>9. FlushOK'
      BY <1>0, <1>2, <3>1 DEF FlushOK
    <3>10. Settled = Len(lines) - 1 /\ Settled' = Len(lines') - 1 /\ Len(lines') - 1 = Len(lines)
      BY <1>0, <1>2, <3>3, <3>7 DEF Settled, AreNumbers
    <3>11. Len(lines) <= counts.accepted /\ FlushFailures = 0 /\ FlushFailures' = 0
      BY <1>0, <1>2, <3>1 DEF LinesOK, AreNumbers, FlushFailures
    <3> QED
      BY <1>0, <3>8, <3>9, <3>10, <3>11 DEF AreNumbers
  <2>2. CASE queue = <<>>
    <3>1. /\ inflight' = inflight \ {line} /\ running' = FALSE
          /\ (IF closed THEN EnterFlush ELSE UNCHANGED <<flush, flushes>>)
          /\ UNCHANGED <<queue, lines>>
      BY <1>1, <2>2 DEF PumpContinues
    <3>2. inflight' = {}
      BY <1>2, <3>1
    <3>3. LinesOK'
      BY <1>0, <1>3, <2>2, <3>1, <3>2 DEF LinesOK
    <3>4. FlushOK'
      <4>1. flushes = 0
        BY <1>0, <1>2 DEF FlushOK
      <4>2. CASE closed
        <5>1. flush' \in {"running", "done"} /\ flushes' = 1
          BY <3>1, <4>1, <4>2 DEF EnterFlush
        <5> QED
          BY <1>0, <1>2, <3>1, <4>2, <5>1 DEF FlushOK
      <4>3. CASE ~closed
        BY <1>0, <1>2, <3>1, <4>1, <4>3 DEF FlushOK
      <4> QED
        BY <4>2, <4>3
    <3>5. Settled = Len(lines) - 1 /\ Settled' = Len(lines)
      BY <1>2, <3>1 DEF Settled
    <3>6. Len(lines) <= counts.accepted /\ FlushFailures = 0 /\ FlushFailures' \in {0, 1}
      BY <1>0, <1>2 DEF LinesOK, AreNumbers, FlushFailures
    <3> QED
      BY <1>0, <3>3, <3>4, <3>5, <3>6 DEF AreNumbers
  <2> QED
    BY <2>1, <2>2
<1>5. CountsOK'
  <2>1. emitted' \in 0..MaxRecords /\ emitted' = emitted
    BY <1>0 DEF CountsOK
  <2>a. PICK a \in Nat, w \in Nat, d \in Nat :
           a = counts.accepted /\ w = counts.written /\ d = counts.dropped
    BY <1>0 DEF AreNumbers
  <2>b. PICK f \in Nat, e \in Nat, s \in Nat, y \in {0, 1} :
           f = counts.failed /\ e = emitted /\ s = Settled /\ y = FlushFailures'
    BY <1>0, <1>4 DEF AreNumbers
  <2>2. Balanced(a, w, d, f, e, s, 0) /\ s + 1 <= a
    BY <1>0, <1>4, <2>a, <2>b DEF CountsOK
  <2>3. Balanced(a, w + 1, d, f, e, s + 1, y) /\ Balanced(a, w, d, f + 1, e, s + 1, y)
    BY <2>2 DEF Balanced
  <2>4. CASE k = "written"
    <3>1. counts'.written = w + 1 /\ counts'.failed = f
      BY <1>3, <2>a, <2>b, <2>4
    <3> QED
      BY <1>3, <1>4, <2>1, <2>a, <2>b, <2>3, <3>1 DEF CountsOK
  <2>5. CASE k = "failed"
    <3>1. counts'.written = w /\ counts'.failed = f + 1
      BY <1>3, <2>a, <2>b, <2>5
    <3> QED
      BY <1>3, <1>4, <2>1, <2>a, <2>b, <2>3, <3>1 DEF CountsOK
  <2> QED
    BY <2>4, <2>5
<1>6. AnswersOK'
  BY <1>0, <1>2, AnswersKept
<1> QED
  BY <1>4, <1>5, <1>6 DEF DeliveryInv

(***************************************************************************)
(* The flush settles, and may be the one failure no emission accounts for. *)
(***************************************************************************)
LEMMA FlushStep ==
    ASSUME DeliveryInv, NEW failed \in BOOLEAN, FlushSettles(failed)
    PROVE  DeliveryInv'
<1>0. /\ AreNumbers /\ LinesOK /\ FlushOK /\ CountsOK /\ AnswersOK
      /\ flush = "running" /\ flush' = "done"
      /\ UNCHANGED <<noop, emitted, queue, running, inflight, lines, closed, flushes, closer>>
  BY Numbers DEF FlushSettles
<1>1. counts \in Counters
  BY <1>0 DEF LinesOK
<1>2. PICK g \in {0, 1} :
        /\ counts' \in Counters /\ counts'.accepted = counts.accepted
        /\ counts'.written = counts.written /\ counts'.dropped = counts.dropped
        /\ counts'.failed = counts.failed + g
  <2>1. CASE failed
    <3>1. Count("failed")
      BY <2>1 DEF FlushSettles
    <3> QED
      BY <1>0, <1>1, <3>1, CountGives DEF AreNumbers
  <2>2. CASE ~failed
    <3>1. counts' = counts
      BY <2>2 DEF FlushSettles
    <3> QED
      BY <1>0, <1>1, <3>1 DEF AreNumbers
  <2> QED
    BY <2>1, <2>2
<1>3. LinesOK'
  BY <1>0, <1>2 DEF LinesOK
<1>4. FlushOK'
  BY <1>0 DEF FlushOK
<1>5. Settled' = Settled /\ FlushFailures = 0 /\ FlushFailures' = 1
  BY <1>0 DEF Settled, FlushFailures
<1>6. CountsOK'
  <2>1. emitted' \in 0..MaxRecords /\ emitted' = emitted
    BY <1>0 DEF CountsOK
  <2>a. PICK a \in Nat, w \in Nat, d \in Nat :
           a = counts.accepted /\ w = counts.written /\ d = counts.dropped
    BY <1>0 DEF AreNumbers
  <2>b. PICK f \in Nat, e \in Nat, s \in Nat :
           f = counts.failed /\ e = emitted /\ s = Settled
    BY <1>0 DEF AreNumbers
  <2>2. Balanced(a, w, d, f, e, s, 0)
    BY <1>0, <1>5, <2>a, <2>b DEF CountsOK
  <2>3. Balanced(a, w, d, f + g, e, s, 1)
    BY <2>2 DEF Balanced
  <2> QED
    BY <1>2, <1>5, <2>1, <2>a, <2>b, <2>3 DEF CountsOK
<1>7. AnswersOK'
  BY <1>0, AnswersKept
<1> QED
  BY <1>3, <1>4, <1>6, <1>7 DEF DeliveryInv

(***************************************************************************)
(* close() is called: it stops admission, and flushes an idle delivery.    *)
(***************************************************************************)
LEMMA CloseStep ==
    ASSUME DeliveryInv, NEW c \in Closers, Close(c) \/ CloseInvalid(c)
    PROVE  DeliveryInv'
<1>0. /\ AreNumbers /\ LinesOK /\ FlushOK /\ CountsOK /\ AnswersOK
      /\ UNCHANGED <<noop, emitted, counts, queue, running, inflight, lines>>
      /\ closer[c] = "new"
  BY Numbers DEF Close, CloseInvalid
<1>1. LinesOK'
  BY <1>0 DEF LinesOK
<1>2. closer' = [closer EXCEPT ![c] = "waiting"] \/ closer' = [closer EXCEPT ![c] = "invalid"]
  BY DEF Close, CloseInvalid
<1>3. FlushOK' /\ (flush # "idle" => flush' = flush)
  <2>1. CASE CloseInvalid(c)
    BY <1>0, <2>1 DEF CloseInvalid, FlushOK
  <2>2. CASE Close(c) /\ ~closed /\ ~running
    <3>1. /\ closed' = TRUE /\ flush = "idle" /\ flushes = 0 /\ noop \in BOOLEAN
          /\ EnterFlush
      BY <1>0, <2>2 DEF Close, FlushOK
    <3>2. flush' \in {"running", "done"} /\ flushes' = 1
      BY <3>1 DEF EnterFlush
    <3> QED
      BY <1>0, <2>2, <3>1, <3>2 DEF FlushOK
  <2>3. CASE Close(c) /\ ~(~closed /\ ~running)
    <3>1. closed' = TRUE /\ UNCHANGED <<flush, flushes>>
      BY <2>3 DEF Close
    <3> QED
      BY <1>0, <3>1 DEF FlushOK
  <2> QED
    BY <2>1, <2>2, <2>3
<1>4. CountsOK'
  <2>1. emitted' \in 0..MaxRecords /\ emitted' = emitted /\ Settled' = Settled
    BY <1>0 DEF CountsOK, Settled
  <2>2. FlushFailures' = FlushFailures \/ (FlushFailures = 0 /\ FlushFailures' = 1)
    BY <1>3 DEF FlushFailures
  <2>a. PICK a \in Nat, w \in Nat, d \in Nat :
           a = counts.accepted /\ w = counts.written /\ d = counts.dropped
    BY <1>0 DEF AreNumbers
  <2>b. PICK f \in Nat, e \in Nat, s \in Nat, x \in {0, 1} :
           f = counts.failed /\ e = emitted /\ s = Settled /\ x = FlushFailures
    BY <1>0 DEF AreNumbers
  <2>3. Balanced(a, w, d, f, e, s, x)
    BY <1>0, <2>a, <2>b DEF CountsOK
  <2>4. x = 0 => Balanced(a, w, d, f, e, s, 1)
    BY <2>3 DEF Balanced
  <2> QED
    BY <1>0, <2>1, <2>2, <2>a, <2>b, <2>3, <2>4 DEF CountsOK
<1>5. AnswersOK'
  <2>1. closer' \in [Closers -> {"new", "waiting"} \cup Results]
    BY <1>0, <1>2 DEF AnswersOK, Results
  <2>2. \A o \in Closers : closer'[o] = "ok" => closer[o] = "ok"
    BY <1>0, <1>2 DEF AnswersOK
  <2>3. OkCloseMeansWritten'
    BY <1>0, <1>3, <2>2 DEF AnswersOK, OkCloseMeansWritten
  <2> QED
    BY <2>1, <2>3 DEF AnswersOK
<1> QED
  BY <1>1, <1>3, <1>4, <1>5 DEF DeliveryInv

(***************************************************************************)
(* close() answers.  It reads the counts behind the flush, when every      *)
(* accepted line has settled: without a failure all of them were written.  *)
(***************************************************************************)
LEMMA AnswerStep ==
    ASSUME DeliveryInv, NEW c \in Closers, Answers(c)
    PROVE  DeliveryInv'
<1>0. /\ AreNumbers /\ LinesOK /\ FlushOK /\ CountsOK /\ AnswersOK
      /\ UNCHANGED <<noop, emitted, counts, queue, running, inflight, lines, closed, flush,
                     flushes>>
  BY Numbers DEF Answers, CloseDrained, CloseTimesOut
<1>1. LinesOK' /\ FlushOK'
  BY <1>0 DEF LinesOK, FlushOK
<1>2. CountsOK'
  BY <1>0 DEF CountsOK, Settled, FlushFailures
<1>3. PICK res \in {"ok", "sink", "flush_timeout"} :
        /\ closer' = [closer EXCEPT ![c] = res]
        /\ res = "ok" => flush = "done" /\ ~(counts.failed > 0)
  BY DEF Answers, CloseDrained, CloseTimesOut
<1>4. res = "ok" => counts.failed = 0 /\ counts.written = counts.accepted /\ flush = "done"
  <2>1. SUFFICES ASSUME res = "ok"
                 PROVE  counts.failed = 0 /\ counts.written = counts.accepted
    BY <1>3
  <2>2. counts.failed = 0 /\ ~running
    BY <1>0, <1>3, <2>1 DEF AreNumbers, FlushOK
  <2>3. Len(queue) = 0 /\ Settled = Len(lines)
    BY <1>0, <2>2 DEF LinesOK, Settled
  <2>4. Settled = counts.accepted
    BY <1>0, <2>3 DEF LinesOK, AreNumbers
  <2>5. Settled - counts.written <= 0 /\ counts.written <= Settled
    BY <1>0, <2>2 DEF CountsOK, Balanced
  <2> QED
    BY <1>0, <2>2, <2>4, <2>5 DEF AreNumbers
<1>5. AnswersOK'
  <2>1. closer' \in [Closers -> {"new", "waiting"} \cup Results]
    BY <1>0, <1>3 DEF AnswersOK, Results
  <2>2. \A o \in Closers : closer'[o] = "ok" => closer[o] = "ok" \/ res = "ok"
    BY <1>0, <1>3 DEF AnswersOK
  <2>3. OkCloseMeansWritten'
    BY <1>0, <1>4, <2>2 DEF AnswersOK, OkCloseMeansWritten
  <2> QED
    BY <2>1, <2>3 DEF AnswersOK
<1> QED
  BY <1>1, <1>2, <1>5 DEF DeliveryInv

-----------------------------------------------------------------------------
(***************************************************************************)
(* The delivery starts empty.                                              *)
(***************************************************************************)
LEMMA DeliveryStarts == Init => DeliveryInv
<1> SUFFICES ASSUME DeliveryInit PROVE DeliveryInv
  BY DEF Init
<1>1. LinesOK
  <2>1. lines \in Seq(Nat) /\ queue \in Seq(Nat) /\ Len(lines) = 0 /\ Len(queue) = 0
    BY DEF DeliveryInit
  <2>2. counts \in Counters /\ counts.accepted = 0 /\ Len(queue) <= Capacity
    BY <2>1, CapacityAssumption DEF DeliveryInit, Counters
  <2>3. /\ \A i \in 1..Len(lines) : lines[i] = i
        /\ \A i \in 1..Len(queue) : queue[i] = Len(lines) + i
    BY <2>1
  <2>4. Len(lines) + Len(queue) = counts.accepted
    BY <2>1, <2>2
  <2>5. running = FALSE /\ inflight = {} /\ queue = <<>>
    BY DEF DeliveryInit
  <2> QED
    BY <2>1, <2>2, <2>3, <2>4, <2>5 DEF LinesOK
<1>2. FlushOK
  BY DEF DeliveryInit, FlushOK
<1>3. CountsOK
  <2>1. Settled = 0 /\ FlushFailures = 0 /\ emitted = 0
    BY DEF DeliveryInit, Settled, FlushFailures
  <2>2. counts.accepted = 0 /\ counts.written = 0 /\ counts.dropped = 0 /\ counts.failed = 0
    BY DEF DeliveryInit
  <2> QED
    BY <2>1, <2>2, MaxRecordsAssumption DEF CountsOK, Balanced
<1>4. AnswersOK
  BY DEF DeliveryInit, AnswersOK, OkCloseMeansWritten
<1> QED
  BY <1>1, <1>2, <1>3, <1>4 DEF DeliveryInv

(***************************************************************************)
(* A step that leaves the delivery alone.                                  *)
(***************************************************************************)
LEMMA DeliveryKept ==
    ASSUME DeliveryInv, UNCHANGED deliveryVars
    PROVE  DeliveryInv'
<1>0. UNCHANGED <<noop, emitted, counts, queue, running, inflight, lines, closed, flush,
                  flushes, closer>>
  BY DEF deliveryVars
<1> QED
  BY <1>0 DEF DeliveryInv, LinesOK, FlushOK, CountsOK, AnswersOK, OkCloseMeansWritten, Settled,
              FlushFailures

(***************************************************************************)
(* Whatever logger, level and fields emit is called with.                  *)
(***************************************************************************)
LEMMA EmitStep ==
    ASSUME DeliveryInv, NEW logger, NEW severity, NEW extra, NEW from,
           emit(logger, severity, extra, from)
    PROVE  DeliveryInv'
<1>1. UNCHANGED deliveryVars \/ EmitClosed \/ EmitFails \/ EmitDropped \/ EmitAccepted
  BY DEF emit, EmitRecord
<1> QED
  BY <1>1, DeliveryKept, RefusedStep, AcceptedStep

(***************************************************************************)
(* The invariant of the delivery holds in every reachable state: whatever  *)
(* bursts, rejected writes and closes interleave.                          *)
(***************************************************************************)
THEOREM LoggerInvariant == Spec => []DeliveryInv
<1>1. ASSUME DeliveryInv, [Next]_vars
      PROVE  DeliveryInv'
  <2>1. CASE UNCHANGED vars
    BY <1>1, <2>1, DeliveryKept DEF vars
  <2>2. CASE Return
    BY <1>1, <2>2, DeliveryKept DEF Return
  <2>3. CASE Derive
    <3>1. UNCHANGED deliveryVars
      BY <2>3 DEF Derive, With, WithScope, WithTrace, WithError, Derived
    <3> QED
      BY <1>1, <3>1, DeliveryKept
  <2>4. CASE \E severity \in Severities, extra \in {NoFields} \cup Bindings :
               Emits(severity, extra)
    BY <1>1, <2>4, EmitStep DEF Emits
  <2>5. CASE NestLogs
    <3>1. PICK logger, severity, extra, from : emit(logger, severity, extra, from)
      BY <2>5 DEF NestLogs, NestWrite
    <3> QED
      BY <1>1, <3>1, EmitStep
  <2>6. CASE SinkWrites \/ SinkRejects
    BY <1>1, <2>6, SettledStep
  <2>7. CASE \E failed \in BOOLEAN : FlushSettles(failed)
    BY <1>1, <2>7, FlushStep
  <2>8. CASE \E c \in Closers : CloseInvalid(c) \/ Close(c) \/ Answers(c)
    BY <1>1, <2>8, CloseStep, AnswerStep
  <2>9. CASE Deliver
    BY <2>6, <2>7, <2>8, <2>9 DEF Deliver, DeliveryStep, SinkSettles
  <2> QED
    BY <1>1, <2>1, <2>2, <2>3, <2>4, <2>5, <2>9 DEF Next, Running
<1> QED
  BY <1>1, DeliveryStarts, PTL DEF Spec

(***************************************************************************)
(* Lines reach the sink once and in order, one at a time, the flush comes  *)
(* once and behind the last of them, and every emission is counted.        *)
(***************************************************************************)
THEOREM QueueCorrect == Spec => []QueueIsSound
<1>1. ASSUME DeliveryInv
      PROVE  QueueIsSound
  <2>0. AreNumbers /\ LinesOK /\ FlushOK /\ CountsOK /\ AnswersOK
    BY <1>1, Numbers
  <2>a. PICK a \in Nat, w \in Nat, d \in Nat :
           a = counts.accepted /\ w = counts.written /\ d = counts.dropped
    BY <2>0 DEF AreNumbers
  <2>b. PICK f \in Nat, e \in Nat, s \in Nat, x \in {0, 1} :
           f = counts.failed /\ e = emitted /\ s = Settled /\ x = FlushFailures
    BY <2>0 DEF AreNumbers
  <2>c. PICK m \in Nat, n \in Nat, q \in Nat : m = MaxRecords /\ n = Len(lines) /\ q = Len(queue)
    BY <2>0 DEF AreNumbers
  <2>1. Balanced(a, w, d, f, e, s, x) /\ e <= m
    BY <2>0, <2>a, <2>b, <2>c DEF CountsOK
  <2>2. Cardinality(inflight) = (IF running THEN 1 ELSE 0) /\ s = n - Cardinality(inflight)
    <3>1. CASE running
      <4>1. inflight = {Len(lines)} /\ s = n - 1
        BY <2>0, <2>b, <2>c, <3>1 DEF LinesOK, Settled
      <4>2. Cardinality(inflight) = 1
        BY <4>1, FS_Singleton
      <4> QED
        BY <3>1, <4>1, <4>2
    <3>2. CASE ~running
      <4>1. inflight = {} /\ s = n
        BY <2>0, <2>b, <2>c, <3>2 DEF LinesOK, Settled
      <4>2. Cardinality(inflight) = 0
        BY <4>1, FS_EmptySet
      <4> QED
        BY <2>c, <3>2, <4>1, <4>2
    <3> QED
      BY <3>1, <3>2
  <2>3. a <= m /\ w <= m /\ d <= m /\ f <= 2 * m + 1
    BY <2>1 DEF Balanced
  <2>4. counts \in Stats
    <3>1. counts.accepted \in 0..MaxRecords /\ counts.written \in 0..MaxRecords
          /\ counts.dropped \in 0..MaxRecords /\ counts.failed \in 0..(2 * MaxRecords + 1)
      BY <2>3, <2>a, <2>b, <2>c
    <3> QED
      BY <2>0, <3>1 DEF LinesOK, Counters, Stats
  <2>5. n + q = a
    BY <2>0, <2>a, <2>c DEF LinesOK
  <2>6. lines \in Seq(1..MaxRecords) /\ queue \in Seq(1..MaxRecords)
    <3>1. \A i \in 1..Len(lines) : lines[i] \in 1..MaxRecords
      BY <2>0, <2>3, <2>5, <2>c DEF LinesOK
    <3>2. \A i \in 1..Len(queue) : queue[i] \in 1..MaxRecords
      BY <2>0, <2>3, <2>5, <2>c DEF LinesOK
    <3>3. lines \in [1..Len(lines) -> 1..MaxRecords]
      BY <2>0, <3>1 DEF LinesOK
    <3>4. queue \in [1..Len(queue) -> 1..MaxRecords]
      BY <2>0, <3>2 DEF LinesOK
    <3> QED
      BY <2>0, <3>3, <3>4 DEF AreNumbers
  <2>7. inflight \subseteq 1..MaxRecords
    BY <2>0, <2>3, <2>5, <2>c DEF LinesOK
  <2>8. TypeOK
    BY <2>0, <2>4, <2>6, <2>7 DEF TypeOK, LinesOK, FlushOK, CountsOK, AnswersOK
  <2>9. LinesInOrder
    <3>1. lines \o queue \in Seq(Nat) /\ Len(lines \o queue) = counts.accepted
      BY <2>0 DEF LinesOK
    <3>2. \A i \in 1..counts.accepted : (lines \o queue)[i] = i
      <4>1. SUFFICES ASSUME NEW i \in 1..a PROVE (lines \o queue)[i] = i
        BY <2>a
      <4>2. CASE i <= n
        BY <2>0, <2>c, <2>5, <4>2 DEF LinesOK
      <4>3. CASE i > n
        <5>1. i - n \in 1..q /\ n + (i - n) = i
          BY <2>5, <4>3
        <5>2. queue[i - n] = i
          BY <2>0, <2>c, <5>1 DEF LinesOK
        <5>3. (lines \o queue)[i] = queue[i - n]
          BY <2>0, <2>c, <2>5, <4>3 DEF LinesOK
        <5> QED
          BY <5>2, <5>3
      <4>4. i <= n \/ i > n
        BY <2>c, <4>1
      <4> QED
        BY <4>2, <4>3, <4>4
    <3>3. PICK r \in Seq(Nat) : r = lines \o queue
      BY <3>1
    <3>4. Len(r) = counts.accepted
      BY <3>1, <3>3
    <3>5. \A i \in 1..counts.accepted : r[i] = i
      BY <3>2, <3>3
    <3>6. r \in [1..Len(r) -> Nat]
      OBVIOUS
    <3>7. r = [i \in 1..counts.accepted |-> i]
      BY <3>4, <3>5, <3>6
    <3> QED
      BY <3>3, <3>7 DEF LinesInOrder
  <2>10. OneWriteAtATime
    BY <2>0, <2>2 DEF OneWriteAtATime, LinesOK
  <2>11. FlushIsLast
    BY <2>0 DEF FlushIsLast, FlushOK, LinesOK
  <2>12. EmissionsAreCounted
    <3>1. s = Len(lines) - Cardinality(inflight)
      BY <2>2, <2>c
    <3>2. a + d + f - (s - w) >= e /\ a + d + f - (s - w) <= e + x
      BY <2>1 DEF Balanced
    <3> QED
      BY <2>a, <2>b, <3>1, <3>2 DEF EmissionsAreCounted, FlushFailures
  <2> QED
    BY <2>8, <2>9, <2>10, <2>11, <2>12 DEF QueueIsSound
<1> QED
  BY <1>1, LoggerInvariant, PTL

(***************************************************************************)
(* A close() that answers ok has every accepted line written, none failed  *)
(* and the sink flushed.                                                   *)
(***************************************************************************)
THEOREM OkCloseCorrect == Spec => []OkCloseMeansWritten
<1>1. DeliveryInv => OkCloseMeansWritten
  BY DEF DeliveryInv, AnswersOK
<1> QED
  BY <1>1, LoggerInvariant, PTL

-----------------------------------------------------------------------------
\* What a derivation or a call of emit may bind.
FieldSets == {NoFields, [context |-> Holding(FALSE, {"context"})]} \cup Bindings
Methods == {"with", "withScope", "withTrace", "withError"}
Derivations == [op : Methods, fields : FieldSets, error : Errors]

Mask(leaves) == {IF x = "secret" THEN "[REDACTED]" ELSE x : x \in leaves}

\* g is what was bound, b, with the snapshot of f over it.
IsMerge(g, b, f) ==
    /\ DOMAIN g = DOMAIN f \cup DOMAIN b
    /\ \A k \in DOMAIN f : g[k].nested = f[k].nested /\ g[k].holds = Mask(f[k].holds)
    /\ \A k \in DOMAIN b : k \notin DOMAIN f => g[k] = b[k]

Same(shown, bound) ==
    /\ shown.nested = bound.nested
    /\ shown.holds \ {"[REDACTED]"} = bound.holds \ {"secret"}

LastBinding(from, i, k) ==
    /\ i \in DOMAIN from
    /\ k \in DOMAIN from[i].fields
    /\ \A j \in DOMAIN from : k \in DOMAIN from[j].fields => j <= i

\* The fields show the last binding of every key of the chain, masked.
FieldsShown(fields, from) ==
    /\ \A i \in DOMAIN from : Supported(from[i].fields)
    /\ DOMAIN fields = UNION {DOMAIN from[i].fields : i \in DOMAIN from}
    /\ \A k \in DOMAIN fields : fields[k].holds \cap Private = {}
    /\ \A k \in DOMAIN fields, i \in DOMAIN from :
          LastBinding(from, i, k) => Same(fields[k], from[i].fields[k])

LastError(from, i) ==
    /\ i \in DOMAIN from
    /\ from[i].op = "withError"
    /\ \A j \in DOMAIN from : from[j].op = "withError" => j <= i

\* The error shown is the projection of the last error of the chain.
ErrorShown(error, from) ==
    \/ error = {} /\ \A i \in DOMAIN from : from[i].op # "withError"
    \/ \E i \in DOMAIN from : LastError(from, i) /\ error = errorProjection(from[i].error)

MarkShown(mark, op, from) == mark # {} <=> \E i \in DOMAIN from : from[i].op = op

LoggerParts == {"fields", "scope", "error", "trace", "bad"}

\* A logger says what its chain of derivations says, unless a field of it was
\* unsupported, which makes it bad.
Faithful(logger, from) ==
    /\ DOMAIN logger = LoggerParts
    /\ from \in Seq(Derivations)
    /\ ~logger.bad => FieldsShown(logger.fields, from)
    /\ ErrorShown(logger.error, from)
    /\ MarkShown(logger.scope, "withScope", from)
    /\ MarkShown(logger.trace, "withTrace", from)

LogInv == Faithful(log, chain) /\ RecordsAreSafe

\* g is f with one derivation more.
Extends(g, f, o) ==
    /\ g \in Seq(Derivations)
    /\ DOMAIN g = DOMAIN f \cup {Len(g)}
    /\ Len(g) \notin DOMAIN f
    /\ g[Len(g)] = o
    /\ Len(g) <= Len(g)
    /\ \A i \in DOMAIN f : g[i] = f[i] /\ i <= Len(g) /\ ~(Len(g) <= i)

(***************************************************************************)
(* Appending a derivation to a chain.                                      *)
(***************************************************************************)
LEMMA AppendExtends ==
    ASSUME NEW f \in Seq(Derivations), NEW o \in Derivations
    PROVE  Extends(Append(f, o), f, o)
<1>0. Len(f) \in Nat
  OBVIOUS
<1>1. PICK n \in Nat : n = Len(f)
  BY <1>0
<1>2a. Append(f, o) \in Seq(Derivations)
  OBVIOUS
<1>2. PICK g \in Seq(Derivations) : g = Append(f, o)
  BY <1>2a
<1>3. Len(g) = n + 1 /\ g[n + 1] = o /\ \A i \in 1..n : g[i] = f[i]
  BY <1>1, <1>2
<1>4. DOMAIN f = 1..n /\ DOMAIN g = 1..(n + 1)
  BY <1>1, <1>3
<1>5. 1..(n + 1) = (1..n) \cup {n + 1} /\ n + 1 \notin 1..n /\ n + 1 <= n + 1
  OBVIOUS
<1>6. \A i \in 1..n : i <= n + 1 /\ ~(n + 1 <= i)
  OBVIOUS
<1>7. Extends(g, f, o)
  BY <1>3, <1>4, <1>5, <1>6 DEF Extends
<1> QED
  BY <1>2, <1>7

(***************************************************************************)
(* What may be bound is a nesting and its leaves.                          *)
(***************************************************************************)
LEMMA FieldSetsHold ==
    ASSUME NEW f \in FieldSets, NEW k \in DOMAIN f
    PROVE  /\ f[k] \in [nested : BOOLEAN, holds : SUBSET {"plain", "secret", "foreign", "context"}]
           /\ f[k] = [nested |-> f[k].nested, holds |-> f[k].holds]
<1> DEFINE Values == [nested : BOOLEAN, holds : SUBSET {"plain", "secret", "foreign", "context"}]
<1>1. f = NoFields \/ f = [context |-> Holding(FALSE, {"context"})] \/ f \in Bindings
  BY DEF FieldSets
<1>2. CASE f = NoFields
  BY <1>2 DEF NoFields
<1>3. CASE f = [context |-> Holding(FALSE, {"context"})]
  <2>1. PICK v : v = Holding(FALSE, {"context"})
    OBVIOUS
  <2>2. f = [context |-> v]
    BY <1>3, <2>1
  <2>3. f[k] = v
    BY <2>2
  <2>4. v = [nested |-> FALSE, holds |-> {"context"}]
    BY <2>1 DEF Holding
  <2>5. v \in Values /\ v = [nested |-> v.nested, holds |-> v.holds]
    BY <2>4
  <2> QED
    BY <2>3, <2>5
<1>4. CASE f \in Bindings
  <2>1. PICK v \in {Plain, Wrapped, Foreign} : f = [key |-> v]
    BY <1>4 DEF Bindings
  <2>2. f[k] = v
    BY <2>1
  <2>3. v \in Values /\ v = [nested |-> v.nested, holds |-> v.holds]
    <3>1. CASE v = Plain
      BY <3>1 DEF Plain, Holding
    <3>2. CASE v = Wrapped
      BY <3>2 DEF Wrapped, Holding
    <3>3. CASE v = Foreign
      BY <3>3 DEF Foreign, Holding
    <3> QED
      BY <2>1, <3>1, <3>2, <3>3
  <2> QED
    BY <2>2, <2>3
<1> QED
  BY <1>1, <1>2, <1>3, <1>4

(***************************************************************************)
(* What a merge of bound fields gives.                                     *)
(***************************************************************************)
LEMMA MergeGives ==
    ASSUME NEW b, NEW f \in FieldSets
    PROVE  IsMerge(Merge(b, f), b, f)
<1>1. PICK s : s = snapshot(f)
  OBVIOUS
<1>2. DOMAIN s = DOMAIN f
  BY <1>1 DEF snapshot
<1>3. ASSUME NEW k \in DOMAIN f
      PROVE  s[k].nested = f[k].nested /\ s[k].holds = Mask(f[k].holds)
  <2>1. PICK v \in [nested : BOOLEAN, holds : SUBSET {"plain", "secret", "foreign", "context"}] :
           v = f[k]
    BY <1>3, FieldSetsHold
  <2>2. s[k] = [v EXCEPT !.holds = Mask(v.holds)]
    BY <1>1, <1>3, <2>1 DEF snapshot, Mask
  <2>3. [v EXCEPT !.holds = Mask(v.holds)].nested = v.nested
    OBVIOUS
  <2>4. [v EXCEPT !.holds = Mask(v.holds)].holds = Mask(v.holds)
    OBVIOUS
  <2> QED
    BY <2>1, <2>2, <2>3, <2>4
<1>4. PICK g : g = Merge(b, f)
  OBVIOUS
<1>5. DOMAIN g = DOMAIN f \cup DOMAIN b
  BY <1>4 DEF Merge
<1>6. \A k \in DOMAIN g : g[k] = IF k \in DOMAIN f THEN s[k] ELSE b[k]
  BY <1>1, <1>4 DEF Merge
<1>7. IsMerge(g, b, f)
  BY <1>2, <1>3, <1>5, <1>6 DEF IsMerge
<1> QED
  BY <1>4, <1>7

(***************************************************************************)
(* Masked leaves of a supported value are not private, and say the same.   *)
(***************************************************************************)
LEMMA MaskHides ==
    ASSUME NEW h \in SUBSET {"plain", "secret", "foreign", "context"}, "foreign" \notin h
    PROVE  Mask(h) \cap Private = {} /\ Mask(h) \ {"[REDACTED]"} = h \ {"secret"}
<1>1. \A x \in Mask(h) : x = "[REDACTED]" \/ (x \in h /\ x # "secret")
  BY DEF Mask
<1>2. \A x \in Mask(h) : x \in {"[REDACTED]", "plain", "context"}
  BY <1>1
<1>3. Mask(h) \cap Private = {}
  BY <1>2 DEF Private
<1>4. \A x \in h : x # "secret" => x \in Mask(h) /\ x # "[REDACTED]"
  BY DEF Mask
<1>5. Mask(h) \ {"[REDACTED]"} = h \ {"secret"}
  BY <1>1, <1>4
<1> QED
  BY <1>3, <1>5

(***************************************************************************)
(* A derivation merges its fields over the bound ones: they then show the  *)
(* last binding of the longer chain.                                       *)
(***************************************************************************)
LEMMA FieldsExtend ==
    ASSUME NEW from, NEW fields, FieldsShown(fields, from),
           NEW o \in Derivations, Supported(o.fields),
           NEW longer, Extends(longer, from, o), NEW g, IsMerge(g, fields, o.fields)
    PROVE  FieldsShown(g, longer)
<1>1. o.fields \in FieldSets
  BY DEF Derivations
<1>2. PICK n : n = Len(longer)
  OBVIOUS
<1>3. /\ DOMAIN longer = DOMAIN from \cup {n} /\ n \notin DOMAIN from /\ longer[n] = o
      /\ \A i \in DOMAIN from : longer[i] = from[i] /\ ~(n <= i)
  BY <1>2 DEF Extends
<1>4. \A i \in DOMAIN longer : Supported(longer[i].fields)
  BY <1>3 DEF FieldsShown
<1>5. DOMAIN g = UNION {DOMAIN longer[i].fields : i \in DOMAIN longer}
  <2>1. DOMAIN g = DOMAIN o.fields \cup UNION {DOMAIN from[i].fields : i \in DOMAIN from}
    BY DEF IsMerge, FieldsShown
  <2> QED
    BY <1>3, <2>1
<1>6. ASSUME NEW k \in DOMAIN o.fields
      PROVE  g[k].holds \cap Private = {} /\ Same(g[k], o.fields[k])
  <2>1. PICK h \in SUBSET {"plain", "secret", "foreign", "context"} : h = o.fields[k].holds
    BY <1>1, <1>6, FieldSetsHold
  <2>2. "foreign" \notin h
    BY <1>6, <2>1 DEF Supported
  <2>3. g[k].nested = o.fields[k].nested /\ g[k].holds = Mask(h)
    BY <1>6, <2>1 DEF IsMerge
  <2> QED
    BY <2>1, <2>2, <2>3, MaskHides DEF Same
<1>7. ASSUME NEW k \in DOMAIN g, k \notin DOMAIN o.fields
      PROVE  k \in DOMAIN fields /\ g[k] = fields[k]
  BY <1>7 DEF IsMerge
<1>8. \A k \in DOMAIN g : g[k].holds \cap Private = {}
  BY <1>6, <1>7 DEF FieldsShown
<1>9. ASSUME NEW k \in DOMAIN g, NEW i \in DOMAIN longer, LastBinding(longer, i, k)
      PROVE  Same(g[k], longer[i].fields[k])
  <2>1. CASE i = n
    <3>1. k \in DOMAIN o.fields /\ longer[i] = o
      BY <1>3, <1>9, <2>1 DEF LastBinding
    <3> QED
      BY <1>6, <3>1
  <2>2. CASE i # n
    <3>1. i \in DOMAIN from /\ longer[i] = from[i] /\ ~(n <= i)
      BY <1>3, <2>2
    <3>2. k \notin DOMAIN o.fields
      BY <1>3, <1>9, <3>1 DEF LastBinding
    <3>3. LastBinding(from, i, k)
      BY <1>3, <1>9, <3>1 DEF LastBinding
    <3>4. k \in DOMAIN fields /\ g[k] = fields[k]
      BY <1>7, <3>2
    <3> QED
      BY <3>1, <3>3, <3>4 DEF FieldsShown
  <2> QED
    BY <2>1, <2>2
<1> QED
  BY <1>4, <1>5, <1>8, <1>9 DEF FieldsShown

(***************************************************************************)
(* The error shown stays that of the last error of the chain.              *)
(***************************************************************************)
LEMMA ErrorExtends ==
    ASSUME NEW from, NEW error, ErrorShown(error, from), NEW o,
           NEW longer, Extends(longer, from, o)
    PROVE  /\ o.op # "withError" => ErrorShown(error, longer)
           /\ o.op = "withError" => ErrorShown(errorProjection(o.error), longer)
<1>2. PICK n : n = Len(longer)
  OBVIOUS
<1>3. /\ DOMAIN longer = DOMAIN from \cup {n} /\ n \notin DOMAIN from /\ longer[n] = o
      /\ \A i \in DOMAIN from : longer[i] = from[i] /\ i <= n
      /\ n <= n
  BY <1>2 DEF Extends
<1>4. ASSUME o.op = "withError"
      PROVE  ErrorShown(errorProjection(o.error), longer)
  <2>1. n \in DOMAIN longer /\ LastError(longer, n)
    BY <1>3, <1>4 DEF LastError
  <2>2. errorProjection(o.error) = errorProjection(longer[n].error)
    BY <1>3
  <2> QED
    BY <2>1, <2>2 DEF ErrorShown
<1>5. ASSUME o.op # "withError"
      PROVE  ErrorShown(error, longer)
  <2>1. CASE error = {} /\ \A i \in DOMAIN from : from[i].op # "withError"
    BY <1>3, <1>5, <2>1 DEF ErrorShown
  <2>2. ASSUME NEW i \in DOMAIN from, LastError(from, i),
               error = errorProjection(from[i].error)
        PROVE  ErrorShown(error, longer)
    <3>1. i \in DOMAIN longer /\ longer[i] = from[i]
      BY <1>3
    <3>2. LastError(longer, i)
      BY <1>3, <1>5, <2>2, <3>1 DEF LastError
    <3> QED
      BY <2>2, <3>1, <3>2 DEF ErrorShown
  <2> QED
    BY <2>1, <2>2 DEF ErrorShown
<1> QED
  BY <1>4, <1>5

(***************************************************************************)
(* A mark is shown from the derivation that sets it on.                    *)
(***************************************************************************)
LEMMA MarkExtends ==
    ASSUME NEW from, NEW mark, NEW op, MarkShown(mark, op, from), NEW o,
           NEW longer, Extends(longer, from, o)
    PROVE  /\ o.op # op => MarkShown(mark, op, longer)
           /\ o.op = op => \A set : set # {} => MarkShown(set, op, longer)
<1>2. PICK n : n = Len(longer)
  OBVIOUS
<1>3. /\ DOMAIN longer = DOMAIN from \cup {n} /\ n \notin DOMAIN from /\ longer[n] = o
      /\ \A i \in DOMAIN from : longer[i] = from[i]
  BY <1>2 DEF Extends
<1> QED
  BY <1>3 DEF MarkShown

(***************************************************************************)
(* The projection of an error shows none of its private parts.             *)
(***************************************************************************)
LEMMA ProjectionHides ==
    ASSUME NEW e \in Errors, NEW p \in errorProjection(e)
    PROVE  ({p.kind, p.public.kind, p.public.message} \cup p.type \cup p.public.shown)
              \cap Private = {}
<1>0. /\ p.kind = (IF e.trusted THEN e.kind ELSE "internal")
      /\ p.type = e.public \cap {"type"} /\ p.public = publicInfo(e)
  BY DEF errorProjection
<1>1. CASE e = Undefined
  BY <1>1 DEF errorProjection
<1>2. CASE e = Error(FALSE, "foreign", "foreign message", {}, {"cause"})
  <2>1. e.trusted = FALSE /\ e.public = {}
    BY <1>2 DEF Error
  <2>2. p.kind = "internal" /\ p.type = {}
    BY <1>0, <2>1
  <2>3. p.public = [kind |-> "internal", message |-> "internal error", shown |-> {}]
    BY <1>0, <2>1 DEF publicInfo
  <2>4. PICK q : q = p.public
    OBVIOUS
  <2>5. q = [kind |-> "internal", message |-> "internal error", shown |-> {}]
    BY <2>3, <2>4
  <2>6. q.kind = "internal" /\ q.message = "internal error" /\ q.shown = {}
    BY <2>5
  <2>7. p.public.kind = "internal" /\ p.public.message = "internal error" /\ p.public.shown = {}
    BY <2>4, <2>6
  <2> QED
    BY <2>2, <2>7 DEF Private
<1>3. CASE e = Error(TRUE, "internal", "internal message", {"type"}, {"cause", "details"})
  <2>1. e.trusted = TRUE /\ e.kind = "internal" /\ e.public = {"type"}
    BY <1>3 DEF Error
  <2>2. p.kind = "internal" /\ p.type = {"type"}
    BY <1>0, <2>1
  <2>3. p.public = [kind |-> "internal", message |-> "internal error", shown |-> {}]
    BY <1>0, <2>1 DEF publicInfo
  <2>4. PICK q : q = p.public
    OBVIOUS
  <2>5. q = [kind |-> "internal", message |-> "internal error", shown |-> {}]
    BY <2>3, <2>4
  <2>6. q.kind = "internal" /\ q.message = "internal error" /\ q.shown = {}
    BY <2>5
  <2>7. p.public.kind = "internal" /\ p.public.message = "internal error" /\ p.public.shown = {}
    BY <2>4, <2>6
  <2> QED
    BY <2>2, <2>7 DEF Private
<1>4. CASE e = Error(TRUE, "conflict", "public message", {"type", "fields"}, {"cause"})
  <2>1. /\ e.trusted = TRUE /\ e.kind = "conflict" /\ e.public = {"type", "fields"}
        /\ e.message = "public message"
    BY <1>4 DEF Error
  <2>2. p.kind = "conflict" /\ p.type = {"type"}
    BY <1>0, <2>1
  <2>3. p.public = [kind |-> "conflict", message |-> "public message",
                    shown |-> {"type", "fields"}]
    BY <1>0, <2>1 DEF publicInfo
  <2>4. PICK q : q = p.public
    OBVIOUS
  <2>5. q = [kind |-> "conflict", message |-> "public message", shown |-> {"type", "fields"}]
    BY <2>3, <2>4
  <2>6. q.kind = "conflict" /\ q.message = "public message" /\ q.shown = {"type", "fields"}
    BY <2>5
  <2>7. /\ p.public.kind = "conflict" /\ p.public.message = "public message"
        /\ p.public.shown = {"type", "fields"}
    BY <2>4, <2>6
  <2> QED
    BY <2>2, <2>7 DEF Private
<1> QED
  BY <1>1, <1>2, <1>3, <1>4 DEF Errors

(***************************************************************************)
(* A record is safe when its parts show its chain.                         *)
(***************************************************************************)
LEMMA ShownIsSafe ==
    ASSUME NEW r, r.from \in Seq(Derivations), rank[r.level] >= rank[Threshold],
           FieldsShown(r.fields, r.from), ErrorShown(r.error, r.from),
           MarkShown(r.scope, "withScope", r.from), MarkShown(r.trace, "withTrace", r.from)
    PROVE  IsSafe(r)
<1>0. PICK from \in Seq(Derivations) : from = r.from
  OBVIOUS
<1>1. \A i \in DOMAIN from : from[i] \in Derivations
  OBVIOUS
<1>2. \A i \in DOMAIN from, j \in DOMAIN from : i <= j /\ j <= i => i = j
  <2>1. DOMAIN from \subseteq Int
    OBVIOUS
  <2> QED
    BY <2>1
<1>3. r.error = UNION {errorProjection(o.error) :
                         o \in LastOf(from, LAMBDA o : o.op = "withError")}
  <2>1. CASE r.error = {} /\ \A i \in DOMAIN from : from[i].op # "withError"
    <3>1. LastOf(from, LAMBDA o : o.op = "withError") = {}
      BY <2>1 DEF LastOf
    <3> QED
      BY <2>1, <3>1
  <2>2. ASSUME NEW i \in DOMAIN from, LastError(from, i),
               r.error = errorProjection(from[i].error)
        PROVE  r.error = UNION {errorProjection(o.error) :
                                  o \in LastOf(from, LAMBDA o : o.op = "withError")}
    <3>1. LastOf(from, LAMBDA o : o.op = "withError") = {from[i]}
      BY <1>2, <2>2 DEF LastOf, LastError
    <3> QED
      BY <2>2, <3>1
  <2> QED
    BY <1>0, <2>1, <2>2 DEF ErrorShown
<1>4. \A p \in r.error :
        ({p.kind, p.public.kind, p.public.message} \cup p.type \cup p.public.shown)
           \cap Private = {}
  <2>1. r.error = {} \/ \E i \in DOMAIN from : r.error = errorProjection(from[i].error)
    BY <1>0 DEF ErrorShown
  <2>2. \A i \in DOMAIN from : from[i].error \in Errors
    BY <1>1 DEF Derivations
  <2> QED
    BY <2>1, <2>2, ProjectionHides
<1>5. Leaves(r) \cap Private = {}
  <2>1. \A k \in DOMAIN r.fields : r.fields[k].holds \cap Private = {}
    BY DEF FieldsShown
  <2>2. ASSUME NEW x \in Leaves(r)
        PROVE  x \notin Private
    <3> DEFINE A == {r.fields[k].holds : k \in DOMAIN r.fields}
    <3> DEFINE B == {{e.kind, e.public.kind, e.public.message} \cup e.type \cup e.public.shown
                        : e \in r.error}
    <3>1. Leaves(r) = (UNION A) \cup (UNION B)
      BY DEF Leaves
    <3>2. \A a \in A : a \cap Private = {}
      BY <2>1
    <3>3. \A b \in B : b \cap Private = {}
      BY <1>4
    <3> HIDE DEF A, B
    <3> QED
      BY <2>2, <3>1, <3>2, <3>3
  <2> QED
    BY <2>2
<1>6. ASSUME NEW k \in DOMAIN r.fields,
             NEW op \in LastOf(r.from, LAMBDA o : k \in DOMAIN o.fields)
      PROVE  Same(r.fields[k], op.fields[k])
  <2>1. PICK i \in DOMAIN from : LastBinding(from, i, k) /\ op = from[i]
    BY <1>0, <1>6 DEF LastOf, LastBinding
  <2> QED
    BY <1>0, <2>1 DEF FieldsShown
<1> QED
  BY <1>0, <1>3, <1>5, <1>6 DEF IsSafe, FieldsShown, MarkShown, Same

(***************************************************************************)
(* emit on a faithful logger that is not bad hands over a safe record.     *)
(***************************************************************************)
LEMMA EmittedIsSafe ==
    ASSUME NEW logger, NEW severity \in DOMAIN rank, NEW extra \in FieldSets, NEW from,
           Faithful(logger, from), emit(logger, severity, extra, from)
    PROVE  RecordsAreSafe'
<1>1. CASE record' = {}
  BY <1>1 DEF RecordsAreSafe
<1>2. CASE record' # {}
  <2>1. /\ ~logger.bad /\ Supported(extra) /\ ~(rank[severity] < rank[Threshold])
        /\ record' = {Record(logger, severity, extra, from)}
    BY <1>2 DEF emit, EmitRecord, Filtered
  <2>2. PICK o : o = Op("with", extra, Undefined)
    OBVIOUS
  <2>3. o \in Derivations /\ o.fields = extra /\ o.op = "with"
    BY <2>2 DEF Op, Derivations, Methods, Errors
  <2>4. PICK longer : longer = Append(from, o)
    OBVIOUS
  <2>5. Extends(longer, from, o)
    BY <2>3, <2>4, AppendExtends DEF Faithful
  <2>6. PICK g : g = Merge(logger.fields, extra)
    OBVIOUS
  <2>7. IsMerge(g, logger.fields, extra)
    BY <2>6, MergeGives
  <2>8. FieldsShown(g, longer)
    BY <2>1, <2>3, <2>5, <2>7, FieldsExtend DEF Faithful
  <2>9. ErrorShown(logger.error, longer)
    BY <2>3, <2>5, ErrorExtends DEF Faithful
  <2>10. MarkShown(logger.scope, "withScope", longer)
    BY <2>3, <2>5, MarkExtends DEF Faithful
  <2>11. MarkShown(logger.trace, "withTrace", longer)
    BY <2>3, <2>5, MarkExtends DEF Faithful
  <2>12. PICK r : r = Record(logger, severity, extra, from)
    OBVIOUS
  <2>13. /\ r.fields = g /\ r.from = longer /\ r.error = logger.error
         /\ r.scope = logger.scope /\ r.trace = logger.trace /\ r.level = severity
    BY <2>2, <2>4, <2>6, <2>12 DEF Record
  <2>14. rank[severity] \in Nat /\ rank[Threshold] \in Nat
    BY ThresholdAssumption DEF rank
  <2>15. rank[r.level] >= rank[Threshold]
    BY <2>1, <2>13, <2>14
  <2>16. IsSafe(r)
    BY <2>5, <2>8, <2>9, <2>10, <2>11, <2>13, <2>15, ShownIsSafe DEF Extends
  <2> QED
    BY <2>1, <2>12, <2>16 DEF RecordsAreSafe
<1> QED
  BY <1>1, <1>2

(***************************************************************************)
(* The root logger shows nothing, and nothing led to it.                   *)
(***************************************************************************)
LEMMA RootIsFaithful == Faithful(RootLogger, <<>>)
<1>1. <<>> \in Seq(Derivations) /\ DOMAIN <<>> = {}
  OBVIOUS
<1>2. PICK logger : logger = RootLogger
  OBVIOUS
<1>3. /\ DOMAIN logger = LoggerParts /\ logger.fields = NoFields /\ logger.error = {}
      /\ logger.scope = {} /\ logger.trace = {}
  BY <1>2 DEF RootLogger, LoggerParts
<1>4. DOMAIN NoFields = {}
  BY DEF NoFields
<1>5. FieldsShown(NoFields, <<>>)
  BY <1>1, <1>4 DEF FieldsShown
<1>6. ErrorShown({}, <<>>) /\ MarkShown({}, "withScope", <<>>) /\ MarkShown({}, "withTrace", <<>>)
  BY <1>1 DEF ErrorShown, MarkShown
<1>7. Faithful(logger, <<>>)
  BY <1>1, <1>3, <1>5, <1>6 DEF Faithful
<1> QED
  BY <1>2, <1>7

\* One more derivation by a method that binds no fields.
NextPart(next, logger, part, value) ==
    /\ DOMAIN next = LoggerParts
    /\ next[part] = value
    /\ \A p \in LoggerParts : p # part => next[p] = logger[p]

(***************************************************************************)
(* Changing one part of a logger leaves the others.                        *)
(***************************************************************************)
LEMMA PartChanges ==
    ASSUME NEW logger, DOMAIN logger = LoggerParts, NEW part \in LoggerParts, NEW value
    PROVE  NextPart([logger EXCEPT ![part] = value], logger, part, value)
BY DEF NextPart

(***************************************************************************)
(* with: the fields are merged, or the logger is bad from then on.         *)
(***************************************************************************)
LEMMA WithIsFaithful ==
    ASSUME NEW logger, NEW from, Faithful(logger, from), NEW fields \in FieldSets
    PROVE  Faithful(IF Supported(fields)
                    THEN [logger EXCEPT !.fields = Merge(@, fields)]
                    ELSE [logger EXCEPT !.bad = TRUE],
                    Append(from, Op("with", fields, Undefined)))
<1>1. PICK o : o = Op("with", fields, Undefined)
  OBVIOUS
<1>2. o \in Derivations /\ o.fields = fields /\ o.op = "with"
  BY <1>1 DEF Op, Derivations, Methods, Errors
<1>3. PICK longer : longer = Append(from, o)
  OBVIOUS
<1>4. Extends(longer, from, o)
  BY <1>2, <1>3, AppendExtends DEF Faithful
<1>5. longer \in Seq(Derivations)
  BY <1>4 DEF Extends
<1>6. /\ ErrorShown(logger.error, longer) /\ MarkShown(logger.scope, "withScope", longer)
      /\ MarkShown(logger.trace, "withTrace", longer)
  BY <1>2, <1>4, ErrorExtends, MarkExtends DEF Faithful
<1>7. CASE Supported(fields)
  <2>1. PICK g : g = Merge(logger.fields, fields)
    OBVIOUS
  <2>2. IsMerge(g, logger.fields, fields)
    BY <2>1, MergeGives
  <2>3. PICK next : next = [logger EXCEPT !.fields = g]
    OBVIOUS
  <2>4. NextPart(next, logger, "fields", g)
    BY <2>3, PartChanges DEF Faithful, LoggerParts
  <2>5. ~logger.bad => FieldsShown(g, longer)
    BY <1>2, <1>4, <1>7, <2>2, FieldsExtend DEF Faithful
  <2>6. /\ DOMAIN next = LoggerParts /\ next.fields = g /\ next.error = logger.error
        /\ next.scope = logger.scope /\ next.trace = logger.trace /\ next.bad = logger.bad
    BY <2>4 DEF NextPart, LoggerParts
  <2>7. Faithful(next, longer)
    BY <1>5, <1>6, <2>5, <2>6 DEF Faithful
  <2> QED
    BY <1>1, <1>3, <1>7, <2>1, <2>3, <2>7
<1>8. CASE ~Supported(fields)
  <2>1. PICK next : next = [logger EXCEPT !.bad = TRUE]
    OBVIOUS
  <2>2. NextPart(next, logger, "bad", TRUE)
    BY <2>1, PartChanges DEF Faithful, LoggerParts
  <2>3. /\ DOMAIN next = LoggerParts /\ next.bad = TRUE /\ next.error = logger.error
        /\ next.scope = logger.scope /\ next.trace = logger.trace
    BY <2>2 DEF NextPart, LoggerParts
  <2>4. Faithful(next, longer)
    BY <1>5, <1>6, <2>3 DEF Faithful
  <2> QED
    BY <1>1, <1>3, <1>8, <2>1, <2>4
<1> QED
  BY <1>7, <1>8

(***************************************************************************)
(* withScope, withTrace and withError set their part and bind no field.    *)
(***************************************************************************)
LEMMA PartIsFaithful ==
    ASSUME NEW logger, NEW from, Faithful(logger, from), NEW e \in Errors
    PROVE  /\ Faithful([logger EXCEPT !.scope = {"scope"}],
                       Append(from, Op("withScope", NoFields, Undefined)))
           /\ Faithful([logger EXCEPT !.trace = {"trace"}],
                       Append(from, Op("withTrace", NoFields, Undefined)))
           /\ Faithful([logger EXCEPT !.error = errorProjection(e)],
                       Append(from, Op("withError", NoFields, e)))
<1>1. ASSUME NEW o \in Derivations, o.fields = NoFields, NEW longer, longer = Append(from, o)
      PROVE  /\ Extends(longer, from, o) /\ longer \in Seq(Derivations)
             /\ ~logger.bad => FieldsShown(logger.fields, longer)
  <2>1. Extends(longer, from, o)
    BY <1>1, AppendExtends DEF Faithful
  <2>2. DOMAIN o.fields = {} /\ Supported(o.fields)
    BY <1>1 DEF NoFields, Supported
  <2>3. IsMerge(logger.fields, logger.fields, o.fields)
    BY <2>2 DEF IsMerge
  <2> QED
    BY <2>1, <2>2, <2>3, FieldsExtend DEF Faithful, Extends
<1>2. Undefined \in Errors /\ NoFields \in FieldSets
  BY DEF Errors, FieldSets
<1>3. Faithful([logger EXCEPT !.scope = {"scope"}],
               Append(from, Op("withScope", NoFields, Undefined)))
  <2>1. PICK o, longer : o = Op("withScope", NoFields, Undefined) /\ longer = Append(from, o)
    OBVIOUS
  <2>2. o \in Derivations /\ o.fields = NoFields /\ o.op = "withScope"
    BY <1>2, <2>1 DEF Op, Derivations, Methods
  <2>3. /\ Extends(longer, from, o) /\ longer \in Seq(Derivations)
        /\ ~logger.bad => FieldsShown(logger.fields, longer)
    BY <1>1, <2>1, <2>2
  <2>4. PICK next : next = [logger EXCEPT !.scope = {"scope"}]
    OBVIOUS
  <2>5. NextPart(next, logger, "scope", {"scope"})
    BY <2>4, PartChanges DEF Faithful, LoggerParts
  <2>6. /\ DOMAIN next = LoggerParts /\ next.fields = logger.fields /\ next.error = logger.error
        /\ next.scope = {"scope"} /\ next.trace = logger.trace /\ next.bad = logger.bad
    BY <2>5 DEF NextPart, LoggerParts
  <2>7. ErrorShown(logger.error, longer) /\ MarkShown(logger.trace, "withTrace", longer)
    BY <2>2, <2>3, ErrorExtends, MarkExtends DEF Faithful
  <2>8. MarkShown({"scope"}, "withScope", longer)
    BY <2>2, <2>3, MarkExtends DEF Faithful
  <2>9. Faithful(next, longer)
    BY <2>3, <2>6, <2>7, <2>8 DEF Faithful
  <2> QED
    BY <2>1, <2>4, <2>9
<1>4. Faithful([logger EXCEPT !.trace = {"trace"}],
               Append(from, Op("withTrace", NoFields, Undefined)))
  <2>1. PICK o, longer : o = Op("withTrace", NoFields, Undefined) /\ longer = Append(from, o)
    OBVIOUS
  <2>2. o \in Derivations /\ o.fields = NoFields /\ o.op = "withTrace"
    BY <1>2, <2>1 DEF Op, Derivations, Methods
  <2>3. /\ Extends(longer, from, o) /\ longer \in Seq(Derivations)
        /\ ~logger.bad => FieldsShown(logger.fields, longer)
    BY <1>1, <2>1, <2>2
  <2>4. PICK next : next = [logger EXCEPT !.trace = {"trace"}]
    OBVIOUS
  <2>5. NextPart(next, logger, "trace", {"trace"})
    BY <2>4, PartChanges DEF Faithful, LoggerParts
  <2>6. /\ DOMAIN next = LoggerParts /\ next.fields = logger.fields /\ next.error = logger.error
        /\ next.trace = {"trace"} /\ next.scope = logger.scope /\ next.bad = logger.bad
    BY <2>5 DEF NextPart, LoggerParts
  <2>7. ErrorShown(logger.error, longer) /\ MarkShown(logger.scope, "withScope", longer)
    BY <2>2, <2>3, ErrorExtends, MarkExtends DEF Faithful
  <2>8. MarkShown({"trace"}, "withTrace", longer)
    BY <2>2, <2>3, MarkExtends DEF Faithful
  <2>9. Faithful(next, longer)
    BY <2>3, <2>6, <2>7, <2>8 DEF Faithful
  <2> QED
    BY <2>1, <2>4, <2>9
<1>5. Faithful([logger EXCEPT !.error = errorProjection(e)],
               Append(from, Op("withError", NoFields, e)))
  <2>1. PICK o, longer : o = Op("withError", NoFields, e) /\ longer = Append(from, o)
    OBVIOUS
  <2>2. o \in Derivations /\ o.fields = NoFields /\ o.op = "withError" /\ o.error = e
    BY <1>2, <2>1 DEF Op, Derivations, Methods
  <2>3. /\ Extends(longer, from, o) /\ longer \in Seq(Derivations)
        /\ ~logger.bad => FieldsShown(logger.fields, longer)
    BY <1>1, <2>1, <2>2
  <2>4. PICK next, p : next = [logger EXCEPT !.error = p] /\ p = errorProjection(e)
    OBVIOUS
  <2>5. NextPart(next, logger, "error", p)
    BY <2>4, PartChanges DEF Faithful, LoggerParts
  <2>6. /\ DOMAIN next = LoggerParts /\ next.fields = logger.fields /\ next.error = p
        /\ next.trace = logger.trace /\ next.scope = logger.scope /\ next.bad = logger.bad
    BY <2>5 DEF NextPart, LoggerParts
  <2>7. MarkShown(logger.trace, "withTrace", longer) /\ MarkShown(logger.scope, "withScope", longer)
    BY <2>2, <2>3, MarkExtends DEF Faithful
  <2>8. ErrorShown(p, longer)
    BY <2>2, <2>3, <2>4, ErrorExtends DEF Faithful
  <2>9. Faithful(next, longer)
    BY <2>3, <2>6, <2>7, <2>8 DEF Faithful
  <2> QED
    BY <2>1, <2>4, <2>9
<1> QED
  BY <1>3, <1>4, <1>5

(***************************************************************************)
(* NestLogger calls emit on a logger that shows one error at most.         *)
(***************************************************************************)
LEMMA NestIsSafe ==
    ASSUME NestLogs
    PROVE  RecordsAreSafe' /\ UNCHANGED <<log, chain>>
<1>1. PICK error \in Errors, severity \in DOMAIN rank, params \in {<<>>, <<"context">>} :
        NestWrite(severity, error, params)
  <2>1. Severities \subseteq DOMAIN rank /\ "error" \in DOMAIN rank
    BY ThresholdAssumption DEF rank
  <2>2. \A params \in {<<"stack">>, <<"stack", "context">>} :
           (IF Len(params) > 1 THEN <<Last(params)>> ELSE <<>>) \in {<<>>, <<"context">>}
    <3>1. Len(<<"stack">>) = 1 /\ Len(<<"stack", "context">>) = 2
      OBVIOUS
    <3>2. Last(<<"stack", "context">>) = "context"
      BY DEF Last
    <3>3. ~(1 > 1) /\ 2 > 1
      OBVIOUS
    <3> QED
      BY <3>1, <3>2, <3>3
  <2> QED
    BY <2>1, <2>2 DEF NestLogs
<1>2. PICK extra : extra = Context(params)
  OBVIOUS
<1>3. extra \in FieldSets
  <2>1. CASE params = <<>>
    BY <1>2, <2>1 DEF Context, FieldSets
  <2>2. CASE params = <<"context">>
    <3>1. params # <<>> /\ Last(params) = "context"
      BY <2>2 DEF Last
    <3> QED
      BY <1>2, <3>1 DEF Context, FieldSets
  <2> QED
    BY <2>1, <2>2
<1>4. PICK logger, from :
        /\ logger = [RootLogger EXCEPT !.error = errorProjection(error)]
        /\ from = IF error = Undefined THEN <<>> ELSE <<Op("withError", NoFields, error)>>
  OBVIOUS
<1>5. emit(logger, severity, extra, from) /\ UNCHANGED <<log, chain>>
  BY <1>1, <1>2, <1>4 DEF NestWrite
<1>6. Faithful(logger, from)
  <2>1. CASE error = Undefined
    <3>1. errorProjection(error) = {} /\ from = <<>>
      BY <1>4, <2>1 DEF errorProjection
    <3>2. logger = RootLogger
      BY <1>4, <3>1 DEF RootLogger
    <3> QED
      BY <3>1, <3>2, RootIsFaithful
  <2>2. CASE error # Undefined
    <3>1. from = Append(<<>>, Op("withError", NoFields, error))
      BY <1>4, <2>2
    <3> QED
      BY <1>1, <1>4, <3>1, RootIsFaithful, PartIsFaithful
  <2> QED
    BY <2>1, <2>2
<1> QED
  BY <1>1, <1>3, <1>5, <1>6, EmittedIsSafe

(***************************************************************************)
(* A record that is handed over shows no secret, stack or private part of  *)
(* an error, and of every key, scope, trace and error the last that was    *)
(* bound, whatever derivations led to its logger.                          *)
(***************************************************************************)
THEOREM RecordsCorrect == Spec => []RecordsAreSafe
<1>1. Init => LogInv
  BY RootIsFaithful DEF Init, LogInv, RecordsAreSafe
<1>2. ASSUME LogInv, [Next]_vars
      PROVE  LogInv'
  <2>0. Faithful(log, chain) /\ RecordsAreSafe
    BY <1>2 DEF LogInv
  <2>1. CASE UNCHANGED <<log, chain, record>>
    BY <2>0, <2>1 DEF LogInv, RecordsAreSafe
  <2>2. CASE Return
    BY <2>0, <2>2 DEF Return, LogInv, RecordsAreSafe
  <2>3. CASE Derive
    <3>1. RecordsAreSafe'
      <4>1. record' = record
        BY <2>3 DEF Derive, With, WithScope, WithTrace, WithError, Derived
      <4> QED
        BY <2>0, <4>1 DEF RecordsAreSafe
    <3>2. ASSUME NEW fields \in Bindings, With(fields)
          PROVE  Faithful(log', chain')
      <4>1. fields \in FieldSets
        BY <3>2 DEF FieldSets
      <4> QED
        BY <2>0, <3>2, <4>1, WithIsFaithful DEF With, Derived
    <3>3. ASSUME WithScope
          PROVE  Faithful(log', chain')
      <4>1. Undefined \in Errors
        BY DEF Errors
      <4> QED
        BY <2>0, <3>3, <4>1, PartIsFaithful DEF WithScope, Derived
    <3>4. ASSUME WithTrace
          PROVE  Faithful(log', chain')
      <4>1. Undefined \in Errors
        BY DEF Errors
      <4> QED
        BY <2>0, <3>4, <4>1, PartIsFaithful DEF WithTrace, Derived
    <3>5. ASSUME NEW e \in Errors, WithError(e)
          PROVE  Faithful(log', chain')
      BY <2>0, <3>5, PartIsFaithful DEF WithError, Derived
    <3>6. Faithful(log', chain')
      BY <2>3, <3>2, <3>3, <3>4, <3>5 DEF Derive
    <3> QED
      BY <3>1, <3>6 DEF LogInv
  <2>4. ASSUME NEW severity \in Severities, NEW extra \in {NoFields} \cup Bindings,
               Emits(severity, extra)
        PROVE  LogInv'
    <3>1. severity \in DOMAIN rank /\ extra \in FieldSets
      BY ThresholdAssumption DEF FieldSets
    <3>2. RecordsAreSafe'
      BY <2>0, <2>4, <3>1, EmittedIsSafe DEF Emits
    <3>3. Faithful(log', chain')
      BY <2>4, RootIsFaithful DEF Emits
    <3> QED
      BY <3>2, <3>3 DEF LogInv
  <2>5. CASE NestLogs
    BY <2>0, <2>5, NestIsSafe DEF LogInv
  <2>6. CASE Deliver
    BY <2>1, <2>6 DEF Deliver
  <2>7. CASE UNCHANGED vars
    BY <2>1, <2>7 DEF vars
  <2> QED
    BY <1>2, <2>2, <2>3, <2>4, <2>5, <2>6, <2>7 DEF Next, Running
<1>3. LogInv => RecordsAreSafe
  BY DEF LogInv
<1> QED
  BY <1>1, <1>2, <1>3, PTL DEF Spec
=============================================================================
