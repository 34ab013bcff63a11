---------------------------- MODULE LogDelivery ----------------------------
(***************************************************************************)
(* The delivery of log lines, shared/logger/delivery.ts: the emission of    *)
(* runtime.ts (module Logger) hands a line to Delivery.write or counts it,  *)
(* one pump awaits the sink line by line, and close(timeoutMs) stops        *)
(* admission and waits for the drain, the flush or its own timer.  JavaScript runs a handler to its next await, so an action *)
(* is the code between two awaits; the sink settles whenever it likes.      *)
(***************************************************************************)
EXTENDS Integers, Sequences, FiniteSets

CONSTANTS
    Capacity,      \* config.capacity: lines that may wait behind the one in flight
    MaxRecords,    \* bound: records the program emits
    Closers        \* callers of Runtime.close

ASSUME CapacityAssumption == Capacity \in Nat \ {0}
ASSUME MaxRecordsAssumption == MaxRecords \in Nat

VARIABLES
    noop,       \* format 'none': nothing is emitted and the sink is not flushed
    emitted,    \* records emitted (bounds the model)
    counts,     \* Delivery.counts
    queue,      \* Delivery.#queue; a line is named by its acceptance number
    running,    \* Delivery.#running
    inflight,   \* lines handed to sink.write and not settled
    lines,      \* every line handed to sink.write, in order
    closed,     \* Delivery.closed
    flush,      \* "idle", "running" (sink.flush pending) or "done" (#finish called)
    flushes,    \* how often #flush was entered
    closer      \* each caller of close: "new", "waiting" or its result

deliveryVars == <<noop, emitted, counts, queue, running, inflight, lines, closed,
                  flush, flushes, closer>>

Stats == [accepted : 0..MaxRecords, written : 0..MaxRecords,
          dropped : 0..MaxRecords, failed : 0..(2 * MaxRecords + 1)]

Results == {"ok", "invalid", "flush_timeout", "sink"}

(* The state of the pipeline is within its types and its capacity: no more  *)
(* than config.capacity lines ever wait behind the line in flight           *)
(* (delivery.ts, the admission test of write).                              *)
TypeOK ==
    /\ noop \in BOOLEAN /\ running \in BOOLEAN /\ closed \in BOOLEAN
    /\ emitted \in 0..MaxRecords
    /\ counts \in Stats
    /\ queue \in Seq(1..MaxRecords) /\ Len(queue) <= Capacity
    /\ inflight \subseteq 1..MaxRecords
    /\ lines \in Seq(1..MaxRecords)
    /\ flush \in {"idle", "running", "done"}
    /\ flushes \in Nat
    /\ closer \in [Closers -> {"new", "waiting"} \cup Results]

DeliveryInit ==
    /\ noop \in BOOLEAN
    /\ emitted = 0
    /\ counts = [accepted |-> 0, written |-> 0, dropped |-> 0, failed |-> 0]
    /\ queue = <<>>
    /\ running = FALSE
    /\ inflight = {}
    /\ lines = <<>>
    /\ closed = FALSE
    /\ flush = "idle"
    /\ flushes = 0
    /\ closer = [c \in Closers |-> "new"]

----------------------------------------------------------------------------
(* What the program emits: a level at or above the threshold, one new record *)
Emission ==
    /\ ~noop
    /\ emitted < MaxRecords
    /\ emitted' = emitted + 1

Count(k) == counts' = [counts EXCEPT ![k] = @ + 1]

(* #queue.length >= capacity only refuses while a pump runs *)
Full == running /\ Len(queue) >= Capacity

(* emit finds the runtime closed, before it looks at the record *)
EmitClosed ==
    /\ Emission
    /\ closed
    /\ Count("dropped")
    /\ UNCHANGED <<noop, queue, running, inflight, lines, closed, flush, flushes, closer>>

(* An unsupported field or a bad clock is counted, not thrown *)
EmitFails ==
    /\ Emission
    /\ ~closed
    /\ Count("failed")
    /\ UNCHANGED <<noop, queue, running, inflight, lines, closed, flush, flushes, closer>>

(* Delivery.write refuses a line over maxRecordBytes or a full queue; any line *)
(* may be too long, so this has no guard beyond emit's own                     *)
EmitDropped ==
    /\ Emission
    /\ ~closed
    /\ Count("dropped")
    /\ UNCHANGED <<noop, queue, running, inflight, lines, closed, flush, flushes, closer>>

\* Mutant: a line that has to wait goes to the front.
EmitAccepted_SkipsQueue ==
    /\ Emission
    /\ ~closed
    /\ ~Full
    /\ Count("accepted")
    /\ LET line == counts.accepted + 1 IN
         IF running
         THEN /\ queue' = <<line>> \o queue
              /\ UNCHANGED <<running, inflight, lines>>
         ELSE /\ running' = TRUE
              /\ inflight' = inflight \cup {line}
              /\ lines' = Append(lines, line)
              /\ queue' = queue
    /\ UNCHANGED <<noop, closed, flush, flushes, closer>>

(* Delivery.write of an admitted line: behind a running pump it waits, else *)
(* #pump starts and hands it to the sink before the first await             *)
EmitAccepted ==
    /\ Emission
    /\ ~closed
    /\ ~Full
    /\ Count("accepted")
    /\ LET line == counts.accepted + 1 IN
         IF running
         THEN /\ queue' = Append(queue, line)
              /\ UNCHANGED <<running, inflight, lines>>
         ELSE /\ running' = TRUE
              /\ inflight' = inflight \cup {line}
              /\ lines' = Append(lines, line)
              /\ queue' = queue
    /\ UNCHANGED <<noop, closed, flush, flushes, closer>>

----------------------------------------------------------------------------
(* Delivery.#flush up to its await: a no-op runtime finishes at once *)
EnterFlush ==
    /\ flush' = IF noop THEN "done" ELSE "running"
    /\ flushes' = flushes + 1

(* The rest of #pump after an awaited sink.write settles: the next waiting  *)
(* line goes to the sink, or the pump ends and flushes a closed delivery    *)
PumpContinues(settled) ==
    IF queue # <<>>
    THEN /\ inflight' = (inflight \ {settled}) \cup {Head(queue)}
         /\ lines' = Append(lines, Head(queue))
         /\ queue' = Tail(queue)
         /\ UNCHANGED <<running, flush, flushes>>
    ELSE /\ inflight' = inflight \ {settled}
         /\ running' = FALSE
         /\ IF closed THEN EnterFlush ELSE UNCHANGED <<flush, flushes>>
         /\ UNCHANGED <<queue, lines>>

SinkWrites ==
    \E line \in inflight :
        /\ Count("written")
        /\ PumpContinues(line)
        /\ UNCHANGED <<noop, emitted, closed, closer>>

SinkRejects ==
    \E line \in inflight :
        /\ Count("failed")
        /\ PumpContinues(line)
        /\ UNCHANGED <<noop, emitted, closed, closer>>

FlushSettles(failed) ==
    /\ flush = "running"
    /\ flush' = "done"
    /\ IF failed THEN Count("failed") ELSE UNCHANGED counts
    /\ UNCHANGED <<noop, emitted, queue, running, inflight, lines, closed, flushes, closer>>

----------------------------------------------------------------------------
(* close(timeoutMs) up to the race: a bad deadline is refused before anything *)
(* changes, the first caller stops admission and flushes an idle delivery     *)
CloseInvalid(c) ==
    /\ closer[c] = "new"
    /\ closer' = [closer EXCEPT ![c] = "invalid"]
    /\ UNCHANGED <<noop, emitted, counts, queue, running, inflight, lines, closed, flush, flushes>>

Close(c) ==
    /\ closer[c] = "new"
    /\ closer' = [closer EXCEPT ![c] = "waiting"]
    /\ closed' = TRUE
    /\ IF ~closed /\ ~running THEN EnterFlush ELSE UNCHANGED <<flush, flushes>>
    /\ UNCHANGED <<noop, emitted, counts, queue, running, inflight, lines>>

\* Mutant: dropped records fail a close, rejected writes do not.
CloseDrained_Dropped(c) ==
    /\ closer[c] = "waiting"
    /\ flush = "done"
    /\ closer' = [closer EXCEPT ![c] = IF counts.dropped > 0 THEN "sink" ELSE "ok"]
    /\ UNCHANGED <<noop, emitted, counts, queue, running, inflight, lines, closed, flush, flushes>>

(* #done won the race: the result is read from the counts *)
CloseDrained(c) ==
    /\ closer[c] = "waiting"
    /\ flush = "done"
    /\ closer' = [closer EXCEPT ![c] = IF counts.failed > 0 THEN "sink" ELSE "ok"]
    /\ UNCHANGED <<noop, emitted, counts, queue, running, inflight, lines, closed, flush, flushes>>

\* Mutant: the deadline is only looked at between writes.
CloseTimesOut_OnlyIdle(c) ==
    /\ closer[c] = "waiting"
    /\ flush # "done"
    /\ ~running
    /\ closer' = [closer EXCEPT ![c] = "flush_timeout"]
    /\ UNCHANGED <<noop, emitted, counts, queue, running, inflight, lines, closed, flush, flushes>>

(* The timer won the race; a resolved #done is a microtask and runs first *)
CloseTimesOut(c) ==
    /\ closer[c] = "waiting"
    /\ flush # "done"
    /\ closer' = [closer EXCEPT ![c] = "flush_timeout"]
    /\ UNCHANGED <<noop, emitted, counts, queue, running, inflight, lines, closed, flush, flushes>>

SinkSettles == SinkWrites \/ SinkRejects \/ \E failed \in BOOLEAN : FlushSettles(failed)

Answers(c) == CloseDrained(c) \/ CloseTimesOut(c)

DeliveryStep ==
    \/ SinkSettles
    \/ \E c \in Closers : CloseInvalid(c) \/ Close(c) \/ Answers(c)

----------------------------------------------------------------------------
(* Every accepted line reaches sink.write exactly once and in the order of   *)
(* acceptance: what was handed over, followed by what waits, is the sequence *)
(* of acceptance numbers without a gap (write, #pump).                       *)
LinesInOrder == lines \o queue = [i \in 1..counts.accepted |-> i]

(* One pump at a time: the sink never sees a second write before the first  *)
(* settled, and #running says exactly whether one is in flight.             *)
OneWriteAtATime ==
    /\ Cardinality(inflight) = IF running THEN 1 ELSE 0
    /\ queue # <<>> => running

(* #flush runs at most once, only after close stopped admission and the last *)
(* accepted line settled: no line is written during or after the flush.      *)
FlushIsLast ==
    /\ flushes <= 1
    /\ flush # "idle" => closed /\ queue = <<>> /\ inflight = {} /\ ~running

(* Every emission is in exactly one count: what the counts hold beyond the    *)
(* rejected writes is what was emitted, but for the one failure of the flush. *)
EmissionsAreCounted ==
    LET rejected == Len(lines) - Cardinality(inflight) - counts.written
        counted  == counts.accepted + counts.dropped + counts.failed - rejected
    IN  /\ counted >= emitted
        /\ counted <= emitted + (IF flush = "done" THEN 1 ELSE 0)

(* The queue is sound whatever bursts, rejected writes and closes interleave: *)
(* typed, within its capacity, in order, with one write in flight, with one   *)
(* flush behind the last write, and with nothing emitted left uncounted.      *)
QueueIsSound ==
    TypeOK /\ LinesInOrder /\ OneWriteAtATime /\ FlushIsLast /\ EmissionsAreCounted

(* A close that returned ok is true: every accepted line was written, nothing *)
(* failed, and the sink was flushed, whichever caller it is and whatever was  *)
(* emitted between its call and its answer.                                   *)
OkCloseMeansWritten ==
    \A c \in Closers :
        closer[c] = "ok" =>
            /\ counts.failed = 0
            /\ counts.written = counts.accepted
            /\ flush = "done"

(* close(timeoutMs) answers even when the sink never settles: its timer is  *)
(* not behind the pump.                                                     *)
EveryCloseAnswers == \A c \in Closers : closer[c] = "waiting" ~> closer[c] \in Results

============================================================================
