--------------------------------- MODULE V7 ---------------------------------
(***************************************************************************)
(* The UUIDv7 generator of shared/id/v7.ts: newId reads a wall clock that    *)
(* may jump either way, keeps the largest millisecond it used and a counter   *)
(* within it, and encodes both into the ID (shared/id/value.ts).  An ID is     *)
(* modelled by the 64 bits that decide its order: 48 of time, the version      *)
(* nibble 7 and 12 of counter; the random tail behind them is left out, so     *)
(* two IDs are distinct here only when the counter makes them so.             *)
(***************************************************************************)
EXTENDS Integers, Sequences

CONSTANTS
    MaxTime,      \* 281474976710655, the last millisecond 48 bits can hold
    MaxCounter,   \* 4095, the last counter value
    MaxFresh      \* 0x07ff, the last value a fresh millisecond may start at

ASSUME TimeAssumption == MaxTime \in Nat
ASSUME CounterAssumption == MaxCounter \in 0..4095 /\ MaxFresh \in 0..MaxCounter

VARIABLES
    last,       \* V7.#last, NoTime when undefined
    counter,    \* V7.#counter
    issued,     \* the IDs returned so far, in the order of the calls
    result      \* what the last newId returned

vars == <<last, counter, issued, result>>

NoTime == -1

(* encodeV7: twelve hexadecimal digits of time, then 0x7000 | counter *)
encodeV7(ms, c) == ms * 65536 + 28672 + c

(* unixMillis and version: the digits before and at position 14 *)
unixMillis(id) == id \div 65536
version(id) == (id % 65536) \div 4096

(* The generator's memory is in range, and the counter of an unused generator is 0. *)
TypeOK ==
    /\ last \in 0..MaxTime \cup {NoTime}
    /\ counter \in 0..MaxCounter
    /\ issued \in Seq(Nat)
    /\ result \in {"none", "ok", "time_range", "exhausted", "entropy"}

Init ==
    /\ last = NoTime
    /\ counter = 0
    /\ issued = <<>>
    /\ result = "none"

InRange(ms) == ms >= 0 /\ ms <= MaxTime

Fresh(ms) == last = NoTime \/ ms > last

Fails(code) ==
    /\ result' = code
    /\ UNCHANGED <<last, counter, issued>>

TimeRange(ms) ==
    /\ ~InRange(ms)
    /\ Fails("time_range")

(* Not a new millisecond, whether the clock stood still or went back, and the *)
(* counter is at its last value                                               *)
Exhausted(ms) ==
    /\ InRange(ms)
    /\ ~Fresh(ms)
    /\ counter = MaxCounter
    /\ Fails("exhausted")

EntropyFails(ms) ==
    /\ InRange(ms)
    /\ Fresh(ms) \/ counter # MaxCounter
    /\ Fails("entropy")

Issue(ms, c) ==
    /\ last' = ms
    /\ counter' = c
    /\ issued' = Append(issued, encodeV7(ms, c))
    /\ result' = "ok"

(* The fresh counter is random, its top bit masked off to leave room *)
FreshCounters == 0..MaxFresh

NewMillisecond(ms) ==
    /\ InRange(ms)
    /\ Fresh(ms)
    /\ \E c \in FreshCounters : Issue(ms, c)

\* Mutant: the time that went back is used.
SameMillisecond_TrustsClock(ms) ==
    /\ InRange(ms)
    /\ ~Fresh(ms)
    /\ counter # MaxCounter
    /\ Issue(ms, counter + 1)

SameMillisecond(ms) ==
    /\ InRange(ms)
    /\ ~Fresh(ms)
    /\ counter # MaxCounter
    /\ Issue(last, counter + 1)

newId(ms) ==
    \/ TimeRange(ms)
    \/ Exhausted(ms)
    \/ EntropyFails(ms)
    \/ NewMillisecond(ms)
    \/ SameMillisecond(ms)

(* The wall clock may read anything, before 1970 and past 48 bits included *)
Next == \E ms \in -1..(MaxTime + 1) : newId(ms)

Spec == Init /\ [][Next]_vars

----------------------------------------------------------------------------
(* Each ID newId returns is above every ID it returned before, although the  *)
(* clock may stand still, jump back or fail in between: the order of IDs is   *)
(* the order of the calls, and no ID is returned twice.                       *)
StrictlyIncreasing ==
    \A i, j \in 1..Len(issued) : i < j => issued[i] < issued[j]

(* Every ID carries version 7 and a time in range that unixMillis reads back, *)
(* and the generator's memory is the one the newest ID encodes: an error path *)
(* leaves no time or counter behind that no ID was returned for.              *)
IssuedAreV7 ==
    /\ \A i \in 1..Len(issued) :
          version(issued[i]) = 7 /\ unixMillis(issued[i]) \in 0..MaxTime
    /\ IF issued = <<>>
       THEN last = NoTime
       ELSE /\ issued[Len(issued)] = encodeV7(last, counter)
            /\ unixMillis(issued[Len(issued)]) = last

(* newId reports exhaustion only for a millisecond that already gave every ID *)
(* from its starting point up to the last counter value; the mask on the start *)
(* makes that at least MaxCounter - MaxFresh + 1 of them (2049 in the code).   *)
ExhaustionIsEarned ==
    result = "exhausted" =>
        \A c \in MaxFresh..MaxCounter :
            \E i \in 1..Len(issued) : issued[i] = encodeV7(last, c)

(* What newId returns is typed, ordered and readable, and exhaustion is earned, *)
(* in every state that clock readings and entropy failures can lead the        *)
(* generator to.                                                               *)
GeneratorIsSound == TypeOK /\ StrictlyIncreasing /\ IssuedAreV7 /\ ExhaustionIsEarned
============================================================================
