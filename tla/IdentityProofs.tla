--------------------------- MODULE IdentityProofs ---------------------------
(***************************************************************************)
(* The V7 generator, the principals it names and the lineages of work.  For *)
(* every range of time and of counter: the IDs of one generator are         *)
(* strictly increasing, whatever the clock does, and a millisecond is only  *)
(* exhausted after it gave every ID above the mask.  For any number of      *)
(* holders: principals keep their identity and descend from each other.     *)
(* For lineages of any length, whatever IDs are drawn: each entry can be    *)
(* restored and has the lineage of its root, on both sides of the wire.     *)
(***************************************************************************)
EXTENDS Principal, EventLineage, WellFoundedInduction, TLAPS

(* The IDs of the current millisecond form one run, from a masked start up to *)
(* the counter: what the exhaustion property rests on.                        *)
RunIsIssued ==
    last # NoTime =>
        \E s \in FreshCounters :
            /\ s <= counter
            /\ \A c \in s..counter :
                  \E i \in 1..Len(issued) : issued[i] = encodeV7(last, c)

(* Every ID is the encoding of a time in range and a counter in range. *)
AllEncoded ==
    \A i \in 1..Len(issued) :
        \E ms \in 0..MaxTime, c \in 0..MaxCounter : issued[i] = encodeV7(ms, c)

(* No ID is above the encoding of the generator's memory, and the newest one *)
(* is equal to it.                                                           *)
MemoryIsNewest ==
    /\ (last = NoTime) <=> (issued = <<>>)
    /\ last # NoTime => issued[Len(issued)] = encodeV7(last, counter)
    /\ last # NoTime => \A i \in 1..Len(issued) : issued[i] <= encodeV7(last, counter)

V7Inv ==
    /\ TypeOK
    /\ AllEncoded
    /\ MemoryIsNewest
    /\ StrictlyIncreasing
    /\ RunIsIssued
    /\ ExhaustionIsEarned

(* Returning an ID above the memory keeps every part of the invariant. *)
LEMMA IssueKeepsOrder ==
    ASSUME V7Inv, NEW ms \in 0..MaxTime, NEW c \in 0..MaxCounter, Issue(ms, c),
           last # NoTime => encodeV7(last, counter) < encodeV7(ms, c)
    PROVE  TypeOK' /\ AllEncoded' /\ MemoryIsNewest' /\ StrictlyIncreasing'
           /\ ExhaustionIsEarned'
<1> DEFINE new == encodeV7(ms, c)
<1>1. new \in Nat
  BY TimeAssumption, CounterAssumption DEF encodeV7
<1>2. /\ issued \in Seq(Nat) /\ Len(issued) \in Nat
      /\ issued' = Append(issued, new) /\ last' = ms /\ counter' = c /\ result' = "ok"
  BY DEF V7Inv, TypeOK, Issue
<1> HIDE DEF new
<1>3. /\ issued' \in Seq(Nat)
      /\ Len(issued') = Len(issued) + 1
      /\ issued'[Len(issued) + 1] = new
      /\ \A i \in 1..Len(issued) : issued'[i] = issued[i]
  BY <1>1, <1>2
<1>4. TypeOK'
  BY <1>2, <1>3 DEF TypeOK
<1>5. \A i \in 1..Len(issued) : issued[i] < new
  <2>1. CASE last = NoTime
    <3>1. issued = <<>>
      BY <2>1 DEF V7Inv, MemoryIsNewest
    <3> QED  BY <3>1
  <2>2. CASE last # NoTime
    <3>1. encodeV7(last, counter) < new /\ last \in Nat /\ counter \in 0..4095
      BY <2>2, CounterAssumption, TimeAssumption DEF V7Inv, TypeOK, NoTime, new
    <3>2. encodeV7(last, counter) \in Nat
      BY <3>1 DEF encodeV7
    <3>3. \A i \in 1..Len(issued) : issued[i] <= encodeV7(last, counter) /\ issued[i] \in Nat
      BY <2>2, <1>2 DEF V7Inv, MemoryIsNewest
    <3> QED  BY <3>1, <3>2, <3>3, <1>1
  <2> QED  BY <2>1, <2>2
<1>6. AllEncoded'
  <2> SUFFICES ASSUME NEW i \in 1..(Len(issued) + 1)
               PROVE  \E m \in 0..MaxTime, k \in 0..MaxCounter : issued'[i] = encodeV7(m, k)
    BY <1>3 DEF AllEncoded
  <2>1. CASE i = Len(issued) + 1
    BY <2>1, <1>3 DEF new
  <2>2. CASE i \in 1..Len(issued)
    BY <2>2, <1>3 DEF V7Inv, AllEncoded
  <2> QED  BY <2>1, <2>2, <1>2
<1>7. MemoryIsNewest'
  <2>1. last' # NoTime /\ issued' # <<>>
    BY <1>2, <1>3 DEF NoTime
  <2>2. encodeV7(last', counter') = new
    BY <1>2 DEF new
  <2>3. issued'[Len(issued')] = new
    BY <1>3
  <2>4. \A i \in 1..Len(issued') : issued'[i] <= new
    BY <1>1, <1>2, <1>3, <1>5
  <2> QED  BY <2>1, <2>2, <2>3, <2>4 DEF MemoryIsNewest
<1>8. StrictlyIncreasing'
  <2> SUFFICES ASSUME NEW i \in 1..(Len(issued) + 1), NEW j \in 1..(Len(issued) + 1), i < j
               PROVE  issued'[i] < issued'[j]
    BY <1>3 DEF StrictlyIncreasing
  <2>1. i \in 1..Len(issued) /\ issued'[i] = issued[i]
    BY <1>2, <1>3
  <2>2. CASE j = Len(issued) + 1
    BY <2>1, <2>2, <1>3, <1>5
  <2>3. CASE j \in 1..Len(issued)
    BY <2>1, <2>3, <1>3 DEF V7Inv, StrictlyIncreasing
  <2> QED  BY <2>2, <2>3, <1>2
<1>9. ExhaustionIsEarned'
  BY <1>2 DEF ExhaustionIsEarned
<1> QED  BY <1>4, <1>6, <1>7, <1>8, <1>9

(* A call that fails leaves the generator as it was; only exhaustion says     *)
(* something about it, and the run of the current millisecond makes it true. *)
LEMMA FailuresKeepInv ==
    ASSUME V7Inv, NEW ms \in Int, TimeRange(ms) \/ Exhausted(ms) \/ EntropyFails(ms)
    PROVE  V7Inv'
<1>1. UNCHANGED <<last, counter, issued>>
  BY DEF TimeRange, Exhausted, EntropyFails, Fails
<1>2. TypeOK' /\ AllEncoded' /\ MemoryIsNewest' /\ StrictlyIncreasing' /\ RunIsIssued'
  <2>1. TypeOK'
    BY <1>1 DEF V7Inv, TypeOK, TimeRange, Exhausted, EntropyFails, Fails
  <2> QED  BY <2>1, <1>1 DEF V7Inv, AllEncoded, MemoryIsNewest, StrictlyIncreasing, RunIsIssued
<1>3. ExhaustionIsEarned'
  <2>1. CASE Exhausted(ms)
    <3>1. last # NoTime /\ counter = MaxCounter
      BY <2>1 DEF Exhausted, Fresh
    <3>2. PICK s \in FreshCounters :
             \A c \in s..counter : \E i \in 1..Len(issued) : issued[i] = encodeV7(last, c)
      BY <3>1 DEF V7Inv, RunIsIssued
    <3>3. \A c \in MaxFresh..MaxCounter : c \in s..counter
      BY <3>1, CounterAssumption DEF FreshCounters
    <3>4. \A c \in MaxFresh..MaxCounter :
             \E i \in 1..Len(issued) : issued[i] = encodeV7(last, c)
      BY <3>2, <3>3
    <3> QED  BY <3>4, <1>1 DEF ExhaustionIsEarned
  <2>2. CASE TimeRange(ms) \/ EntropyFails(ms)
    BY <2>2 DEF TimeRange, EntropyFails, Fails, ExhaustionIsEarned
  <2> QED  BY <2>1, <2>2
<1> QED  BY <1>2, <1>3 DEF V7Inv

(* A new millisecond starts a run at a masked counter. *)
LEMMA NewMillisecondKeepsInv ==
    ASSUME V7Inv, NEW ms \in Int, NewMillisecond(ms)
    PROVE  V7Inv'
<1>1. ms \in 0..MaxTime
  BY TimeAssumption DEF NewMillisecond, InRange
<1>2. PICK c \in FreshCounters : Issue(ms, c)
  BY DEF NewMillisecond
<1>3. c \in 0..MaxCounter /\ c \in 0..4095
  BY CounterAssumption DEF FreshCounters
<1>4. last # NoTime => encodeV7(last, counter) < encodeV7(ms, c)
  <2> SUFFICES ASSUME last # NoTime PROVE encodeV7(last, counter) < encodeV7(ms, c)
    OBVIOUS
  <2>1. last \in Nat /\ ms \in Nat /\ last < ms /\ counter \in 0..4095
    BY <1>1, TimeAssumption, CounterAssumption DEF NewMillisecond, Fresh, V7Inv, TypeOK, NoTime
  <2> QED  BY <2>1, <1>3 DEF encodeV7
<1>5. TypeOK' /\ AllEncoded' /\ MemoryIsNewest' /\ StrictlyIncreasing' /\ ExhaustionIsEarned'
  BY <1>1, <1>2, <1>3, <1>4, IssueKeepsOrder
<1>6. RunIsIssued'
  <2>1. last' = ms /\ counter' = c /\ issued' # <<>> /\ Len(issued') \in 1..Len(issued')
    BY <1>2, <1>5 DEF Issue, V7Inv, TypeOK, MemoryIsNewest
  <2>2. issued'[Len(issued')] = encodeV7(ms, c)
    BY <1>1, <1>5, <2>1 DEF MemoryIsNewest, NoTime
  <2>3. \A k \in c..c : k = c
    BY <1>3
  <2>4. \A k \in c..c : \E i \in 1..Len(issued') : issued'[i] = encodeV7(ms, k)
    BY <2>1, <2>2, <2>3
  <2>5. c <= c
    BY <1>3
  <2> QED  BY <2>1, <2>4, <2>5 DEF RunIsIssued, FreshCounters
<1> QED  BY <1>5, <1>6 DEF V7Inv

(* A clock that stands still or goes back extends the run by one. *)
LEMMA SameMillisecondKeepsInv ==
    ASSUME V7Inv, NEW ms \in Int, SameMillisecond(ms)
    PROVE  V7Inv'
<1>1. /\ last # NoTime /\ last \in 0..MaxTime /\ last \in Nat
      /\ counter \in 0..MaxCounter /\ counter # MaxCounter
  BY TimeAssumption DEF SameMillisecond, Fresh, V7Inv, TypeOK, NoTime
<1>2. Issue(last, counter + 1)
  BY DEF SameMillisecond
<1>3. /\ counter + 1 \in 0..MaxCounter /\ counter + 1 \in 0..4095
      /\ counter \in 0..4095 /\ counter < counter + 1
  BY <1>1, CounterAssumption
<1>4. encodeV7(last, counter) < encodeV7(last, counter + 1)
  BY <1>1, <1>3 DEF encodeV7
<1>5. TypeOK' /\ AllEncoded' /\ MemoryIsNewest' /\ StrictlyIncreasing' /\ ExhaustionIsEarned'
  BY <1>1, <1>2, <1>3, <1>4, IssueKeepsOrder
<1>6. RunIsIssued'
  <2>1. PICK s \in FreshCounters :
           /\ s <= counter
           /\ \A c \in s..counter : \E i \in 1..Len(issued) : issued[i] = encodeV7(last, c)
    BY <1>1 DEF V7Inv, RunIsIssued
  <2>2. /\ issued \in Seq(Nat) /\ last' = last /\ counter' = counter + 1
        /\ issued' = Append(issued, encodeV7(last, counter + 1))
    BY <1>2 DEF Issue, V7Inv, TypeOK
  <2>3. s \in Nat /\ s <= counter + 1
    BY <2>1, <1>1, CounterAssumption DEF FreshCounters
  <2>4. /\ Len(issued') = Len(issued) + 1 /\ Len(issued) \in Nat
        /\ \A i \in 1..Len(issued) : issued'[i] = issued[i]
        /\ issued'[Len(issued) + 1] = encodeV7(last, counter + 1)
    BY <2>2
  <2>5. ASSUME NEW k \in s..(counter + 1)
        PROVE  \E i \in 1..Len(issued') : issued'[i] = encodeV7(last, k)
    <3>1. CASE k = counter + 1
      BY <3>1, <2>4
    <3>2. CASE k \in s..counter
      <4>1. PICK i \in 1..Len(issued) : issued[i] = encodeV7(last, k)
        BY <3>2, <2>1
      <4>2. i \in 1..Len(issued') /\ issued'[i] = encodeV7(last, k)
        BY <4>1, <2>4
      <4> QED  BY <4>2
    <3> QED  BY <3>1, <3>2, <2>3, <1>1
  <2> QED  BY <2>1, <2>2, <2>3, <2>5 DEF RunIsIssued
<1> QED  BY <1>5, <1>6 DEF V7Inv

(* The invariant holds for every clock, every entropy source and every range  *)
(* of time and counter (v7.ts, newId).                                        *)
THEOREM V7Invariant == Spec => []V7Inv
<1>1. Init => V7Inv
  BY CounterAssumption DEF Init, V7Inv, TypeOK, AllEncoded, MemoryIsNewest, StrictlyIncreasing,
     RunIsIssued, ExhaustionIsEarned, NoTime
<1>2. V7Inv /\ [Next]_vars => V7Inv'
  <2> SUFFICES ASSUME V7Inv, [Next]_vars PROVE V7Inv'
    OBVIOUS
  <2>1. CASE UNCHANGED vars
    <3>1. TypeOK'
      BY <2>1 DEF V7Inv, TypeOK, vars
    <3> QED  BY <2>1, <3>1 DEF V7Inv, AllEncoded, MemoryIsNewest, StrictlyIncreasing,
               RunIsIssued, ExhaustionIsEarned, vars
  <2>2. CASE Next
    <3>1. PICK ms \in Int : newId(ms)
      BY <2>2, TimeAssumption DEF Next
    <3> QED  BY <3>1, FailuresKeepInv, NewMillisecondKeepsInv, SameMillisecondKeepsInv DEF newId
  <2> QED  BY <2>1, <2>2
<1> QED  BY <1>1, <1>2, PTL DEF Spec

(* IDs of one generator strictly increase in the order of the calls (v7.ts,  *)
(* newId), although the wall clock may go back.                              *)
THEOREM IDsIncrease == Spec => []StrictlyIncreasing
<1>1. V7Inv => StrictlyIncreasing
  BY DEF V7Inv
<1> QED  BY <1>1, V7Invariant, PTL

(* "counter exhausted" is only answered after every ID from the mask up was  *)
(* returned for that millisecond.                                            *)
THEOREM ExhaustionEarned == Spec => []ExhaustionIsEarned
<1>1. V7Inv => ExhaustionIsEarned
  BY DEF V7Inv
<1> QED  BY <1>1, V7Invariant, PTL

(* Every ID is a version 7 UUID whose time reads back, and the generator's   *)
(* memory is the newest ID.                                                  *)
THEOREM IDsAreV7 == Spec => []IssuedAreV7
<1>1. V7Inv => IssuedAreV7
  <2> SUFFICES ASSUME V7Inv PROVE IssuedAreV7
    OBVIOUS
  <2>1. ASSUME NEW i \in 1..Len(issued)
        PROVE  version(issued[i]) = 7 /\ unixMillis(issued[i]) \in 0..MaxTime
    <3>1. PICK ms \in 0..MaxTime, c \in 0..MaxCounter : issued[i] = encodeV7(ms, c)
      BY DEF V7Inv, AllEncoded
    <3>2. ms \in Nat /\ c \in 0..4095
      BY TimeAssumption, CounterAssumption
    <3>3. unixMillis(encodeV7(ms, c)) = ms /\ version(encodeV7(ms, c)) = 7
      BY <3>2 DEF encodeV7, unixMillis, version
    <3> QED  BY <3>1, <3>3
  <2>2. CASE issued = <<>>
    <3>1. last = NoTime
      BY <2>2 DEF V7Inv, MemoryIsNewest
    <3> QED  BY <2>1, <2>2, <3>1 DEF IssuedAreV7
  <2>3. CASE issued # <<>>
    <3>1. last # NoTime /\ issued[Len(issued)] = encodeV7(last, counter)
      BY <2>3 DEF V7Inv, MemoryIsNewest
    <3>2. last \in Nat /\ counter \in 0..4095
      BY <3>1, TimeAssumption, CounterAssumption DEF V7Inv, TypeOK, NoTime
    <3>3. unixMillis(issued[Len(issued)]) = last
      <4>1. unixMillis(encodeV7(last, counter)) = last
        BY <3>2 DEF encodeV7, unixMillis, version
      <4> QED  BY <3>1, <4>1
    <3> QED  BY <2>1, <2>3, <3>1, <3>3 DEF IssuedAreV7
  <2> QED  BY <2>2, <2>3
<1> QED  BY <1>1, V7Invariant, PTL

(* The generator is sound: its state is typed, the IDs it returned are       *)
(* ordered and read back, and it reports exhaustion only for a millisecond   *)
(* that is used up (v7.ts, newId; value.ts, unixMillis).                     *)
THEOREM GeneratorCorrect == Spec => []GeneratorIsSound
<1>1. V7Inv => TypeOK
  BY DEF V7Inv
<1>2. TypeOK /\ StrictlyIncreasing /\ IssuedAreV7 /\ ExhaustionIsEarned => GeneratorIsSound
  BY DEF GeneratorIsSound
<1> QED  BY <1>1, <1>2, V7Invariant, IDsIncrease, IDsAreV7, ExhaustionEarned, PTL

----------------------------------------------------------------------------
Principals ==
    [id : Nat, kind : Kinds, named : BOOLEAN, status : Statuses,
     createdAtMs : Int, updatedAtMs : Int, version : 1..MaxVersion]

\* What a holder has can be restored, was registered under an ID the
\* generator returned, and is active exactly at odd versions: every transition
\* flips the status, which is why two holders that succeed the same version on
\* their own cannot disagree.
PrincipalOK(p) ==
    /\ Restorable(p)
    /\ p.status = "active" <=> p.version % 2 = 1
    /\ \E i \in 1..Len(issued) : issued[i] = p.id

Same(p, q) ==
    p.id = q.id => p.kind = q.kind /\ p.named = q.named /\ p.createdAtMs = q.createdAtMs

HeldOK ==
    /\ held \in [Holders -> SUBSET Principals]
    /\ \A h \in Holders : \A p, q \in held[h] : p = q
    /\ \A h \in Holders : \A p \in held[h] : PrincipalOK(p)
    /\ \A h, g \in Holders : \A p \in held[h], q \in held[g] : Same(p, q)

IdentityInv == V7Inv /\ HeldOK

(* newId keeps the IDs it returned, and the one it adds is new. *)
LEMMA NewIdStep ==
    ASSUME V7Inv, NEW ms \in Int, newId(ms)
    PROVE  /\ V7Inv'
           /\ Len(issued) \in Nat /\ Len(issued) <= Len(issued')
           /\ \A i \in 1..Len(issued) : i \in 1..Len(issued') /\ issued'[i] = issued[i]
           /\ result' = "ok" =>
                 /\ Len(issued') \in 1..Len(issued')
                 /\ issued'[Len(issued')] \in Nat
                 /\ \A i \in 1..Len(issued) : issued[i] # issued'[Len(issued')]
<1>1. V7Inv'
  BY FailuresKeepInv, NewMillisecondKeepsInv, SameMillisecondKeepsInv DEF newId
<1>2. issued \in Seq(Nat) /\ issued' \in Seq(Nat) /\ Len(issued) \in Nat
  BY <1>1 DEF V7Inv, TypeOK
<1>3. CASE UNCHANGED issued /\ result' # "ok"
  BY <1>1, <1>2, <1>3
<1>4. ASSUME NEW id \in Nat, issued' = Append(issued, id)
      PROVE  /\ Len(issued) <= Len(issued')
             /\ \A i \in 1..Len(issued) : i \in 1..Len(issued') /\ issued'[i] = issued[i]
             /\ Len(issued') \in 1..Len(issued')
             /\ issued'[Len(issued')] \in Nat
             /\ \A i \in 1..Len(issued) : issued[i] # issued'[Len(issued')]
  <2>1. /\ Len(issued') = Len(issued) + 1
        /\ \A i \in 1..Len(issued) : i \in 1..Len(issued') /\ issued'[i] = issued[i]
    BY <1>2, <1>4
  <2>2. Len(issued') \in 1..Len(issued') /\ issued'[Len(issued')] \in Nat
    BY <1>2, <2>1
  <2>3. ASSUME NEW i \in 1..Len(issued) PROVE issued[i] # issued'[Len(issued')]
    <3>1. issued'[i] < issued'[Len(issued')]
      BY <1>1, <1>2, <2>1, <2>2 DEF V7Inv, StrictlyIncreasing
    <3>2. issued'[i] \in Nat
      BY <1>2, <2>1
    <3> QED  BY <2>1, <2>2, <3>1, <3>2
  <2> QED  BY <1>2, <2>1, <2>2, <2>3
<1>5. \/ UNCHANGED issued /\ result' # "ok"
      \/ \E m \in 0..MaxTime, c \in 0..MaxCounter : issued' = Append(issued, encodeV7(m, c))
  <2>1. CASE TimeRange(ms) \/ Exhausted(ms) \/ EntropyFails(ms)
    BY <2>1 DEF TimeRange, Exhausted, EntropyFails, Fails
  <2>2. CASE NewMillisecond(ms)
    BY <2>2, TimeAssumption, CounterAssumption DEF NewMillisecond, InRange, Issue, FreshCounters
  <2>3. CASE SameMillisecond(ms)
    <3>1. last \in 0..MaxTime /\ counter + 1 \in 0..MaxCounter
      BY <2>3, TimeAssumption, CounterAssumption
         DEF SameMillisecond, Fresh, V7Inv, TypeOK, NoTime
    <3> QED  BY <2>3, <3>1 DEF SameMillisecond, Issue
  <2> QED  BY <2>1, <2>2, <2>3 DEF newId
<1>6. \A m \in 0..MaxTime, c \in 0..MaxCounter : encodeV7(m, c) \in Nat
  BY TimeAssumption, CounterAssumption DEF encodeV7
<1> QED  BY <1>1, <1>2, <1>3, <1>4, <1>5, <1>6

(* A holder that restores a principal that agrees with every other keeps the *)
(* holders in agreement.                                                     *)
LEMMA RestoreKeeps ==
    ASSUME HeldOK, NEW h \in Holders, NEW s \in Principals,
           held' = [held EXCEPT ![h] = {s}],
           \A i \in 1..Len(issued) : i \in 1..Len(issued') /\ issued'[i] = issued[i],
           PrincipalOK(s)',
           \A g \in Holders : \A p \in held[g] : Same(p, s)
    PROVE  HeldOK'
<1>1. /\ held' \in [Holders -> SUBSET Principals]
      /\ \A g \in Holders : held'[g] = IF g = h THEN {s} ELSE held[g]
  BY DEF HeldOK
<1>2. \A g \in Holders : \A p, q \in held'[g] : p = q
  BY <1>1 DEF HeldOK
<1>3. ASSUME NEW g \in Holders, NEW p \in held[g] PROVE PrincipalOK(p)'
  BY DEF HeldOK, PrincipalOK, Restorable
<1>4. \A g \in Holders : \A p \in held'[g] : PrincipalOK(p)'
  BY <1>1, <1>3
<1>5. ASSUME NEW f \in Holders, NEW g \in Holders, NEW p \in held'[f], NEW q \in held'[g]
      PROVE  Same(p, q)
  <2>1. CASE f = h /\ g = h
    BY <2>1, <1>1 DEF Same
  <2>2. CASE f = h /\ g # h
    <3>1. p = s /\ q \in held[g]
      BY <2>2, <1>1
    <3>2. Same(q, s)
      BY <3>1
    <3> QED  BY <3>1, <3>2 DEF Same
  <2>3. CASE f # h /\ g = h
    BY <2>3, <1>1
  <2>4. CASE f # h /\ g # h
    BY <2>4, <1>1 DEF HeldOK
  <2> QED  BY <2>1, <2>2, <2>3, <2>4
<1> QED  BY <1>1, <1>2, <1>4, <1>5 DEF HeldOK

(* Nothing of the holders changes: what they have stays in order while more   *)
(* IDs are drawn.                                                            *)
LEMMA HeldStays ==
    ASSUME HeldOK, UNCHANGED held,
           \A i \in 1..Len(issued) : i \in 1..Len(issued') /\ issued'[i] = issued[i]
    PROVE  HeldOK'
  BY DEF HeldOK, PrincipalOK, Restorable

(* What a step of a holder may bring: nothing new, a registration, or a      *)
(* successor of what this holder had.                                        *)
LEMMA DescendsWhen ==
    ASSUME HeldOK, NEW h \in Holders, NEW s, held' = [held EXCEPT ![h] = {s}],
           \/ \E g \in Holders : s \in held[g]
           \/ s.version = 1 /\ \A i \in 1..Len(issued) : issued[i] # s.id
           \/ \E p \in held[h] : /\ <<s.id, s.version>> = <<p.id, p.version + 1>>
                                 /\ s.status # p.status
                                 /\ s.updatedAtMs >= p.updatedAtMs
    PROVE  Descends
<1>1. \A g \in Holders : held'[g] = IF g = h THEN {s} ELSE held[g]
  BY DEF HeldOK
<1> SUFFICES ASSUME NEW g \in Holders, NEW q \in held'[g] \ UNION {held[f] : f \in Holders}
             PROVE  \/ q.version = 1 /\ \A i \in 1..Len(issued) : issued[i] # q.id
                    \/ \E p \in held[g] :
                          /\ <<q.id, q.version>> = <<p.id, p.version + 1>>
                          /\ q.status # p.status
                          /\ q.updatedAtMs >= p.updatedAtMs
  BY DEF Descends
<1>2. g = h /\ q = s /\ \A f \in Holders : s \notin held[f]
  BY <1>1
<1> QED  BY <1>2

(* A registration names a principal by an ID that nobody has. *)
LEMMA RegisterStep ==
    ASSUME IdentityInv, NEW h \in Holders, NEW ms \in Int, NEW kind \in Kinds,
           NEW named \in BOOLEAN, NEW at \in Instants, Register(h, ms, kind, named, at)
    PROVE  IdentityInv' /\ Descends
<1>1. V7Inv /\ HeldOK /\ newId(ms)
  BY DEF IdentityInv, Register
<1>2. /\ V7Inv'
      /\ \A i \in 1..Len(issued) : i \in 1..Len(issued') /\ issued'[i] = issued[i]
  BY <1>1, NewIdStep
<1>3. CASE UNCHANGED held
  <2>1. HeldOK'
    BY <1>1, <1>2, <1>3, HeldStays
  <2>2. Descends
    BY <1>3 DEF Descends
  <2> QED  BY <1>2, <2>1, <2>2 DEF IdentityInv
<1>4. CASE held' # held
  <2>1. result' = "ok"
    BY <1>4 DEF Register
  <2>2. PICK id \in Nat : id = issued'[Len(issued')]
    BY <1>1, <2>1, NewIdStep
  <2>3. /\ Len(issued') \in 1..Len(issued')
        /\ \A i \in 1..Len(issued) : issued[i] # id
    BY <1>1, <2>1, <2>2, NewIdStep
  <2> DEFINE s == [id |-> id, kind |-> kind, named |-> named, status |-> "active",
                   createdAtMs |-> at, updatedAtMs |-> at, version |-> 1]
  <2>4. Restorable(s) /\ held' = [held EXCEPT ![h] = {s}]
    BY <1>4, <2>1, <2>2 DEF Register, Restore
  <2>5. s \in Principals /\ s.id = id /\ s.version = 1 /\ s.status = "active"
    BY VersionAssumption, InstantAssumption DEF Principals, Statuses, Instants
  <2> HIDE DEF s
  <2>6. PrincipalOK(s)'
    <3>1. \E i \in 1..Len(issued') : issued'[i] = s.id
      BY <2>2, <2>3, <2>5
    <3> QED  BY <2>4, <2>5, <3>1 DEF PrincipalOK, Restorable
  <2>7. ASSUME NEW g \in Holders, NEW p \in held[g] PROVE Same(p, s)
    <3>1. p.id # s.id
      BY <1>1, <2>3, <2>5 DEF HeldOK, PrincipalOK
    <3> QED  BY <3>1 DEF Same
  <2>8. HeldOK'
    BY <1>1, <1>2, <2>4, <2>5, <2>6, <2>7, RestoreKeeps
  <2>9. Descends
    BY <1>1, <2>3, <2>4, <2>5, DescendsWhen
  <2> QED  BY <1>2, <2>8, <2>9 DEF IdentityInv
<1> QED  BY <1>3, <1>4

(* Handing on a snapshot makes a principal nobody did not have already. *)
LEMMA HandOnStep ==
    ASSUME IdentityInv, NEW h \in Holders, NEW g \in Holders, HandOn(h, g)
    PROVE  IdentityInv' /\ Descends
<1>1. V7Inv /\ HeldOK /\ UNCHANGED vars
  BY DEF IdentityInv, HandOn
<1>2. V7Inv'
  BY <1>1 DEF vars, V7Inv, TypeOK, AllEncoded, MemoryIsNewest, StrictlyIncreasing,
     RunIsIssued, ExhaustionIsEarned
<1>3. UNCHANGED issued
  BY <1>1 DEF vars
<1>4. PICK s \in held[h] : Restore(g, s)
  BY DEF HandOn
<1>5. s \in Principals /\ PrincipalOK(s)
  BY <1>1 DEF HeldOK
<1>6. held' = [held EXCEPT ![g] = {s}]
  BY <1>4, <1>5 DEF Restore, PrincipalOK
<1>7. PrincipalOK(s)'
  BY <1>3, <1>5 DEF PrincipalOK, Restorable
<1>8. \A f \in Holders : \A p \in held[f] : Same(p, s)
  BY <1>1 DEF HeldOK
<1>9. HeldOK'
  BY <1>1, <1>3, <1>5, <1>6, <1>7, <1>8, RestoreKeeps
<1>10. Descends
  BY <1>1, <1>6, DescendsWhen
<1> QED  BY <1>2, <1>9, <1>10 DEF IdentityInv

(* A transition is the next version, with the other status. *)
LEMMA TransitionStep ==
    ASSUME IdentityInv, NEW h \in Holders, NEW status \in Statuses, NEW expected \in Versions,
           NEW at \in Instants, Transition(h, status, expected, at)
    PROVE  IdentityInv' /\ Descends
<1>1. V7Inv /\ HeldOK /\ UNCHANGED vars
  BY DEF IdentityInv, Transition
<1>2. V7Inv'
  BY <1>1 DEF vars, V7Inv, TypeOK, AllEncoded, MemoryIsNewest, StrictlyIncreasing,
     RunIsIssued, ExhaustionIsEarned
<1>3. UNCHANGED issued
  BY <1>1 DEF vars
<1>4. PICK p \in held[h] :
         /\ Allowed(p, status, expected, at)
         /\ held' = [held EXCEPT ![h] =
               {[p EXCEPT !.status = status, !.version = @ + 1, !.updatedAtMs = at]}]
  BY DEF Transition
<1>5. p \in Principals /\ PrincipalOK(p)
  BY <1>1 DEF HeldOK
<1> DEFINE s == [p EXCEPT !.status = status, !.version = @ + 1, !.updatedAtMs = at]
<1>6. /\ s.id = p.id /\ s.kind = p.kind /\ s.named = p.named
      /\ s.createdAtMs = p.createdAtMs /\ s.status = status
      /\ s.version = p.version + 1 /\ s.updatedAtMs = at
  BY <1>5 DEF Principals
<1>7. /\ p.version \in 1..MaxVersion /\ p.version < MaxVersion /\ MaxVersion \in Nat
      /\ at \in Int /\ p.updatedAtMs \in Int /\ p.createdAtMs \in Int /\ LastInstant \in Nat
      /\ p.updatedAtMs <= at /\ at <= LastInstant
  BY <1>4, <1>5, VersionAssumption, InstantAssumption DEF Allowed, Principals, Instants
<1>8. p.version + 1 \in 1..MaxVersion
  BY <1>7
<1>9. s \in Principals
  BY <1>5, <1>7, <1>8 DEF Principals
<1> HIDE DEF s
<1>10. held' = [held EXCEPT ![h] = {s}]
  BY <1>4 DEF s
<1>11. PrincipalOK(s)'
  <2>1. s.status \in Statuses /\ p.status \in Statuses /\ s.status # p.status
    BY <1>4, <1>5, <1>6 DEF Allowed, Principals
  <2>2. s.status = "active" <=> p.status # "active"
    BY <2>1 DEF Statuses
  <2>3. (p.version + 1) % 2 = 1 <=> p.version % 2 # 1
    BY <1>7
  <2>4. s.status = "active" <=> s.version % 2 = 1
    BY <1>5, <1>6, <2>2, <2>3 DEF PrincipalOK
  <2>5. s.createdAtMs <= s.updatedAtMs
    BY <1>5, <1>6, <1>7 DEF PrincipalOK, Restorable
  <2>6. Restorable(s)
    BY <1>5, <1>6, <1>7, <1>8, <2>1, <2>5 DEF Restorable, PrincipalOK
  <2>7. \E i \in 1..Len(issued') : issued'[i] = s.id
    BY <1>3, <1>5, <1>6 DEF PrincipalOK
  <2> QED  BY <2>4, <2>6, <2>7 DEF PrincipalOK, Restorable
<1>12. ASSUME NEW g \in Holders, NEW q \in held[g] PROVE Same(q, s)
  <2>1. Same(q, p)
    BY <1>1 DEF HeldOK
  <2> QED  BY <2>1, <1>6 DEF Same
<1>13. HeldOK'
  BY <1>1, <1>3, <1>9, <1>10, <1>11, <1>12, RestoreKeeps
<1>14. Descends
  <2>1. s.status # p.status /\ s.updatedAtMs >= p.updatedAtMs
    BY <1>4, <1>6, <1>7 DEF Allowed
  <2> QED  BY <1>1, <1>6, <1>10, <2>1, DescendsWhen
<1> QED  BY <1>2, <1>13, <1>14 DEF IdentityInv

(* Holders in order agree on every version. *)
LEMMA AgreementHolds == IdentityInv => VersionsAgree
<1> SUFFICES ASSUME IdentityInv, NEW h \in Holders, NEW g \in Holders,
                    NEW p \in held[h], NEW q \in held[g]
             PROVE  /\ Restorable(p)
                    /\ p.id = q.id =>
                          /\ p.kind = q.kind /\ p.named = q.named
                          /\ p.createdAtMs = q.createdAtMs
                          /\ p.version = q.version => p.status = q.status
  BY DEF VersionsAgree
<1>1. PrincipalOK(p) /\ PrincipalOK(q) /\ Same(p, q)
  BY DEF IdentityInv, HeldOK
<1>2. p.version = q.version => p.status = q.status
  BY <1>1 DEF PrincipalOK, Restorable, Statuses
<1> QED  BY <1>1, <1>2 DEF PrincipalOK, Same

(* The generator and its principals stay in order, for any holders. *)
THEOREM IdentityInvariant == IdentitySpec => []IdentityInv
<1>1. IdentityInit => IdentityInv
  <2> SUFFICES ASSUME IdentityInit PROVE IdentityInv
    OBVIOUS
  <2>1. V7Inv
    BY CounterAssumption DEF IdentityInit, Init, V7Inv, TypeOK, AllEncoded, MemoryIsNewest,
       StrictlyIncreasing, RunIsIssued, ExhaustionIsEarned, NoTime
  <2>2. HeldOK
    BY DEF IdentityInit, HeldOK
  <2> QED  BY <2>1, <2>2 DEF IdentityInv
<1>2. IdentityInv /\ [IdentityNext]_identityVars => IdentityInv'
  <2> SUFFICES ASSUME IdentityInv, [IdentityNext]_identityVars PROVE IdentityInv'
    OBVIOUS
  <2>1. CASE IdentityNext
    BY <2>1, TimeAssumption, RegisterStep, HandOnStep, TransitionStep DEF IdentityNext
  <2>2. CASE UNCHANGED identityVars
    <3>1. UNCHANGED <<last, counter, issued, result, held>>
      BY <2>2 DEF identityVars, vars
    <3>2. V7Inv'
      BY <3>1 DEF IdentityInv, V7Inv, TypeOK, AllEncoded, MemoryIsNewest, StrictlyIncreasing,
         RunIsIssued, ExhaustionIsEarned
    <3>3. HeldOK'
      BY <3>1, HeldStays DEF IdentityInv
    <3> QED  BY <3>2, <3>3 DEF IdentityInv
  <2> QED  BY <2>1, <2>2
<1> QED  BY <1>1, <1>2, PTL DEF IdentitySpec

(* Principals of one ID agree for ever, and every one of them is registered   *)
(* under a new ID or succeeds what its holder had, for any number of holders, *)
(* IDs and versions (principal.ts: register, restore, transition).            *)
THEOREM PrincipalsDescend == IdentitySpec => PrincipalsAreSound
<1>1. IdentityInv /\ IdentityInv' /\ [IdentityNext]_identityVars
        => [VersionsAgree' /\ Descends]_identityVars
  <2> SUFFICES ASSUME IdentityInv, IdentityInv', IdentityNext PROVE VersionsAgree' /\ Descends
    OBVIOUS
  <2>1. VersionsAgree'
    BY AgreementHolds, PTL
  <2>2. Descends
    BY TimeAssumption, RegisterStep, HandOnStep, TransitionStep DEF IdentityNext
  <2> QED  BY <2>1, <2>2
<1> QED  BY <1>1, IdentityInvariant, PTL DEF IdentitySpec, PrincipalsAreSound

(* A program that registers principals runs the generator of module V7, so   *)
(* what is proved of the generator holds in it.                              *)
THEOREM IdentityRunsGenerator == IdentitySpec => Spec
<1>1. IdentityInit => Init
  BY DEF IdentityInit
<1>2. [IdentityNext]_identityVars => [Next]_vars
  <2> SUFFICES ASSUME [IdentityNext]_identityVars PROVE [Next]_vars
    OBVIOUS
  <2>1. CASE IdentityNext
    BY <2>1 DEF IdentityNext, Register, HandOn, Transition, Next
  <2>2. CASE UNCHANGED identityVars
    BY <2>2 DEF identityVars
  <2> QED  BY <2>1, <2>2
<1> QED  BY <1>1, <1>2, PTL DEF IdentitySpec, Spec

-----------------------------------------------------------------------------
(* What transitions make work and entries from, and what they make. *)
Work ==
    [workId : ID \cup {None}, correlationId : ID \cup {None}, source : {"local", "external"},
     causation : Reference \cup {None}, origin : {"request", "replay", None},
     depth : Nat \cup {None}, replay : ReplayOf \cup {None}]

Entry ==
    [op : {"open", "enter", "replay", "child", "prepare", "execute", "retry", "receive"},
     from : Nat, work : Work, scopeId : ID \cup {None}, attempt : Nat, previous : ID \cup {None}]

(* An entry that restoreScope, or for prepared and received work restoreWork, accepts. *)
Restores(e) == IF e.scopeId # None THEN ValidScope(e) ELSE ValidWork(e.work, FALSE)

(* child and prepare make new work; the others go on with the work they have. *)
NewWork(e) == e.op \in {"child", "prepare"}

(* How an entry follows the one it was made from: the single step, of which   *)
(* the properties of a lineage are the sum.                                    *)
Follows(e, p) ==
    /\ e.work.correlationId = p.work.correlationId /\ e.work.source = p.work.source
    /\ e.work.origin = p.work.origin /\ e.work.replay = p.work.replay
    /\ e.work.depth = IF p.work.depth = None THEN None
                      ELSE IF NewWork(e) THEN p.work.depth + 1 ELSE p.work.depth
    /\ NewWork(e) => e.work.workId # p.work.workId /\ e.scopeId # p.scopeId
    /\ e.op = "retry" =>
          e.work = p.work /\ e.attempt > p.attempt /\ e.previous = p.scopeId
    /\ e.op = "receive" => e.work = p.work

(* An entry in its place: made of an earlier one, or of none. *)
Placed(i) ==
    /\ lineage[i].from \in 0..(i - 1)
    /\ Restores(lineage[i])
    /\ IF lineage[i].from = 0 THEN ~NewWork(lineage[i]) /\ lineage[i].op # "retry"
       ELSE Follows(lineage[i], lineage[lineage[i].from])

LineageInv ==
    /\ lineage \in Seq(Entry)
    /\ Len(lineage) <= MaxEntries
    /\ answer \in Answers
    /\ fresh \in BOOLEAN
    /\ CollisionIsReal
    /\ \A i \in 1..Len(lineage) : Placed(i)

(* Every non-empty set of naturals has a least element: induction, here and    *)
(* below, is the impossibility of a least counterexample.                      *)
LEMMA LeastNatural ==
    ASSUME NEW T \in SUBSET Nat, T # {}
    PROVE  \E x \in T : \A y \in T : x <= y
<1> DEFINE R == {ss \in Nat \X Nat : ss[1] < ss[2]}
<1>1. \A x, y \in Nat : y < x => <<y, x>> \in R
  OBVIOUS
<1>2. IsWellFoundedOn(R, Nat)
  BY NatLessThanWellFounded DEF OpToRel
<1> HIDE DEF R
<1>3. PICK x \in T : \A y \in T : <<y, x>> \notin R
  BY <1>2, WFMin
<1>4. \A y \in T : ~(y < x)
  BY <1>1, <1>3
<1> QED
  BY <1>3, <1>4

(* The fields of work. *)
LEMMA WorkFields ==
    ASSUME NEW w \in Work
    PROVE  /\ w.workId \in ID \cup {None} /\ w.correlationId \in ID \cup {None}
           /\ w.source \in {"local", "external"} /\ w.causation \in Reference \cup {None}
           /\ w.origin \in {"request", "replay", None} /\ w.depth \in Nat \cup {None}
           /\ w.replay \in ReplayOf \cup {None}
BY DEF Work

(* The fields of entries. *)
LEMMA EntryFields ==
    ASSUME LineageInv, NEW i \in 1..Len(lineage)
    PROVE  /\ lineage[i] \in Entry
           /\ lineage[i].from \in 0..(i - 1) /\ lineage[i].work \in Work
           /\ lineage[i].scopeId \in ID \cup {None} /\ lineage[i].attempt \in Nat
           /\ lineage[i].previous \in ID \cup {None}
<1>1. lineage[i] \in Entry /\ lineage[i].from \in 0..(i - 1)
  BY DEF LineageInv, Placed
<1> QED
  BY <1>1 DEF Entry

(* g is a at the indices without a link and otherwise what it is at the linked *)
(* index, one more in B: the shape of RootOf and of Hops.                      *)
FollowsLinks(g, n, p, a, B) ==
    g = [i \in 1..n |-> IF p[i] = 0 THEN a[i]
                        ELSE IF i \in B THEN g[p[i]] + 1 ELSE g[p[i]]]

(* A function that is defined along links to earlier indices exists: the       *)
(* shortest prefix without one could be extended by its last index.            *)
LEMMA LinkedFunctionExists ==
    ASSUME NEW N \in Nat, NEW p, NEW a, NEW B, \A i \in 1..N : p[i] \in 0..(i - 1)
    PROVE  \E g : FollowsLinks(g, N, p, a, B)
<1> DEFINE T == {n \in 0..N : ~\E g : FollowsLinks(g, n, p, a, B)}
<1>1. SUFFICES ASSUME T # {} PROVE FALSE
  <2>1. N \in 0..N
    OBVIOUS
  <2> QED
    BY <1>1, <2>1
<1>2. PICK m \in T : \A k \in T : m <= k
  <2>1. T \in SUBSET Nat
    OBVIOUS
  <2> HIDE DEF T
  <2> QED
    BY <1>1, <2>1, LeastNatural
<1>3. m # 0
  <2> DEFINE e == [i \in {} |-> i]
  <2>1. 1..0 = {}
    OBVIOUS
  <2>2. FollowsLinks(e, 0, p, a, B)
    BY <2>1 DEF FollowsLinks
  <2> HIDE DEF e
  <2> QED
    BY <2>2
<1>4. m \in 1..N /\ m - 1 \in 0..N /\ m - 1 \notin T
  <2>1. m \in 0..N
    BY <1>2
  <2>2. m - 1 \notin T
    <3> HIDE DEF T
    <3> QED
      BY <1>2, <2>1
  <2> QED
    BY <1>3, <2>1, <2>2
<1>5. PICK g : FollowsLinks(g, m - 1, p, a, B)
  BY <1>4
<1> DEFINE h == [i \in 1..m |-> IF i < m THEN g[i] ELSE IF p[m] = 0 THEN a[m]
                                ELSE IF m \in B THEN g[p[m]] + 1 ELSE g[p[m]]]
<1>6. ASSUME NEW i \in 1..m
      PROVE  h[i] = IF p[i] = 0 THEN a[i] ELSE IF i \in B THEN h[p[i]] + 1 ELSE h[p[i]]
  <2>1. p[i] \in 0..(i - 1) /\ m \in Nat
    BY <1>4
  <2>2. p[i] # 0 => h[p[i]] = g[p[i]]
    BY <2>1
  <2>3. CASE i < m
    <3>1. i \in 1..(m - 1) /\ h[i] = g[i]
      BY <2>1, <2>3
    <3>2. g[i] = IF p[i] = 0 THEN a[i] ELSE IF i \in B THEN g[p[i]] + 1 ELSE g[p[i]]
      BY <1>5, <3>1 DEF FollowsLinks
    <3> QED
      BY <3>1, <3>2, <2>2
  <2>4. CASE i = m
    BY <2>1, <2>2, <2>4
  <2> QED
    BY <2>1, <2>3, <2>4
<1>7. FollowsLinks(h, m, p, a, B)
  <2>1. h = [i \in 1..m |-> h[i]]
    OBVIOUS
  <2> HIDE DEF h
  <2> QED
    BY <1>6, <2>1 DEF FollowsLinks
<1>8. \E f : FollowsLinks(f, m, p, a, B)
  <2> HIDE DEF h
  <2> QED
    BY <1>7
<1> QED
  BY <1>2, <1>8

(* RootOf and Hops are what their equations say, since every link of a lineage *)
(* leads to an earlier entry.                                                  *)
LEMMA LineageEquations ==
    ASSUME LineageInv
    PROVE  \A i \in 1..Len(lineage) :
              /\ RootOf[i] = IF lineage[i].from = 0 THEN i ELSE RootOf[lineage[i].from]
              /\ Hops[i] = IF lineage[i].from = 0 THEN 0
                           ELSE IF NewWork(lineage[i]) THEN Hops[lineage[i].from] + 1
                           ELSE Hops[lineage[i].from]
<1> DEFINE N == Len(lineage)
           p == [i \in 1..N |-> lineage[i].from]
<1>1. N \in Nat /\ DOMAIN lineage = 1..N
  BY DEF LineageInv
<1>2. \A i \in 1..N : p[i] \in 0..(i - 1)
  BY DEF LineageInv, Placed
<1>3. \A i \in 1..N : RootOf[i] = IF lineage[i].from = 0 THEN i ELSE RootOf[lineage[i].from]
  <2> DEFINE a == [i \in 1..N |-> i]
             IsRootOf(g) ==
                g = [i \in 1..N |-> IF lineage[i].from = 0 THEN i ELSE g[lineage[i].from]]
  <2>1. PICK g : FollowsLinks(g, N, p, a, {})
    <3> HIDE DEF N, p, a
    <3> QED
      BY <1>1, <1>2, LinkedFunctionExists
  <2>2. IsRootOf(g)
    BY <2>1 DEF FollowsLinks
  <2>3. RootOf = CHOOSE f : IsRootOf(f)
    BY <1>1 DEF RootOf
  <2>4. IsRootOf(RootOf)
    <3> HIDE DEF IsRootOf
    <3> QED
      BY <2>2, <2>3
  <2> QED
    BY <2>4
<1>4. \A i \in 1..N :
         Hops[i] = IF lineage[i].from = 0 THEN 0
                   ELSE IF NewWork(lineage[i]) THEN Hops[lineage[i].from] + 1
                   ELSE Hops[lineage[i].from]
  <2> DEFINE a == [i \in 1..N |-> 0]
             B == {i \in 1..N : NewWork(lineage[i])}
             IsHops(g) ==
                g = [i \in 1..N |-> IF lineage[i].from = 0 THEN 0
                                    ELSE IF lineage[i].op \in {"child", "prepare"}
                                         THEN g[lineage[i].from] + 1
                                    ELSE g[lineage[i].from]]
  <2>1. PICK g : FollowsLinks(g, N, p, a, B)
    <3> HIDE DEF N, p, a, B
    <3> QED
      BY <1>1, <1>2, LinkedFunctionExists
  <2>2. IsHops(g)
    BY <2>1 DEF FollowsLinks, NewWork
  <2>3. Hops = CHOOSE f : IsHops(f)
    BY <1>1 DEF Hops
  <2>4. IsHops(Hops)
    <3> HIDE DEF IsHops
    <3> QED
      BY <2>2, <2>3
  <2> QED
    BY <2>4 DEF NewWork
<1> QED
  BY <1>3, <1>4

(* What each step keeps, the whole lineage keeps: the first entry that had lost *)
(* something against its root would have lost it in its last step.              *)
LEMMA StepsAddUp ==
    ASSUME LineageInv
    PROVE  LineageIsKept
<1> DEFINE N == Len(lineage)
           Kept(i) ==
              /\ lineage[i].work.correlationId = lineage[RootOf[i]].work.correlationId
              /\ lineage[i].work.source = lineage[RootOf[i]].work.source
              /\ lineage[i].work.origin = lineage[RootOf[i]].work.origin
              /\ lineage[i].work.replay = lineage[RootOf[i]].work.replay
           Counted(i) ==
              lineage[i].work.depth = IF lineage[RootOf[i]].work.depth = None THEN None
                                      ELSE lineage[RootOf[i]].work.depth + Hops[i]
           Good(i) == RootOf[i] \in 1..N /\ Hops[i] \in Nat /\ Kept(i) /\ Counted(i)
           T == {i \in 1..N : ~Good(i)}
<1>1. N \in Nat /\ DOMAIN lineage = 1..N
  BY DEF LineageInv
<1>2. \A i \in 1..N : lineage[i].work.depth \in Nat \cup {None}
  BY EntryFields, WorkFields
<1>3. None \notin Nat
  BY NoneAssumption DEF FieldValues
<1>4. SUFFICES ASSUME T # {} PROVE FALSE
  <2>1. \A i \in 1..N : Kept(i) /\ Counted(i)
    BY <1>4
  <2> QED
    BY <1>1, <2>1 DEF LineageIsKept
<1>5. PICK m \in T : \A k \in T : m <= k
  <2>1. T \in SUBSET Nat
    BY <1>1
  <2> HIDE DEF T
  <2> QED
    BY <1>4, <2>1, LeastNatural
<1>6. m \in 1..N /\ ~Good(m)
  BY <1>5
<1> DEFINE f == lineage[m].from
<1>7. f \in 0..(m - 1)
  BY <1>6 DEF LineageInv, Placed
<1>8. CASE f = 0
  <2>1. RootOf[m] = m /\ Hops[m] = 0
    BY <1>6, <1>8, LineageEquations
  <2>2. Counted(m)
    BY <1>2, <1>6, <2>1
  <2> QED
    BY <1>6, <2>1, <2>2
<1>9. CASE f # 0
  <2>1. f \in 1..N /\ f \notin T
    <3>1. f \in 1..N
      BY <1>1, <1>6, <1>7, <1>9
    <3>2. f \notin T
      <4> HIDE DEF T
      <4> QED
        BY <1>5, <1>6, <1>7
    <3> QED
      BY <3>1, <3>2
  <2>2. Good(f)
    BY <2>1
  <2>3. Follows(lineage[m], lineage[f])
    BY <1>6, <1>9 DEF LineageInv, Placed
  <2>4. /\ RootOf[m] = RootOf[f]
        /\ Hops[m] = IF NewWork(lineage[m]) THEN Hops[f] + 1 ELSE Hops[f]
    BY <1>6, <1>9, LineageEquations
  <2>5. RootOf[m] \in 1..N /\ Hops[m] \in Nat
    BY <2>2, <2>4
  <2>6. Kept(m)
    BY <2>2, <2>3, <2>4 DEF Follows
  <2>7. Counted(m)
    <3>1. lineage[m].work.depth = IF lineage[f].work.depth = None THEN None
                      ELSE IF NewWork(lineage[m]) THEN lineage[f].work.depth + 1
                      ELSE lineage[f].work.depth
      BY <2>3 DEF Follows
    <3>2. lineage[RootOf[f]].work.depth \in Nat \cup {None}
      BY <1>2, <2>2
    <3>3. Counted(f) /\ Hops[f] \in Nat
      BY <2>2
    <3> QED
      BY <1>3, <2>4, <3>1, <3>2, <3>3
  <2> QED
    BY <1>6, <2>5, <2>6, <2>7
<1> QED
  BY <1>8, <1>9

(* Work is a function of its seven fields, none of which is a sentinel of the *)
(* encoding.                                                                   *)
LEMMA WorkIsItsFields ==
    ASSUME NEW w \in Work
    PROVE  /\ w = [f \in DOMAIN w |-> w[f]]
           /\ DOMAIN w = {"workId", "correlationId", "source", "causation", "origin", "depth",
                          "replay"}
           /\ \A f \in DOMAIN w : w[f] \notin {Absent, Null}
<1>1. DOMAIN w = {"workId", "correlationId", "source", "causation", "origin", "depth", "replay"}
  BY DEF Work
<1>2. w = [f \in DOMAIN w |-> w[f]]
  BY DEF Work
<1>3. \A f \in DOMAIN w : w[f] \in FieldValues \cup {None}
  <2>1. /\ w.workId \in FieldValues \cup {None} /\ w.correlationId \in FieldValues \cup {None}
        /\ w.source \in FieldValues \cup {None} /\ w.causation \in FieldValues \cup {None}
        /\ w.origin \in FieldValues \cup {None} /\ w.depth \in FieldValues \cup {None}
        /\ w.replay \in FieldValues \cup {None}
    BY WorkFields DEF FieldValues
  <2> QED
    BY <1>1, <2>1
<1>4. \A f \in DOMAIN w : w[f] \notin {Absent, Null}
  BY <1>3, WireAssumption
<1> QED
  BY <1>1, <1>2, <1>4

(* What workIn reads of an encoding from which fields were lost, in either     *)
(* form of missing fields: the work without them; and if nothing was lost that *)
(* it had, the work itself.                                                    *)
LEMMA WireRoundTrip ==
    ASSUME NEW w \in Work, NEW lost, NEW nulls
    PROVE  LET read == WorkIn(Nulled(Stripped(WorkOut(w), lost), nulls)) IN
           /\ read = [f \in DOMAIN w |-> IF f \in lost THEN None ELSE w[f]]
           /\ Stripped(WorkOut(w), lost) = WorkOut(w) => read = w
<1> DEFINE sent == WorkOut(w)
           stripped == Stripped(sent, lost)
           wire == Nulled(stripped, nulls)
           read == WorkIn(wire)
           rest == [f \in DOMAIN w |-> IF f \in lost THEN None ELSE w[f]]
<1>1. \A f \in DOMAIN w : w[f] # Absent /\ w[f] # Null
  BY WorkIsItsFields
<1>2. Absent # Null /\ Absent # None
  BY WireAssumption
<1>3. /\ DOMAIN sent = DOMAIN w
      /\ \A f \in DOMAIN w : sent[f] = IF w[f] = None THEN Absent ELSE w[f]
  BY DEF WorkOut
<1>4. /\ DOMAIN stripped = DOMAIN w
      /\ \A f \in DOMAIN w : stripped[f] = IF f \in lost THEN Absent ELSE sent[f]
  BY <1>3 DEF Stripped
<1>5. /\ DOMAIN wire = DOMAIN w
      /\ \A f \in DOMAIN w :
            wire[f] = IF f \in nulls /\ stripped[f] = Absent THEN Null ELSE stripped[f]
  BY <1>4 DEF Nulled
<1>6. read = [f \in DOMAIN w |-> IF wire[f] \in {Absent, Null} THEN None ELSE wire[f]]
  BY <1>5 DEF WorkIn
<1>7. \A f \in DOMAIN w :
         (IF wire[f] \in {Absent, Null} THEN None ELSE wire[f])
           = (IF f \in lost THEN None ELSE w[f])
  <2> HIDE DEF wire, stripped, sent
  <2> QED
    BY <1>1, <1>2, <1>3, <1>4, <1>5
<1>8. read = rest
  <2> HIDE DEF wire, read
  <2> QED
    BY <1>6, <1>7
<1>9. ASSUME stripped = sent PROVE rest = w
  <2>1. \A f \in DOMAIN w : f \in lost => w[f] = None
    <3> HIDE DEF stripped, sent
    <3> QED
      BY <1>1, <1>3, <1>4, <1>9
  <2>2. \A f \in DOMAIN w : (IF f \in lost THEN None ELSE w[f]) = w[f]
    BY <2>1
  <2>3. w = [f \in DOMAIN w |-> w[f]]
    BY WorkIsItsFields
  <2> QED
    BY <2>2, <2>3
<1> QED
  BY <1>8, <1>9

(* Work whose optional fields were lost is still work. *)
LEMMA StrippedIsWork ==
    ASSUME NEW w \in Work, NEW lost \in SUBSET Optional
    PROVE  [f \in DOMAIN w |-> IF f \in lost THEN None ELSE w[f]] \in Work
<1> DEFINE rest == [f \in DOMAIN w |-> IF f \in lost THEN None ELSE w[f]]
<1>1. DOMAIN w = {"workId", "correlationId", "source", "causation", "origin", "depth", "replay"}
  BY WorkIsItsFields
<1>2. "workId" \notin lost /\ "correlationId" \notin lost /\ "source" \notin lost
  BY DEF Optional
<1>3. /\ rest.workId = w.workId /\ rest.correlationId = w.correlationId
      /\ rest.source = w.source
      /\ rest.causation \in {w.causation, None} /\ rest.origin \in {w.origin, None}
      /\ rest.depth \in {w.depth, None} /\ rest.replay \in {w.replay, None}
  BY <1>1, <1>2
<1>4. rest = [workId |-> rest.workId, correlationId |-> rest.correlationId,
              source |-> rest.source, causation |-> rest.causation, origin |-> rest.origin,
              depth |-> rest.depth, replay |-> rest.replay]
  BY <1>1
<1> HIDE DEF rest
<1>5. rest \in Work
  BY <1>3, <1>4, WorkFields DEF Work
<1> QED
  BY <1>5 DEF rest

(* What the invariant says of each entry and its origin is what the run       *)
(* checks of the transitions.                                                  *)
LEMMA PlacedIsSound ==
    ASSUME LineageInv
    PROVE  TransitionsAreSound
<1>1. DOMAIN lineage = 1..Len(lineage)
  BY DEF LineageInv
<1>2. ASSUME NEW i \in 1..Len(lineage)
      PROVE  /\ Restores(lineage[i])
             /\ NewWork(lineage[i]) \/ lineage[i].op = "retry" => lineage[i].from # 0
             /\ lineage[i].from # 0 => Follows(lineage[i], lineage[lineage[i].from])
  BY DEF LineageInv, Placed
<1>3. LineageTypeOK
  BY <1>1, <1>2 DEF LineageTypeOK, LineageInv, Restores, IsScope
<1>4. ChildIsNewWork
  BY <1>1, <1>2 DEF ChildIsNewWork, NewWork, Follows
<1>5. RetriesGoOn
  BY <1>1, <1>2 DEF RetriesGoOn, Follows
<1> QED
  BY <1>3, <1>4, <1>5 DEF TransitionsAreSound, LineageInv

(* What was received is what was sent, and what an entry sends can be read. *)
LEMMA WireIsSound ==
    ASSUME LineageInv
    PROVE  LineageCrossesTheWire
<1>1. DOMAIN lineage = 1..Len(lineage)
  BY DEF LineageInv
<1>2. ASSUME NEW i \in 1..Len(lineage), lineage[i].op = "receive", lineage[i].from # 0
      PROVE  lineage[i].work = lineage[lineage[i].from].work
  BY <1>2 DEF LineageInv, Placed, Follows
<1>3. ASSUME NEW i \in 1..Len(lineage)
      PROVE  Decodes("good", "fits", WorkOut(lineage[i].work))
  <2> DEFINE w == lineage[i].work
             sent == WorkOut(w)
  <2>1. w \in Work
    BY <1>3, EntryFields
  <2>2. ValidWork(w, FALSE)
    BY <1>3 DEF LineageInv, Placed, Restores, ValidScope
  <2>3. Stripped(sent, {}) = sent /\ Nulled(sent, {}) = sent
    <3>1. sent = [f \in DOMAIN sent |-> sent[f]]
      BY DEF WorkOut
    <3> HIDE DEF sent
    <3> QED
      BY <3>1 DEF Stripped, Nulled
  <2>4. WorkIn(sent) = w
    <3> HIDE DEF w
    <3>1. WorkIn(Nulled(Stripped(WorkOut(w), {}), {})) = w
      BY <2>1, <2>3, WireRoundTrip
    <3> QED
      BY <2>3, <3>1
  <2> QED
    BY <2>2, <2>4 DEF Decodes
<1> QED
  BY <1>1, <1>2, <1>3, StepsAddUp DEF LineageCrossesTheWire

(* An entry that can be restored and follows the one it was made from finds   *)
(* its place at the end.                                                       *)
LEMMA GrowKeepsInv ==
    ASSUME LineageInv, Len(lineage) < MaxEntries, NEW e \in Entry,
           lineage' = Append(lineage, e), Restores(e),
           e.from \in 0..Len(lineage),
           IF e.from = 0 THEN ~NewWork(e) /\ e.op # "retry" ELSE Follows(e, lineage[e.from]),
           answer' \in Answers, fresh' \in BOOLEAN,
           CollisionIsReal'
    PROVE  LineageInv'
<1>0. PICK N \in Nat : N = Len(lineage)
  BY DEF LineageInv
<1>1. lineage \in Seq(Entry) /\ N \in Nat /\ MaxEntries \in Nat
  BY <1>0, LimitAssumption DEF LineageInv
<1>2. /\ lineage' \in Seq(Entry) /\ Len(lineage') = N + 1 /\ lineage'[N + 1] = e
      /\ \A i \in 1..N : lineage'[i] = lineage[i]
  BY <1>0, <1>1
<1>3. ASSUME NEW i \in 1..N PROVE Placed(i)'
  <2>1. Placed(i)
    BY <1>0, <1>3 DEF LineageInv
  <2>2. lineage'[i] = lineage[i]
    BY <1>2
  <2>3. lineage[i].from # 0 => lineage'[lineage[i].from] = lineage[lineage[i].from]
    BY <1>1, <1>2, <2>1 DEF Placed
  <2> QED
    BY <2>1, <2>2, <2>3 DEF Placed
<1>4. Placed(N + 1)'
  <2>1. e.from # 0 => lineage'[e.from] = lineage[e.from]
    BY <1>0, <1>1, <1>2
  <2>2. e.from \in 0..((N + 1) - 1)
    BY <1>0, <1>1
  <2> QED
    BY <1>2, <2>1, <2>2 DEF Placed
<1>5. \A i \in 1..Len(lineage') : Placed(i)'
  <2> SUFFICES ASSUME NEW i \in 1..Len(lineage') PROVE Placed(i)'
    OBVIOUS
  <2>1. i \in 1..N \/ i = N + 1
    BY <1>1, <1>2
  <2> QED
    BY <1>3, <1>4, <2>1
<1>6. Len(lineage') <= MaxEntries
  BY <1>0, <1>1, <1>2
<1> QED
  BY <1>2, <1>5, <1>6 DEF LineageInv

(* A refusal makes nothing. *)
LEMMA RefuseKeepsInv ==
    ASSUME LineageInv, NEW why \in Answers \ {"generated"}, Refuse(why)
    PROVE  LineageInv'
BY DEF LineageInv, Answers, Refuse, CollisionIsReal, Placed, Restores, Follows, NewWork

(* What a draft gets for the IDs it leaves out. *)
LEMMA DefaultsFields ==
    ASSUME NEW w \in Work, NEW id \in ID
    PROVE  LET d == Defaults(w, id) IN
           /\ d \in Work
           /\ d.workId = IF w.workId = None THEN id ELSE w.workId
           /\ d.correlationId = IF w.correlationId = None THEN id ELSE w.correlationId
           /\ d.replay = IF w.replay # None /\ w.replay.runId = None
                         THEN [runId |-> id, source |-> w.replay.source] ELSE w.replay
           /\ d.source = w.source /\ d.causation = w.causation
           /\ d.origin = w.origin /\ d.depth = w.depth
<1> DEFINE d == Defaults(w, id)
           r == IF w.replay # None /\ w.replay.runId = None
                THEN [runId |-> id, source |-> w.replay.source] ELSE w.replay
<1>1. w.replay # None => w.replay \in ReplayOf
  BY WorkFields
<1>2. w.replay # None => [w.replay EXCEPT !.runId = id] = [runId |-> id, source |-> w.replay.source]
  BY <1>1 DEF ReplayOf
<1>3. r \in ReplayOf \cup {None}
  BY <1>1, WorkFields DEF ReplayOf
<1>4. w = [workId |-> w.workId, correlationId |-> w.correlationId, source |-> w.source,
           causation |-> w.causation, origin |-> w.origin, depth |-> w.depth,
           replay |-> w.replay]
  BY DEF Work
<1>5. (IF w.replay # None /\ w.replay.runId = None
       THEN [w.replay EXCEPT !.runId = id] ELSE w.replay) = r
  BY <1>2
<1> HIDE DEF r
<1>6. d = [workId |-> IF w.workId = None THEN id ELSE w.workId,
           correlationId |-> IF w.correlationId = None THEN id ELSE w.correlationId,
           source |-> w.source, causation |-> w.causation, origin |-> w.origin,
           depth |-> w.depth, replay |-> r]
  <2>1. ASSUME NEW x, NEW y, NEW z
        PROVE  [w EXCEPT !.workId = x, !.correlationId = y, !.replay = z]
                 = [workId |-> x, correlationId |-> y, source |-> w.source,
                    causation |-> w.causation, origin |-> w.origin, depth |-> w.depth,
                    replay |-> z]
    <3>0. PICK v : v = [w EXCEPT !.workId = x, !.correlationId = y, !.replay = z]
      OBVIOUS
    <3>1. /\ DOMAIN v = DOMAIN w
          /\ DOMAIN w = {"workId", "correlationId", "source", "causation", "origin", "depth",
                         "replay"}
      BY <3>0, WorkIsItsFields
    <3>2. /\ v.workId = x /\ v.correlationId = y /\ v.replay = z /\ v.source = w.source
          /\ v.causation = w.causation /\ v.origin = w.origin /\ v.depth = w.depth
      BY <3>0, <3>1
    <3>3. v = [f \in DOMAIN v |-> v[f]]
      BY <3>0
    <3>4. v = [workId |-> x, correlationId |-> y, source |-> w.source,
               causation |-> w.causation, origin |-> w.origin, depth |-> w.depth,
               replay |-> z]
      BY <3>1, <3>2, <3>3
    <3> QED
      BY <3>0, <3>4
  <2>2. d = [w EXCEPT !.workId = IF w.workId = None THEN id ELSE w.workId,
                      !.correlationId = IF w.correlationId = None THEN id ELSE w.correlationId,
                      !.replay = r]
    BY <1>5 DEF Defaults
  <2> HIDE DEF d
  <2> QED
    BY <2>1, <2>2
<1>7. d \in Work
  <2> HIDE DEF d
  <2> QED
    BY <1>3, <1>6, WorkFields DEF Work
<1> HIDE DEF d
<1>8. /\ d.workId = IF w.workId = None THEN id ELSE w.workId
      /\ d.correlationId = IF w.correlationId = None THEN id ELSE w.correlationId
      /\ d.replay = r
      /\ d.source = w.source /\ d.causation = w.causation
      /\ d.origin = w.origin /\ d.depth = w.depth
  BY <1>6
<1> QED
  BY <1>7, <1>8 DEF d, r

(* Work that is complete is executed as it is. *)
LEMMA CompleteWorkIsKept ==
    ASSUME NEW w \in Work, NEW id \in ID, ValidWork(w, FALSE)
    PROVE  Defaults(w, id) = w
<1>1. w.workId # None /\ w.correlationId # None
  BY DEF ValidWork
<1>2. w.replay # None => w.replay.runId # None
  BY DEF ValidWork
<1>3. w = [w EXCEPT !.workId = w.workId, !.correlationId = w.correlationId, !.replay = w.replay]
  BY DEF Work
<1> QED
  BY <1>1, <1>2, <1>3 DEF Defaults

(* The IDs of one piece of work are known to whoever makes something of it. *)
LEMMA WorkIDsOf ==
    ASSUME NEW w \in Work
    PROVE  /\ w.workId # None => w.workId \in WorkIDs(w)
           /\ w.correlationId # None => w.correlationId \in WorkIDs(w)
           /\ w.causation # None => w.causation.id \in WorkIDs(w)
           /\ w.replay # None => w.replay.source.id \in WorkIDs(w)
<1>1. w.causation # None => w.causation.id \in ID
  BY WorkFields DEF Reference
<1>2. w.replay # None => w.replay.source.id \in ID
  BY WorkFields DEF Reference, ReplayOf
<1>3. None \notin ID
  BY NoneAssumption DEF FieldValues
<1> QED
  BY <1>1, <1>2, <1>3 DEF WorkIDs

(* A draft with a new ID for what it leaves out is valid work. *)
LEMMA FreshIsValid ==
    ASSUME NEW w \in Work, NEW id \in ID, id \notin WorkIDs(w), ValidWork(w, TRUE)
    PROVE  ValidWork(Defaults(w, id), FALSE)
<1>0. PICK d : d = Defaults(w, id)
  OBVIOUS
<1>1. /\ d.workId = IF w.workId = None THEN id ELSE w.workId
      /\ d.correlationId = IF w.correlationId = None THEN id ELSE w.correlationId
      /\ d.replay = IF w.replay # None /\ w.replay.runId = None
                    THEN [runId |-> id, source |-> w.replay.source] ELSE w.replay
      /\ d.source = w.source /\ d.causation = w.causation
      /\ d.origin = w.origin /\ d.depth = w.depth
  BY <1>0, DefaultsFields
<1>2. None \notin ID /\ None \notin ReplayOf
  BY NoneAssumption DEF FieldValues
<1>3. w.replay # None => w.replay \in ReplayOf
  BY WorkFields
<1>4. /\ d.replay # None <=> w.replay # None
      /\ w.replay # None => d.replay.runId # None /\ d.replay.source = w.replay.source
  BY <1>1, <1>2, <1>3 DEF ReplayOf
<1>5. d.workId # None /\ d.correlationId # None
  BY <1>1, <1>2
<1>6. d.causation # None => d.causation # [kind |-> "work", id |-> d.workId]
  <2>1. CASE w.workId = None
    BY <1>1, <2>1, WorkIDsOf
  <2>2. CASE w.workId # None
    BY <1>1, <2>2 DEF ValidWork
  <2> QED
    BY <2>1, <2>2
<1>7. w.replay # None => d.replay.source # [kind |-> "work", id |-> d.workId]
  <2>1. CASE w.workId = None
    BY <1>1, <1>4, <2>1, WorkIDsOf
  <2>2. CASE w.workId # None
    BY <1>1, <1>4, <2>2 DEF ValidWork
  <2> QED
    BY <2>1, <2>2
<1>8. ValidWork(d, FALSE)
  BY <1>1, <1>4, <1>5, <1>6, <1>7 DEF ValidWork
<1> QED
  BY <1>0, <1>8

(* The IDs of every entry are known. *)
LEMMA EntryIDsAreKnown ==
    ASSUME LineageInv, NEW i \in 1..Len(lineage), NEW w
    PROVE  /\ lineage[i].scopeId \in Known(w)
           /\ ValidWork(lineage[i].work, FALSE) => lineage[i].work.workId \in Known(w)
<1>1. i \in DOMAIN lineage /\ lineage[i].work \in Work
  BY EntryFields DEF LineageInv
<1>2. lineage[i].scopeId \in Known(w)
  BY <1>1 DEF Known
<1>3. ASSUME ValidWork(lineage[i].work, FALSE) PROVE lineage[i].work.workId \in Known(w)
  <2>1. lineage[i].work.workId \in WorkIDs(lineage[i].work)
    BY <1>1, <1>3, WorkIDsOf DEF ValidWork
  <2> QED
    BY <1>1, <2>1 DEF Known
<1> QED
  BY <1>2, <1>3

(* What #emit needs of the transition that calls it: a typed draft, IDs it    *)
(* forbids that are known, and that a scope it accepts finds its place.        *)
Emits(op, from, w, attempt, previous, forbidden, id) ==
    /\ op \in {"open", "enter", "replay", "child", "execute", "retry"}
    /\ from \in 0..Len(lineage)
    /\ w \in Work
    /\ attempt \in Int
    /\ previous \in ID \cup {None}
    /\ previous # None => previous \in forbidden /\ attempt # 1
    /\ forbidden \subseteq Known(w)
    /\ id \notin forbidden =>
          LET made == Make(op, from, Defaults(w, id), id, attempt, previous) IN
          IF from = 0 THEN ~NewWork(made) /\ op # "retry" ELSE Follows(made, lineage[from])

(* #emit keeps the invariant: it makes a scope that can be restored, or blames *)
(* an ID that was known.                                                       *)
LEMMA EmitKeepsInv ==
    ASSUME LineageInv, Len(lineage) < MaxEntries, NEW id \in ID,
           NEW op, NEW from, NEW w, NEW attempt, NEW previous, NEW forbidden,
           Emits(op, from, w, attempt, previous, forbidden, id),
           Emit(op, from, w, attempt, previous, forbidden, id)
    PROVE  LineageInv'
<1> DEFINE refused == \E why \in {"invalid", "unavailable"} : Refuse(why)
<1>1. CASE refused
  BY <1>1, RefuseKeepsInv DEF Answers
<1>2. CASE ~refused
  <2> attempt \in 1..MaxAttempt /\ ValidWork(w, TRUE)
    BY <1>2 DEF Emit
  <2>0. PICK d : d = Defaults(w, id)
    OBVIOUS
  <2>1. PICK made : made = Make(op, from, d, id, attempt, previous)
    OBVIOUS
  <2>2. /\ made.op = op /\ made.from = from /\ made.work = d /\ made.scopeId = id
        /\ made.attempt = attempt /\ made.previous = previous
    BY <2>1 DEF Make
  <2>3. d \in Work /\ d.causation = w.causation
    BY <2>0, DefaultsFields DEF Emits
  <2>4. made \in Entry
    <3>1. attempt \in Nat /\ from \in Nat
      BY <1>2, LimitAssumption DEF Emits, LineageInv
    <3> QED
      BY <2>1, <2>3, <3>1 DEF Make, Entry, Emits
  <2> DEFINE good == id \notin forbidden /\ ValidScope(made)
  <2>5. /\ fresh' = (id \notin Known(w))
        /\ answer' = IF good THEN "ok" ELSE "generated"
        /\ lineage' = IF good THEN Append(lineage, made) ELSE lineage
    BY <1>2, <2>0, <2>1 DEF Emit
  <2>6. ASSUME id \notin Known(w) PROVE good
    <3>1. WorkIDs(w) \subseteq Known(w)
      BY DEF Known
    <3>2. id \notin forbidden
      BY <2>6 DEF Emits
    <3>3. ValidWork(d, FALSE)
      BY <1>2, <2>0, <2>6, <3>1, FreshIsValid DEF Emits
    <3>4. d.causation # None => d.causation # [kind |-> "scope", id |-> id]
      BY <2>3, <2>6, <3>1, WorkIDsOf DEF Emits
    <3>5. previous # None => previous # id /\ attempt # 1
      BY <3>2 DEF Emits
    <3>6. ValidScope(made)
      BY <1>2, <2>2, <3>3, <3>4, <3>5 DEF ValidScope
    <3> QED
      BY <3>2, <3>6
  <2>7. CollisionIsReal' /\ fresh' \in BOOLEAN
    <3>1. answer' = "generated" => id \in Known(w)
      BY <2>5, <2>6
    <3> QED
      BY <2>5, <3>1 DEF CollisionIsReal
  <2>8. CASE good
    <3>1. lineage' = Append(lineage, made) /\ answer' = "ok"
      BY <2>5, <2>8
    <3>2. Restores(made)
      <4>1. None # id
        BY NoneAssumption DEF FieldValues
      <4> QED
        BY <2>2, <2>8, <4>1 DEF Restores
    <3>3. IF from = 0 THEN ~NewWork(made) /\ op # "retry" ELSE Follows(made, lineage[from])
      BY <2>0, <2>1, <2>8 DEF Emits
    <3>4. from \in 0..Len(lineage)
      BY DEF Emits
    <3> HIDE DEF good
    <3> QED
      BY <2>2, <2>4, <2>7, <3>1, <3>2, <3>3, <3>4, GrowKeepsInv DEF Answers
  <2>9. CASE ~good
    <3>1. lineage' = lineage /\ answer' = "generated"
      BY <2>5, <2>9
    <3> HIDE DEF good
    <3> QED
      BY <2>7, <3>1 DEF Answers, LineageInv, Placed, Restores, Follows, NewWork
  <2> QED
    BY <2>8, <2>9
<1> QED
  BY <1>1, <1>2

(* A function of the seven fields with typed values is work: how an EXCEPT of *)
(* work is typed.                                                              *)
LEMMA FieldsMakeWork ==
    ASSUME NEW v, v = [f \in DOMAIN v |-> v[f]],
           DOMAIN v = {"workId", "correlationId", "source", "causation", "origin", "depth",
                       "replay"},
           v.workId \in ID \cup {None}, v.correlationId \in ID \cup {None},
           v.source \in {"local", "external"}, v.causation \in Reference \cup {None},
           v.origin \in {"request", "replay", None}, v.depth \in Nat \cup {None},
           v.replay \in ReplayOf \cup {None}
    PROVE  v \in Work
<1>1. v = [workId |-> v.workId, correlationId |-> v.correlationId, source |-> v.source,
           causation |-> v.causation, origin |-> v.origin, depth |-> v.depth,
           replay |-> v.replay]
  OBVIOUS
<1> QED
  BY <1>1 DEF Work

(* The drafts of open, of enter and of replay. *)
LEMMA RootDrafts ==
    ASSUME NEW workId \in ID \cup {None}
    PROVE  /\ [NoWork EXCEPT !.workId = workId] \in Work
           /\ \A c \in ID, cause \in Reference \cup {None} :
                [[NoWork EXCEPT !.workId = workId]
                    EXCEPT !.correlationId = c, !.source = "external", !.causation = cause,
                           !.origin = None, !.depth = None] \in Work
           /\ \A r \in ReplayOf :
                /\ [NoWork EXCEPT !.workId = workId, !.origin = "replay", !.replay = r] \in Work
                /\ [NoWork EXCEPT !.workId = workId, !.origin = "replay", !.replay = r].replay = r
<1> DEFINE F == {"workId", "correlationId", "source", "causation", "origin", "depth", "replay"}
<1>0. PICK n : n = NoWork
  OBVIOUS
<1>1. /\ DOMAIN n = F /\ n = [f \in F |-> n[f]]
      /\ n.workId = None /\ n.correlationId = None /\ n.source = "local" /\ n.causation = None
      /\ n.origin = "request" /\ n.depth = 0 /\ n.replay = None
  BY <1>0 DEF NoWork
<1>2. PICK w : w = [n EXCEPT !.workId = workId]
  OBVIOUS
<1>3. /\ DOMAIN w = F /\ w = [f \in F |-> w[f]]
      /\ w.workId = workId /\ w.correlationId = None /\ w.source = "local"
      /\ w.causation = None /\ w.origin = "request" /\ w.depth = 0 /\ w.replay = None
  BY <1>1, <1>2
<1>4. w \in Work
  BY <1>3, FieldsMakeWork
<1>5. ASSUME NEW c \in ID, NEW cause \in Reference \cup {None}
      PROVE  [w EXCEPT !.correlationId = c, !.source = "external", !.causation = cause,
                       !.origin = None, !.depth = None] \in Work
  <2>1. PICK v : v = [w EXCEPT !.correlationId = c, !.source = "external",
                               !.causation = cause, !.origin = None, !.depth = None]
    OBVIOUS
  <2>2. DOMAIN v = F /\ v = [f \in F |-> v[f]]
    BY <1>3, <2>1
  <2>3. /\ v.workId = workId /\ v.correlationId = c /\ v.source = "external"
        /\ v.causation = cause /\ v.origin = None /\ v.depth = None /\ v.replay = None
    BY <1>3, <2>1
  <2>4. v \in Work
    BY <2>2, <2>3, FieldsMakeWork
  <2> QED
    BY <2>1, <2>4
<1>6. ASSUME NEW r \in ReplayOf
      PROVE  /\ [n EXCEPT !.workId = workId, !.origin = "replay", !.replay = r] \in Work
             /\ [n EXCEPT !.workId = workId, !.origin = "replay", !.replay = r].replay = r
  <2>1. PICK v : v = [n EXCEPT !.workId = workId, !.origin = "replay", !.replay = r]
    OBVIOUS
  <2>2. DOMAIN v = F /\ v = [f \in F |-> v[f]]
    BY <1>1, <2>1
  <2>3. /\ v.workId = workId /\ v.correlationId = None /\ v.source = "local"
        /\ v.causation = None /\ v.origin = "replay" /\ v.depth = 0 /\ v.replay = r
    BY <1>1, <2>1
  <2>4. v \in Work
    BY <2>2, <2>3, FieldsMakeWork
  <2> QED
    BY <2>1, <2>3, <2>4
<1> QED
  BY <1>0, <1>2, <1>4, <1>5, <1>6

(* A root keeps the invariant: it comes of no entry. *)
LEMMA RootKeepsInv ==
    ASSUME LineageInv, Len(lineage) < MaxEntries, NEW id \in ID,
           NEW workId \in ID \cup {None}, Root(workId, id)
    PROVE  LineageInv'
<1>0. 0 \in 0..Len(lineage) /\ 1 \in Int
  BY DEF LineageInv
<1>1. ASSUME NEW op \in {"open", "enter", "replay"}, NEW w \in Work, NEW forbidden,
             forbidden \subseteq Known(w)
      PROVE  Emits(op, 0, w, 1, None, forbidden, id)
  BY <1>0, <1>1 DEF Emits, Make, NewWork
<1>2. CASE Open(workId, id)
  <2>1. PICK w \in Work : w = [NoWork EXCEPT !.workId = workId]
    BY RootDrafts
  <2>2. Emit("open", 0, w, 1, None, {}, id)
    BY <1>2, <2>1 DEF Open
  <2> QED
    BY <1>1, <2>2, EmitKeepsInv
<1>3. ASSUME NEW c \in ID \cup {None, Bad}, NEW causation \in Reference \cup {None, Bad},
             Enter(workId, c, causation, id)
      PROVE  LineageInv'
  <2>1. PICK w \in Work : Emit("enter", 0, w, 1, None, {}, id)
    <3> DEFINE i == InspectIncoming(c, causation)
    <3>1. /\ i.cause \in Reference \cup {None}
          /\ i.continued => i.correlation \in ID
      BY DEF InspectIncoming
    <3>2. CASE i.continued
      <4>1. PICK y \in ID, z \in Reference \cup {None} : y = i.correlation /\ z = i.cause
        BY <3>1, <3>2
      <4>2. PICK w \in Work :
               w = [[NoWork EXCEPT !.workId = workId]
                      EXCEPT !.correlationId = y, !.source = "external", !.causation = z,
                             !.origin = None, !.depth = None]
        BY RootDrafts
      <4>3. Emit("enter", 0, w, 1, None, {}, id)
        <5> HIDE DEF i
        <5>1. Enter(workId, c, causation, id) =>
                Emit("enter", 0,
                     [[NoWork EXCEPT !.workId = workId]
                        EXCEPT !.correlationId = i.correlation, !.source = "external",
                               !.causation = i.cause, !.origin = None, !.depth = None],
                     1, None, {}, id)
          BY <3>2 DEF Enter, i
        <5> QED
          BY <1>3, <4>1, <4>2, <5>1
      <4> QED
        BY <4>3
    <3>3. CASE ~i.continued
      BY <1>3, <3>3, RootDrafts DEF Enter
    <3> QED
      BY <3>2, <3>3
  <2> QED
    BY <1>1, <2>1, EmitKeepsInv
<1>4. ASSUME NEW source \in Reference, NEW runId \in ID \cup {None},
             Replay(source, runId, workId, id)
      PROVE  LineageInv'
  <2>1. CASE workId # None /\ source = [kind |-> "work", id |-> workId]
    <3>1. Refuse("invalid")
      BY <1>4, <2>1 DEF Replay
    <3> QED
      BY <3>1, RefuseKeepsInv DEF Answers
  <2>2. CASE ~(workId # None /\ source = [kind |-> "work", id |-> workId])
    <3>1. PICK r \in ReplayOf : r = [runId |-> runId, source |-> source]
      BY DEF ReplayOf
    <3>2. PICK w \in Work :
             /\ w = [NoWork EXCEPT !.workId = workId, !.origin = "replay", !.replay = r]
             /\ w.replay = r
      BY RootDrafts
    <3> DEFINE forbidden == IF source.kind = "scope" THEN {source.id} ELSE {}
    <3>3. Emit("replay", 0, w, 1, None, forbidden, id)
      BY <1>4, <2>2, <3>1, <3>2 DEF Replay
    <3>4. source.id \in Known(w)
      <4>1. w.replay # None /\ w.replay.source.id = source.id
        BY <3>1, <3>2, NoneAssumption DEF FieldValues
      <4> QED
        BY <4>1, WorkIDsOf DEF Known
    <3>5. forbidden \subseteq Known(w)
      BY <3>4
    <3> HIDE DEF forbidden
    <3> QED
      BY <1>1, <3>3, <3>5, EmitKeepsInv
  <2> QED
    BY <2>1, <2>2
<1> QED
  BY <1>2, <1>3, <1>4 DEF Root

(* What childWork makes of the work of a scope. *)
LEMMA ChildWorkFields ==
    ASSUME LineageInv, NEW i \in 1..Len(lineage), IsScope(i),
           NEW workId \in ID \cup {None}, NEW cause \in Reference \cup {None}
    PROVE  LET s == lineage[i]  v == ChildWork(s, workId, cause) IN
           /\ v \in Work
           /\ v.workId = workId /\ v.correlationId = s.work.correlationId
           /\ v.source = s.work.source /\ v.origin = s.work.origin /\ v.replay = s.work.replay
           /\ v.depth = IF s.work.depth = None THEN None ELSE s.work.depth + 1
<1> DEFINE F == {"workId", "correlationId", "source", "causation", "origin", "depth", "replay"}
<1>0. PICK w \in Work : w = lineage[i].work
  BY EntryFields
<1>1. PICK d \in Nat \cup {None} : d = IF w.depth = None THEN None ELSE w.depth + 1
  <2>1. w.depth \in Nat \cup {None}
    BY WorkFields
  <2>2. (IF w.depth = None THEN None ELSE w.depth + 1) \in Nat \cup {None}
    BY <2>1
  <2> QED
    BY <2>2
<1>2. PICK c \in Reference :
         c = IF cause = None THEN [kind |-> "scope", id |-> lineage[i].scopeId] ELSE cause
  BY EntryFields DEF IsScope, Reference
<1>3. PICK v : v = [w EXCEPT !.workId = workId, !.depth = d, !.causation = c]
  OBVIOUS
<1>4. v = ChildWork(lineage[i], workId, cause)
  BY <1>0, <1>1, <1>2, <1>3 DEF ChildWork
<1>5. DOMAIN w = F /\ DOMAIN v = F /\ v = [f \in F |-> v[f]]
  BY <1>3, WorkIsItsFields
<1>6. /\ v.workId = workId /\ v.depth = d /\ v.causation = c
      /\ v.correlationId = w.correlationId /\ v.source = w.source /\ v.origin = w.origin
      /\ v.replay = w.replay
  BY <1>3, <1>5
<1>7. v \in Work
  BY <1>5, <1>6, WorkFields, FieldsMakeWork
<1> QED
  BY <1>0, <1>1, <1>4, <1>6, <1>7

(* child keeps the invariant: the drawn ID is that of no parent. *)
LEMMA ChildKeepsInv ==
    ASSUME LineageInv, Len(lineage) < MaxEntries, NEW id \in ID, NEW i \in 1..Len(lineage),
           NEW workId \in ID \cup {None}, NEW cause \in Reference \cup {None},
           Child(i, workId, cause, id)
    PROVE  LineageInv'
<1>0. PICK s : s = lineage[i]
  OBVIOUS
<1>1. PICK refusal : refusal = ChildRefusal(s, workId, cause)
  OBVIOUS
<1>2. refusal \in {"ok", "invalid", "exhausted"}
  BY <1>1 DEF ChildRefusal
<1>3. CASE refusal # "ok"
  <2>1. Refuse(refusal)
    BY <1>0, <1>1, <1>3 DEF Child
  <2> QED
    BY <1>2, <1>3, <2>1, RefuseKeepsInv DEF Answers
<1>4. CASE refusal = "ok"
  <2>0. PICK w : w = ChildWork(s, workId, cause)
    OBVIOUS
  <2>1. PICK forbidden :
           forbidden = {s.scopeId} \cup (IF workId = None THEN {s.work.workId} ELSE {})
    OBVIOUS
  <2>2. Emit("child", i, w, 1, None, forbidden, id)
    BY <1>0, <1>1, <1>4, <2>0, <2>1 DEF Child
  <2>3. /\ w \in Work
        /\ w.workId = workId /\ w.correlationId = s.work.correlationId
        /\ w.source = s.work.source /\ w.origin = s.work.origin /\ w.replay = s.work.replay
        /\ w.depth = IF s.work.depth = None THEN None ELSE s.work.depth + 1
    BY <1>0, <2>0, ChildWorkFields DEF Child
  <2>4. s.work \in Work /\ ValidWork(s.work, FALSE)
    BY <1>0, EntryFields DEF LineageInv, Placed, Restores, ValidScope
  <2>5. workId # None => workId # s.work.workId
    BY <1>1, <1>4 DEF ChildRefusal
  <2>6. forbidden \subseteq Known(w)
    BY <1>0, <2>1, <2>4, EntryIDsAreKnown
  <2>7. ASSUME id \notin forbidden
        PROVE  Follows(Make("child", i, Defaults(w, id), id, 1, None), s)
    <3>0. PICK d : d = Defaults(w, id)
      OBVIOUS
    <3>1. /\ d.workId = IF workId = None THEN id ELSE workId
          /\ d.correlationId = IF w.correlationId = None THEN id ELSE w.correlationId
          /\ d.replay = IF w.replay # None /\ w.replay.runId = None
                        THEN [runId |-> id, source |-> w.replay.source] ELSE w.replay
          /\ d.source = w.source /\ d.origin = w.origin /\ d.depth = w.depth
      BY <2>3, <3>0, DefaultsFields
    <3>2. d.correlationId = s.work.correlationId
      BY <2>3, <2>4, <3>1 DEF ValidWork
    <3>3. d.replay = s.work.replay
      BY <2>3, <2>4, <3>1 DEF ValidWork
    <3>4. d.workId # s.work.workId /\ id # s.scopeId
      BY <2>1, <2>5, <2>7, <3>1
    <3>5. PICK made : made = Make("child", i, d, id, 1, None)
      OBVIOUS
    <3>6. made.op = "child" /\ made.work = d /\ made.scopeId = id /\ NewWork(made)
      BY <3>5 DEF Make, NewWork
    <3>7. Follows(made, s)
      BY <2>3, <3>1, <3>2, <3>3, <3>4, <3>6 DEF Follows
    <3> QED
      BY <3>0, <3>5, <3>7
  <2>8. i \in 0..Len(lineage) /\ i # 0
    BY DEF LineageInv
  <2>9. Emits("child", i, w, 1, None, forbidden, id)
    BY <1>0, <2>3, <2>6, <2>7, <2>8 DEF Emits
  <2> QED
    BY <2>2, <2>9, EmitKeepsInv
<1> QED
  BY <1>3, <1>4

(* prepare keeps the invariant: its work has an ID that is not the parent's. *)
LEMMA PrepareKeepsInv ==
    ASSUME LineageInv, Len(lineage) < MaxEntries, NEW i \in 1..Len(lineage),
           NEW workId \in ID, NEW cause \in Reference \cup {None},
           Prepare(i, workId, cause)
    PROVE  LineageInv'
<1>0. PICK s : s = lineage[i]
  OBVIOUS
<1>1. PICK refusal : refusal = ChildRefusal(s, workId, cause)
  OBVIOUS
<1>2. refusal \in {"ok", "invalid", "exhausted"}
  BY <1>1 DEF ChildRefusal
<1>3. PICK w : w = ChildWork(s, workId, cause)
  OBVIOUS
<1>4. CASE refusal # "ok" \/ ~ValidWork(w, FALSE)
  <2>1. Refuse(IF refusal = "ok" THEN "invalid" ELSE refusal)
    BY <1>0, <1>1, <1>3, <1>4 DEF Prepare
  <2> QED
    BY <1>2, <2>1, RefuseKeepsInv DEF Answers
<1>5. CASE refusal = "ok" /\ ValidWork(w, FALSE)
  <2>0. PICK e : e = Make("prepare", i, w, None, 0, None)
    OBVIOUS
  <2>1. lineage' = Append(lineage, e) /\ answer' = "ok" /\ fresh' = TRUE
    BY <1>0, <1>1, <1>3, <1>5, <2>0 DEF Prepare
  <2>2. s.scopeId # None
    BY <1>0 DEF Prepare, IsScope
  <2>3. /\ w \in Work
        /\ w.workId = workId /\ w.correlationId = s.work.correlationId
        /\ w.source = s.work.source /\ w.origin = s.work.origin /\ w.replay = s.work.replay
        /\ w.depth = IF s.work.depth = None THEN None ELSE s.work.depth + 1
    BY <1>0, <1>3, ChildWorkFields DEF Prepare
  <2>4. workId # s.work.workId
    <3>1. workId # None
      BY NoneAssumption DEF FieldValues
    <3> QED
      BY <1>1, <1>5, <3>1 DEF ChildRefusal
  <2>5. /\ e.op = "prepare" /\ e.from = i /\ e.work = w /\ e.scopeId = None /\ NewWork(e)
    BY <2>0 DEF Make, NewWork
  <2>6. i \in 0..Len(lineage) /\ i # 0 /\ i \in Nat
    BY DEF LineageInv
  <2>7. e \in Entry
    BY <2>0, <2>3, <2>6 DEF Make, Entry
  <2>8. Follows(e, lineage[i])
    BY <1>0, <2>2, <2>3, <2>4, <2>5 DEF Follows
  <2>9. Restores(e)
    BY <1>5, <2>5 DEF Restores
  <2>10. CollisionIsReal'
    BY <2>1 DEF CollisionIsReal
  <2> QED
    BY <2>1, <2>5, <2>6, <2>7, <2>8, <2>9, <2>10, GrowKeepsInv DEF Answers
<1> QED
  BY <1>4, <1>5

(* execute and retry keep the invariant: they have the work of the entry they *)
(* execute, and a retry has the next attempt.                                  *)
LEMMA ExecuteKeepsInv ==
    ASSUME LineageInv, Len(lineage) < MaxEntries, NEW id \in ID, NEW i \in 1..Len(lineage),
           \/ \E attempt \in 0..(MaxAttempt + 1) : Execute(i, attempt, id)
           \/ Retry(i, id)
    PROVE  LineageInv'
<1>0. PICK s : s = lineage[i]
  OBVIOUS
<1>1. s.work \in Work /\ ValidWork(s.work, FALSE) /\ s.attempt \in Nat
      /\ s.scopeId \in ID \cup {None}
  BY <1>0, EntryFields DEF LineageInv, Placed, Restores, ValidScope
<1>2. Defaults(s.work, id) = s.work
  BY <1>1, CompleteWorkIsKept
<1>3. i \in 0..Len(lineage) /\ i # 0
  BY DEF LineageInv
<1>4. s.work.depth \in Nat \cup {None}
  BY <1>1, WorkFields
<1>5. ASSUME NEW op \in {"execute", "retry"}, NEW attempt, NEW previous,
             op = "retry" => attempt > s.attempt /\ previous = s.scopeId
      PROVE  Follows(Make(op, i, Defaults(s.work, id), id, attempt, previous), s)
  <2>1. PICK made : made = Make(op, i, s.work, id, attempt, previous)
    OBVIOUS
  <2>2. made.op = op /\ made.work = s.work /\ made.attempt = attempt
        /\ made.previous = previous /\ ~NewWork(made)
    BY <2>1 DEF Make, NewWork
  <2>3. Follows(made, s)
    BY <1>4, <1>5, <2>2 DEF Follows
  <2> QED
    BY <1>2, <2>1, <2>3
<1>6. ASSUME NEW attempt \in 0..(MaxAttempt + 1), Execute(i, attempt, id)
      PROVE  LineageInv'
  <2>1. Emit("execute", i, s.work, attempt, None, {}, id)
    BY <1>0, <1>6 DEF Execute
  <2>2. Emits("execute", i, s.work, attempt, None, {}, id)
    BY <1>0, <1>1, <1>3, <1>5 DEF Emits
  <2> QED
    BY <2>1, <2>2, EmitKeepsInv
<1>7. ASSUME Retry(i, id) PROVE LineageInv'
  <2>1. CASE s.attempt = MaxAttempt
    <3>1. Refuse("exhausted")
      BY <1>0, <1>7, <2>1 DEF Retry
    <3> QED
      BY <3>1, RefuseKeepsInv DEF Answers
  <2>2. CASE s.attempt # MaxAttempt
    <3>0. s.scopeId \in ID /\ s.attempt \in 1..MaxAttempt
      BY <1>0, <1>1, <1>7 DEF Retry, IsScope, LineageInv, Placed, Restores, ValidScope
    <3>1. PICK next \in Int : next = s.attempt + 1
      BY <1>1
    <3>2. Emit("retry", i, s.work, next, s.scopeId, {s.scopeId}, id)
      BY <1>0, <1>7, <2>2, <3>1 DEF Retry
    <3>3. next > s.attempt /\ next # 1
      BY <3>0, <3>1
    <3>4. {s.scopeId} \subseteq Known(s.work)
      BY <1>0, EntryIDsAreKnown
    <3>5. Follows(Make("retry", i, Defaults(s.work, id), id, next, s.scopeId), lineage[i])
      BY <1>0, <1>5, <3>3
    <3>6. Emits("retry", i, s.work, next, s.scopeId, {s.scopeId}, id)
      BY <1>1, <1>3, <3>0, <3>1, <3>3, <3>4, <3>5 DEF Emits
    <3> QED
      BY <3>2, <3>6, EmitKeepsInv
  <2> QED
    BY <2>1, <2>2
<1> QED
  BY <1>6, <1>7

(* What is received keeps the invariant: the work that was sent, or what is   *)
(* left of it as a root of its own.                                            *)
LEMMA ReceiveKeepsInv ==
    ASSUME LineageInv, Len(lineage) < MaxEntries, NEW i \in 1..Len(lineage),
           NEW head, NEW size, NEW nulls, NEW lost \in SUBSET Optional,
           Receive(i, head, size, nulls, lost)
    PROVE  LineageInv'
<1>0. PICK w \in Work : w = lineage[i].work
  BY EntryFields
<1> DEFINE sent == WorkOut(w)
           wire == Nulled(Stripped(sent, lost), nulls)
<1>1. PICK from : from = IF Stripped(sent, lost) = sent THEN i ELSE 0
  OBVIOUS
<1>2. PICK read : read = WorkIn(wire)
  OBVIOUS
<1>3. read \in Work
  <2>1. read = [f \in DOMAIN w |-> IF f \in lost THEN None ELSE w[f]]
    BY <1>2, WireRoundTrip
  <2> QED
    BY <2>1, StrippedIsWork
<1>4. from # 0 => from = i /\ read = w
  BY <1>1, <1>2, WireRoundTrip
<1>5. CASE Decodes(head, size, wire)
  <2>0. PICK e : e = Make("receive", from, read, None, 0, None)
    OBVIOUS
  <2>1. lineage' = Append(lineage, e) /\ answer' = "ok" /\ fresh' = TRUE
    BY <1>0, <1>1, <1>2, <1>5, <2>0 DEF Receive
  <2>2. e.op = "receive" /\ e.from = from /\ e.work = read /\ e.scopeId = None /\ ~NewWork(e)
    BY <2>0 DEF Make, NewWork
  <2>3. from \in 0..Len(lineage) /\ from \in Nat
    BY <1>1 DEF LineageInv
  <2>4. e \in Entry
    BY <1>3, <2>0, <2>3 DEF Make, Entry
  <2>5. Restores(e)
    BY <1>2, <1>5, <2>2 DEF Restores, Decodes
  <2>6. from # 0 => Follows(e, lineage[from])
    <3>1. w.depth \in Nat \cup {None}
      BY WorkFields
    <3> QED
      BY <1>0, <1>4, <2>2, <3>1 DEF Follows
  <2>7. CollisionIsReal'
    BY <2>1 DEF CollisionIsReal
  <2> QED
    BY <2>1, <2>2, <2>3, <2>4, <2>5, <2>6, <2>7, GrowKeepsInv DEF Answers
<1>6. CASE ~Decodes(head, size, wire)
  <2>1. Refuse("invalid")
    BY <1>0, <1>6 DEF Receive
  <2> QED
    BY <2>1, RefuseKeepsInv DEF Answers
<1> QED
  BY <1>5, <1>6

(* Every transition of provenance and every receipt keeps the invariant. *)
LEMMA LineageNextKeepsInv ==
    ASSUME LineageInv, LineageNext
    PROVE  LineageInv'
<1>0. DOMAIN lineage = 1..Len(lineage)
  BY DEF LineageInv
<1>1. CASE ProvenanceStep
  <2>0. Len(lineage) < MaxEntries
    BY <1>1 DEF ProvenanceStep
  <2>1. PICK id \in ID, workId \in ID \cup {None} :
           \/ Root(workId, id)
           \/ \E i \in 1..Len(lineage) :
                \/ \E cause \in Reference \cup {None} : Child(i, workId, cause, id)
                \/ \E cause \in Reference \cup {None} :
                      workId # None /\ Prepare(i, workId, cause)
                \/ \E attempt \in 0..(MaxAttempt + 1) : Execute(i, attempt, id)
                \/ Retry(i, id)
    BY <1>0, <1>1 DEF ProvenanceStep
  <2>2. CASE Root(workId, id)
    BY <2>0, <2>2, RootKeepsInv
  <2>3. ASSUME NEW i \in 1..Len(lineage), NEW cause \in Reference \cup {None},
               Child(i, workId, cause, id)
        PROVE  LineageInv'
    BY <2>0, <2>3, ChildKeepsInv
  <2>4. ASSUME NEW i \in 1..Len(lineage), NEW cause \in Reference \cup {None},
               workId # None, Prepare(i, workId, cause)
        PROVE  LineageInv'
    BY <2>0, <2>4, PrepareKeepsInv
  <2>5. ASSUME NEW i \in 1..Len(lineage),
               \/ \E attempt \in 0..(MaxAttempt + 1) : Execute(i, attempt, id)
               \/ Retry(i, id)
        PROVE  LineageInv'
    BY <2>0, <2>5, ExecuteKeepsInv
  <2> QED
    BY <2>1, <2>2, <2>3, <2>4, <2>5
<1>2. ASSUME Len(lineage) < MaxEntries, NEW i \in DOMAIN lineage, NEW head, NEW size,
             NEW nulls, NEW lost \in SUBSET Optional, Receive(i, head, size, nulls, lost)
      PROVE  LineageInv'
  BY <1>0, <1>2, ReceiveKeepsInv
<1> QED
  BY <1>1, <1>2 DEF LineageNext

(* The invariant of lineages: entries that can be restored, each with the work *)
(* and the lineage of the earlier entry it was made from.                      *)
THEOREM LineageInvariant == LineageSpec => []LineageInv
<1>1. LineageInit => LineageInv
  BY LimitAssumption DEF Answers, LineageInit, LineageInv, CollisionIsReal
<1>2. LineageInv /\ [LineageNext]_lineageVars => LineageInv'
  <2>1. ASSUME LineageInv, UNCHANGED lineageVars PROVE LineageInv'
    <3>1. lineage' = lineage /\ answer' = answer /\ fresh' = fresh
      BY <2>1 DEF lineageVars
    <3>2. CollisionIsReal'
      BY <2>1, <3>1 DEF LineageInv, CollisionIsReal
    <3> QED
      BY <2>1, <3>1, <3>2 DEF LineageInv, Placed, Restores, Follows, NewWork
  <2> QED
    BY <2>1, LineageNextKeepsInv
<1> QED
  BY <1>1, <1>2, PTL DEF LineageSpec

(* TransitionsAreSound: whatever the generator draws, in whatever order open, *)
(* enter, replay, child, prepare, execute and retry are called, every entry    *)
(* can be restored, new work is other work, attempts go on, and an ID is only  *)
(* blamed for a collision.                                                     *)
THEOREM TransitionsAlwaysSound == LineageSpec => []TransitionsAreSound
<1>1. LineageInv => TransitionsAreSound
  BY PlacedIsSound
<1> QED
  BY <1>1, LineageInvariant, PTL

(* LineageCrossesTheWire: however long a lineage is and however often it       *)
(* crosses an envelope, every entry has the correlation, source, origin and    *)
(* replay of its root and a depth that counts the pieces of work in between.   *)
THEOREM LineageAlwaysKept == LineageSpec => []LineageCrossesTheWire
<1>1. LineageInv => LineageCrossesTheWire
  BY WireIsSound
<1> QED
  BY <1>1, LineageInvariant, PTL
=============================================================================
