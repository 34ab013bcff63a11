---------------------------- MODULE EventLineage ----------------------------
(***************************************************************************)
(* shared/events/index.ts: work crosses a process boundary inside an       *)
(* envelope.  Envelope.create encodes it and decodes its own encoding;     *)
(* Envelope.decode is what the outbox, the stream and the mailbox give     *)
(* their rows and messages to.  The lineages of module Provenance go on in *)
(* the process that received the envelope.                                 *)
(*                                                                         *)
(* An optional field of the encoding has its value, is absent (what        *)
(* JSON.stringify makes of undefined) or is null (what other producers     *)
(* write).  Of the rest of an envelope only whether it is well formed      *)
(* counts: exactly six keys, version 1, a versioned type, a time in range, *)
(* a payload that is an object.                                            *)
(***************************************************************************)
EXTENDS Provenance

CONSTANTS Absent, Null

ASSUME WireAssumption ==
    Absent # Null /\ \A x \in {Absent, Null} : x \notin FieldValues /\ x # None /\ x # Bad

Optional == {"causation", "origin", "depth", "replay"}

\* workOut: undefined is left out.
WorkOut(w) == [f \in DOMAIN w |-> IF w[f] = None THEN Absent ELSE w[f]]

\* Mutant: a depth of 0 is taken for a missing one.
WorkIn_Falsy(wire) ==
    [f \in DOMAIN wire |->
       IF wire[f] \in {Absent, Null} \/ (f = "depth" /\ wire[f] = 0) THEN None ELSE wire[f]]

\* workIn: absent and null are undefined; the required fields must be there.
WorkIn(wire) ==
    [f \in DOMAIN wire |-> IF wire[f] \in {Absent, Null} THEN None ELSE wire[f]]

(***************************************************************************)
(* decode: the size is checked before parsing and again after the work     *)
(* was normalised, which can make an envelope longer ("grows").            *)
(***************************************************************************)
Decodes(head, size, wire) ==
    /\ size = "fits"
    /\ head = "good"
    /\ ValidWork(WorkIn(wire), FALSE)

\* The wire another producer writes for the same work.
Nulled(wire, fields) ==
    [f \in DOMAIN wire |-> IF f \in fields /\ wire[f] = Absent THEN Null ELSE wire[f]]

\* The wire of a producer that does not know these fields.
Stripped(wire, fields) == [f \in DOMAIN wire |-> IF f \in fields THEN Absent ELSE wire[f]]

(***************************************************************************)
(* The work of entry i arrives.  A wire that lost fields on its way is not *)
(* entry i's work: if it can be restored it begins a lineage of its own.   *)
(***************************************************************************)
Receive(i, head, size, nulls, lost) ==
    LET sent == WorkOut(lineage[i].work)
        wire == Nulled(Stripped(sent, lost), nulls)
        from == IF Stripped(sent, lost) = sent THEN i ELSE 0
    IN IF Decodes(head, size, wire)
       THEN /\ lineage' = Append(lineage, Make("receive", from, WorkIn(wire), None, 0, None))
            /\ answer' = "ok" /\ fresh' = TRUE
       ELSE Refuse("invalid")

LineageNext ==
    \/ ProvenanceStep
    \/ /\ Len(lineage) < MaxEntries
       /\ \E i \in DOMAIN lineage, head \in {"good", "bad"}, size \in {"fits", "grows", "over"},
             nulls \in {{}, Optional}, lost \in SUBSET Optional :
            Receive(i, head, size, nulls, lost)

LineageSpec == LineageInit /\ [][LineageNext]_lineageVars

-----------------------------------------------------------------------------
(***************************************************************************)
(* Contract E01: "Decode restores validated provenance, including          *)
(* attribution, causation, depth and replay."  Work that crossed the wire  *)
(* is the work that was sent, whichever encoding of missing fields the     *)
(* producer chose, and what was received is sent on unchanged; with the    *)
(* provenance contract, a lineage is the same on both sides of the wire.   *)
(***************************************************************************)
LineageCrossesTheWire ==
    /\ LineageIsKept
    /\ \A i \in DOMAIN lineage :
         /\ lineage[i].op = "receive" /\ lineage[i].from # 0 =>
              lineage[i].work = lineage[lineage[i].from].work
         /\ Decodes("good", "fits", WorkOut(lineage[i].work))
=============================================================================
