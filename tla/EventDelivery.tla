--------------------------- MODULE EventDelivery ---------------------------
(***************************************************************************)
(* What the event pipeline promises (events/CONTRACT.md, E02 to E06),      *)
(* without tables, leases, attempts or consumers.  Delivery is at least    *)
(* once up to the transport and at most once in effect:                    *)
(*   - an event is recorded once and its content never changes;            *)
(*   - the transport takes durable responsibility for contents;            *)
(*   - the outbox's verdict on an event is given once; "sent" is only said *)
(*     when the transport holds what was recorded;                         *)
(*   - an event's effects are applied at most once, from a content that    *)
(*     the transport held, and never after the event was given up.         *)
(***************************************************************************)
CONSTANTS Events, Contents, NoContent

VARIABLES
    recorded,   \* the content recorded for an event, or NoContent
    held,       \* the contents the transport holds for an event
    verdict,    \* the outbox's verdict: "open", "sent" or "dead"
    fate        \* the event at its consumer: "open", "applied" or "dead"

vars == <<recorded, held, verdict, fate>>

Init ==
    /\ recorded = [e \in Events |-> NoContent]
    /\ held = [e \in Events |-> {}]
    /\ verdict = [e \in Events |-> "open"]
    /\ fate = [e \in Events |-> "open"]

Record(e, c) ==
    /\ recorded[e] = NoContent
    /\ recorded' = [recorded EXCEPT ![e] = c]
    /\ UNCHANGED <<held, verdict, fate>>

Hold(e, c) ==
    /\ held' = [held EXCEPT ![e] = @ \cup {c}]
    /\ UNCHANGED <<recorded, verdict, fate>>

Send(e) ==
    /\ verdict[e] = "open"
    /\ recorded[e] \in held[e]
    /\ verdict' = [verdict EXCEPT ![e] = "sent"]
    /\ UNCHANGED <<recorded, held, fate>>

\* One statement may give up several events at once.
GiveUp(S) ==
    /\ \A e \in S : verdict[e] = "open" /\ recorded[e] \in Contents
    /\ verdict' = [e \in Events |-> IF e \in S THEN "dead" ELSE verdict[e]]
    /\ UNCHANGED <<recorded, held, fate>>

Apply(e) ==
    /\ fate[e] = "open"
    /\ held[e] # {}
    /\ fate' = [fate EXCEPT ![e] = "applied"]
    /\ UNCHANGED <<recorded, held, verdict>>

Poison(e) ==
    /\ fate[e] = "open"
    /\ held[e] # {}
    /\ fate' = [fate EXCEPT ![e] = "dead"]
    /\ UNCHANGED <<recorded, held, verdict>>

Next ==
    \/ \E e \in Events, c \in Contents : Record(e, c) \/ Hold(e, c)
    \/ \E e \in Events : Send(e) \/ Apply(e) \/ Poison(e)
    \/ \E S \in SUBSET Events : GiveUp(S)

Spec == Init /\ [][Next]_vars
=============================================================================
