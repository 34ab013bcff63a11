------------------------- MODULE JetStreamDelivery -------------------------
(***************************************************************************)
(* The event pipeline with the JetStream transport (EVENTS_TRANSPORT =     *)
(* jetstream in root/events.ts): the outbox's Publisher is the Broker of   *)
(* events/jetstream/broker.ts, and Broker.transfer moves messages from the *)
(* stream's durable consumer into the mailbox.                             *)
(*                                                                         *)
(* The stream and its consumer belong to the NATS server, which is not in  *)
(* the repository: they are modelled from the configuration provision()    *)
(* asks for (limits retention, discard new, a duplicate window, explicit   *)
(* acknowledgement, one pending delivery, a delivery limit) and from the   *)
(* requests the adapter makes.  Every request or its reply can be lost.    *)
(***************************************************************************)
EXTENDS Outbox, Mailbox, Sequences

CONSTANTS
    Transfers,        \* processes that call Broker.transfer
    StreamCapacity,   \* messages that fit in max_bytes
    MaxDeliver        \* max_deliver of the consumer, 5 in the code

ASSUME StreamAssumption ==
    StreamCapacity \in Nat \ {0} /\ MaxDeliver \in Nat \ {0}

VARIABLES
    stream,     \* the stored messages, by sequence number
    window,     \* sequence number that Nats-Msg-Id e has in the window, or 0
    xfer        \* the local state of each call of Broker.transfer

streamVars == <<stream, window, xfer>>
vars == <<outbox, domain, disp, tokens, mailbox, effects, cons,
          stream, window, xfer>>

(***************************************************************************)
(* A stored message and where it stands with the durable consumer: not yet *)
(* delivered, delivered and waiting for its acknowledgement, due for       *)
(* redelivery after ack_wait, acknowledged, or delivered max_deliver times *)
(* and no longer offered (it stays in the stream).                         *)
(***************************************************************************)
Message == [event : Events, content : Contents,
            status : {"new", "inflight", "due", "acked", "exhausted"},
            deliveries : 0 .. MaxDeliver]

Transfer == [pc : {"idle", "sink", "ack"}, seq : 0 .. StreamCapacity]

NoTransfer == [pc |-> "idle", seq |-> 0]

TypeOK ==
    /\ OutboxTypeOK
    /\ MailboxTypeOK
    /\ stream \in Seq(Message) /\ Len(stream) <= StreamCapacity
    /\ window \in [Events -> 0 .. Len(stream)]
    /\ xfer \in [Transfers -> Transfer]

Init ==
    /\ OutboxInit
    /\ MailboxInit
    /\ stream = <<>>
    /\ window = [e \in Events |-> 0]
    /\ xfer = [t \in Transfers |-> NoTransfer]

-----------------------------------------------------------------------------
(***************************************************************************)
(* The server's side of a publication: a message whose ID is in the        *)
(* duplicate window is not stored again; a full stream refuses.            *)
(***************************************************************************)
Stored(e, c) ==
    Append(stream, [event |-> e, content |-> c, status |-> "new",
                    deliveries |-> 0])

StreamAccepts(e, c) ==
    \/ /\ window[e] = 0
       /\ Len(stream) < StreamCapacity
       /\ stream' = Stored(e, c)
       /\ window' = [window EXCEPT ![e] = Len(stream) + 1]
    \/ /\ window[e] # 0
       /\ UNCHANGED <<stream, window>>

(***************************************************************************)
(* Broker.publish trusts a PubAck for a new message; a duplicate PubAck    *)
(* only after it has fetched the stored message and found it equal.        *)
(***************************************************************************)
PubAckMatches(e, c) == window[e] # 0 => stream[window[e]].content = c

\* publish() answers a durable receipt.
PublishDurable(d) ==
    LET e == disp[d].event  c == disp[d].content IN
    /\ PublishReturns(d, "durable")
    /\ StreamAccepts(e, c)
    /\ PubAckMatches(e, c)
    /\ UNCHANGED <<xfer, mailbox, effects, cons>>

\* The message is stored but publish() fails: the PubAck was lost or late,
\* or the caller gave up.
PublishReplyLost(d) ==
    /\ PublishReturns(d, "refused")
    /\ StreamAccepts(disp[d].event, disp[d].content)
    /\ UNCHANGED <<xfer, mailbox, effects, cons>>

\* publish() fails and nothing is stored: no connection, a full stream, or a
\* duplicate that differs (events.id_reused) or could not be fetched.
PublishFails(d) ==
    /\ PublishReturns(d, "refused")
    /\ UNCHANGED <<stream, window, xfer, mailbox, effects, cons>>

\* Another process, with an outbox of its own, publishes to the stream.
ForeignPublish(e, c) ==
    /\ StreamAccepts(e, c)
    /\ UNCHANGED <<xfer, mailbox, effects, cons>> /\ UNCHANGED outboxVars

-----------------------------------------------------------------------------
(***************************************************************************)
(* CONSUMER.MSG.NEXT: a message that is due again, or else the first new   *)
(* one, as long as no other delivery is pending (max_ack_pending 1).       *)
(***************************************************************************)
Deliverable(s) ==
    /\ s \in 1 .. Len(stream)
    /\ \/ stream[s].status = "due"
       \/ /\ stream[s].status = "new"
          /\ \A r \in 1 .. Len(stream) :
                /\ stream[r].status \notin {"inflight", "due"}
                /\ r < s => stream[r].status # "new"

DeliverMessage(m) ==
    [m EXCEPT !.status = "inflight", !.deliveries = m.deliveries + 1]

\* transfer() gets a message.
Pull(t, s) ==
    /\ xfer[t].pc = "idle"
    /\ Deliverable(s)
    /\ stream' = [stream EXCEPT ![s] = DeliverMessage(@)]
    /\ xfer' = [xfer EXCEPT ![t] = [pc |-> "sink", seq |-> s]]
    /\ UNCHANGED <<window, mailbox, effects, cons>> /\ UNCHANGED outboxVars

\* The server delivers, but the message does not arrive in time.
PullReplyLost(t, s) ==
    /\ xfer[t].pc = "idle"
    /\ Deliverable(s)
    /\ stream' = [stream EXCEPT ![s] = DeliverMessage(@)]
    /\ UNCHANGED <<window, xfer, mailbox, effects, cons>> /\ UNCHANGED outboxVars

\* Mutant: the message is acknowledged before the sink has committed.
SinkDurable_AckFirst(t) ==
    /\ xfer[t].pc = "sink"
    /\ xfer' = [xfer EXCEPT ![t].pc = "ack"]
    /\ UNCHANGED <<stream, window, mailbox, effects, cons>> /\ UNCHANGED outboxVars

\* sink.publish, here Mailbox.publish, commits and answers its receipt.
SinkDurable(t) ==
    /\ xfer[t].pc = "sink"
    /\ MailboxInsert(stream[xfer[t].seq].event, stream[xfer[t].seq].content)
    /\ xfer' = [xfer EXCEPT ![t].pc = "ack"]
    /\ UNCHANGED <<stream, window>> /\ UNCHANGED outboxVars

\* It commits, but transfer() is told otherwise and leaves the message alone.
SinkReplyLost(t) ==
    /\ xfer[t].pc = "sink"
    /\ MailboxInsert(stream[xfer[t].seq].event, stream[xfer[t].seq].content)
    /\ xfer' = [xfer EXCEPT ![t] = NoTransfer]
    /\ UNCHANGED <<stream, window>> /\ UNCHANGED outboxVars

AckMessage(m) ==
    IF m.status \in {"inflight", "due"} THEN [m EXCEPT !.status = "acked"] ELSE m

\* +ACK reaches the server; its confirmation may be lost.
Acknowledge(t) ==
    /\ xfer[t].pc = "ack"
    /\ stream' = [stream EXCEPT ![xfer[t].seq] = AckMessage(@)]
    /\ xfer' = [xfer EXCEPT ![t] = NoTransfer]
    /\ UNCHANGED <<window, mailbox, effects, cons>> /\ UNCHANGED outboxVars

\* transfer() ends without an acknowledgement: the sink refused or failed,
\* the deadline passed, +ACK was lost, or the process died.
TransferFails(t) ==
    /\ xfer[t].pc # "idle"
    /\ xfer' = [xfer EXCEPT ![t] = NoTransfer]
    /\ UNCHANGED <<stream, window, mailbox, effects, cons>> /\ UNCHANGED outboxVars

-----------------------------------------------------------------------------
\* ack_wait passes without an acknowledgement.
AckWaitEnds(s) ==
    /\ s \in 1 .. Len(stream)
    /\ stream[s].status = "inflight"
    /\ stream' = [stream EXCEPT ![s].status =
                    IF stream[s].deliveries < MaxDeliver THEN "due" ELSE "exhausted"]
    /\ UNCHANGED <<window, xfer, mailbox, effects, cons>> /\ UNCHANGED outboxVars

\* Two minutes after the message with this ID was stored.
WindowEnds(e) ==
    /\ window[e] # 0
    /\ window' = [window EXCEPT ![e] = 0]
    /\ UNCHANGED <<stream, xfer, mailbox, effects, cons>> /\ UNCHANGED outboxVars

DispatcherStep(d) ==
    \/ \E e \in Events : \/ Claim(d, e) /\ UNCHANGED mailboxVars /\ UNCHANGED streamVars
                         \/ ClaimReplyLost(d, e) /\ UNCHANGED mailboxVars /\ UNCHANGED streamVars
    \/ ClaimNothing(d) /\ UNCHANGED mailboxVars /\ UNCHANGED streamVars
    \/ PublishDurable(d)
    \/ PublishReplyLost(d)
    \/ PublishFails(d)
    \/ Finish(d) /\ UNCHANGED mailboxVars /\ UNCHANGED streamVars
    \/ FinishFails(d) /\ UNCHANGED mailboxVars /\ UNCHANGED streamVars
    \/ DispatcherCrash(d) /\ UNCHANGED mailboxVars /\ UNCHANGED streamVars

TransferStep(t) ==
    \/ \E s \in 1 .. StreamCapacity : Pull(t, s) \/ PullReplyLost(t, s)
    \/ SinkDurable(t)
    \/ SinkReplyLost(t)
    \/ Acknowledge(t)
    \/ TransferFails(t)

ConsumerStep(k) ==
    /\ \/ \E e \in Events : Select(k, e)
       \/ CallbackWrites(k)
       \/ CallbackOk(k)
       \/ CallbackFails(k)
       \/ ConsumeCommits(k)
       \/ ConsumeAborts(k)
    /\ UNCHANGED outboxVars /\ UNCHANGED streamVars

TimePasses(e) ==
    \/ LeaseExpires(e) /\ UNCHANGED mailboxVars /\ UNCHANGED streamVars
    \/ RetryDelayEnds(e) /\ UNCHANGED mailboxVars /\ UNCHANGED streamVars
    \/ RedeliveryDelayEnds(e) /\ UNCHANGED outboxVars /\ UNCHANGED streamVars
    \/ WindowEnds(e)

Next ==
    \/ \E e \in Events, c \in Contents :
          \/ Enqueue(e, c) /\ UNCHANGED mailboxVars /\ UNCHANGED streamVars
          \/ ForeignPublish(e, c)
    \/ \E d \in Dispatchers : DispatcherStep(d)
    \/ \E t \in Transfers : TransferStep(t)
    \/ \E k \in Consumers : ConsumerStep(k)
    \/ \E e \in Events : TimePasses(e)
    \/ \E s \in 1 .. StreamCapacity : AckWaitEnds(s)

Spec == Init /\ [][Next]_vars

-----------------------------------------------------------------------------
StreamContents(e) ==
    {stream[s].content : s \in {r \in 1 .. Len(stream) : stream[r].event = e}}

(***************************************************************************)
(* Contracts E04 and J01: the outbox says "sent" only about an event whose *)
(* own content the stream stores, also when the PubAck was a duplicate and *)
(* another producer used the ID for another content.                       *)
(***************************************************************************)
SentIsInStream ==
    \A e \in Events :
        outbox[e].state = "sent" => outbox[e].content \in StreamContents(e)

(***************************************************************************)
(* Contract J04: "Never acknowledge before the destination commits."  An   *)
(* acknowledged message, which the server will not offer again, is in the  *)
(* mailbox with its own content.                                           *)
(***************************************************************************)
AckedIsInMailbox ==
    \A s \in 1 .. Len(stream) :
        stream[s].status = "acked" =>
            mailbox[stream[s].event].content = stream[s].content

(***************************************************************************)
(* Every reachable state is well typed, sent means stored in the stream,   *)
(* no acknowledgement outran its commit, and redeliveries apply the        *)
(* effects of an event once (the consumer's transaction in store.ts, the   *)
(* publication and the transfer in broker.ts).                             *)
(***************************************************************************)
TransferIsSound ==
    TypeOK /\ SentIsInStream /\ AckedIsInMailbox /\ EffectsOnceIffProcessed

(***************************************************************************)
(* The pipeline implements the promise of EventDelivery: what the          *)
(* transport holds is what the stream or the mailbox stores.               *)
(***************************************************************************)
Promise == INSTANCE EventDelivery WITH
    recorded <- [e \in Events |-> outbox[e].content],
    held <- [e \in Events |->
               StreamContents(e) \cup ({mailbox[e].content} \ {NoContent})],
    verdict <- [e \in Events |->
                  IF outbox[e].state \in {"sent", "dead"}
                  THEN outbox[e].state ELSE "open"],
    fate <- [e \in Events |->
               CASE mailbox[e].state = "processed" -> "applied"
                 [] mailbox[e].state = "dead" -> "dead"
                 [] OTHER -> "open"]

ImplementsPromise == Promise!Spec
=============================================================================
