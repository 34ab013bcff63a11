-------------------------- MODULE JetStreamProofs --------------------------
(***************************************************************************)
(* The event pipeline over JetStream, for any number of events, contents,  *)
(* dispatchers, transfers and consumers, any attempt and delivery limit    *)
(* and any capacity of the stream.                                         *)
(***************************************************************************)
EXTENDS JetStreamDelivery, EventTableProofs, SequenceTheorems

\* The delivery count of a message that the server may still deliver is below
\* the limit.
MessageOK(m) ==
    /\ m.status = "new" => m.deliveries = 0
    /\ m.status = "due" => m.deliveries < MaxDeliver

\* The window names messages that carry the ID.
StreamOK ==
    /\ stream \in Seq(Message) /\ Len(stream) <= StreamCapacity
    /\ \A s \in 1 .. Len(stream) : MessageOK(stream[s])
    /\ window \in [Events -> 0 .. Len(stream)]
    /\ \A e \in Events : window[e] # 0 => stream[window[e]].event = e

InMailbox(s) == mailbox[stream[s].event].content = stream[s].content

\* A transfer under way has a message of the stream; when it is about to
\* acknowledge it, and for ever after, the message's content is in the mailbox.
TransferOK(t) ==
    /\ xfer[t].pc # "idle" => xfer[t].seq \in 1 .. Len(stream)
    /\ xfer[t].pc = "ack" => InMailbox(xfer[t].seq)

TransfersOK ==
    /\ xfer \in [Transfers -> Transfer]
    /\ \A t \in Transfers : TransferOK(t)
    /\ \A s \in 1 .. Len(stream) : stream[s].status = "acked" => InMailbox(s)

\* A durable receipt in the hands of a dispatcher, and later the verdict
\* "sent", stand for the event's content in the stream.
ReceiptsAreTrue ==
    /\ \A d \in Dispatchers :
          disp[d].receipt = "durable" =>
              disp[d].content \in StreamContents(disp[d].event)
    /\ \A e \in Events :
          outbox[e].state = "sent" => outbox[e].content \in StreamContents(e)

JetStreamInv ==
    /\ OutboxInv
    /\ MailboxInv
    /\ StreamOK
    /\ TransfersOK
    /\ ReceiptsAreTrue

-----------------------------------------------------------------------------
\* What a step can do to the stream and its duplicate window: nothing to the
\* stream, ...
StreamStays ==
    /\ stream' = stream
    /\ window' = window \/ \E e \in Events : window' = [window EXCEPT ![e] = 0]

\* ... store a new message, ...
StreamStores(e, c) ==
    /\ window[e] = 0 /\ Len(stream) < StreamCapacity
    /\ stream' = Stored(e, c)
    /\ window' = [window EXCEPT ![e] = Len(stream) + 1]

\* ... or change the standing of one message, which it acknowledges only when
\* the message is in the mailbox.
StreamRewrites(s, m) ==
    /\ m.event = stream[s].event /\ m.content = stream[s].content
    /\ MessageOK(m)
    /\ m.status = "acked" => stream[s].status = "acked" \/ InMailbox(s)
    /\ stream' = [stream EXCEPT ![s] = m]
    /\ window' = window

StreamMoves ==
    \/ StreamStays
    \/ \E e \in Events, c \in Contents : StreamStores(e, c)
    \/ \E s \in 1 .. Len(stream), m \in Message : StreamRewrites(s, m)

\* Every message of the stream, its event and its content are well typed.
LEMMA StreamTypes ==
  ASSUME StreamOK
  PROVE  /\ Len(stream) \in Nat
         /\ \A s \in 1 .. Len(stream) : /\ stream[s] \in Message
                                        /\ stream[s].event \in Events
                                        /\ stream[s].content \in Contents
                                        /\ stream[s].deliveries \in 0 .. MaxDeliver
  <1>1. Len(stream) \in Nat /\ \A s \in 1 .. Len(stream) : stream[s] \in Message
    BY ElementOfSeq, LenProperties DEF StreamOK
  <1> QED
    BY <1>1 DEF Message

\* A publication stores a new message or is a duplicate.
LEMMA AcceptsMoves ==
  ASSUME NEW e \in Events, NEW c \in Contents, StreamAccepts(e, c)
  PROVE  StreamMoves
  BY DEF StreamAccepts, StreamMoves, StreamStores, StreamStays

\* A delivery counts, and stays within the limit.
LEMMA DeliverMoves ==
  ASSUME StreamOK, NEW s, Deliverable(s),
         stream' = [stream EXCEPT ![s] = DeliverMessage(@)], window' = window
  PROVE  StreamMoves
  <1>1. s \in 1 .. Len(stream) /\ stream[s].status \in {"new", "due"}
    BY DEF Deliverable
  <1>2. /\ stream[s] \in Message /\ MessageOK(stream[s])
        /\ stream[s].deliveries \in 0 .. MaxDeliver
    BY <1>1, StreamTypes DEF StreamOK
  <1>3. stream[s].deliveries + 1 \in 0 .. MaxDeliver
    BY <1>1, <1>2, StreamAssumption DEF MessageOK
  <1> DEFINE m == DeliverMessage(stream[s])
  <1>4. m \in Message
    BY <1>2, <1>3 DEF DeliverMessage, Message
  <1>5. m.event = stream[s].event /\ m.content = stream[s].content /\ m.status = "inflight"
    BY <1>2 DEF DeliverMessage, Message
  <1>6. stream' = [stream EXCEPT ![s] = m]
    OBVIOUS
  <1> HIDE DEF m
  <1>7. StreamRewrites(s, m)
    BY <1>5, <1>6 DEF StreamRewrites, MessageOK
  <1> QED
    BY <1>1, <1>4, <1>7 DEF StreamMoves

\* An acknowledgement settles a message that is in the mailbox.
LEMMA AcknowledgeMoves ==
  ASSUME JetStreamInv, NEW t \in Transfers, Acknowledge(t)
  PROVE  StreamMoves
  <1> DEFINE s == xfer[t].seq
             m == AckMessage(stream[s])
  <1>1. s \in 1 .. Len(stream) /\ InMailbox(s)
    BY DEF JetStreamInv, TransfersOK, TransferOK, Acknowledge
  <1>2. stream[s] \in Message /\ MessageOK(stream[s])
    BY <1>1, StreamTypes DEF JetStreamInv, StreamOK
  <1>3. m \in Message /\ m.event = stream[s].event /\ m.content = stream[s].content
        /\ (m = stream[s] \/ m.status = "acked")
    <2> DEFINE n == [stream[s] EXCEPT !.status = "acked"]
    <2>1. n \in Message /\ n.event = stream[s].event /\ n.content = stream[s].content
          /\ n.status = "acked"
      BY <1>2 DEF Message
    <2>2. m = n \/ m = stream[s]
      BY DEF AckMessage
    <2> QED
      BY <1>2, <2>1, <2>2
  <1>4. stream' = [stream EXCEPT ![s] = m] /\ window' = window
    BY DEF Acknowledge
  <1>5. PICK r \in 1 .. Len(stream), n \in Message : r = s /\ n = m
    BY <1>1, <1>3
  <1> HIDE DEF s, m
  <1>6. MessageOK(n)
    BY <1>2, <1>3, <1>5 DEF MessageOK
  <1>7. StreamRewrites(r, n)
    BY <1>1, <1>3, <1>4, <1>5, <1>6 DEF StreamRewrites
  <1> QED
    BY <1>7 DEF StreamMoves

\* A message whose acknowledgement is overdue is offered again below the
\* delivery limit, and no more at it.
LEMMA AckWaitMoves ==
  ASSUME StreamOK, NEW s, AckWaitEnds(s)
  PROVE  StreamMoves
  <1> DEFINE st == IF stream[s].deliveries < MaxDeliver THEN "due" ELSE "exhausted"
             m == [stream[s] EXCEPT !.status = st]
  <1>1. s \in 1 .. Len(stream)
    BY DEF AckWaitEnds
  <1>2. stream[s] \in Message
    BY <1>1, StreamTypes
  <1>3. st \in {"due", "exhausted"} /\ (st = "due" => stream[s].deliveries < MaxDeliver)
    OBVIOUS
  <1>4. stream' = [stream EXCEPT ![s] = m] /\ window' = window
    BY DEF AckWaitEnds
  <1> HIDE DEF st
  <1>5. /\ m \in Message /\ m.event = stream[s].event /\ m.content = stream[s].content
        /\ m.status = st /\ m.deliveries = stream[s].deliveries
    BY <1>2, <1>3 DEF Message
  <1> HIDE DEF m
  <1>6. StreamRewrites(s, m)
    BY <1>3, <1>4, <1>5 DEF StreamRewrites, MessageOK
  <1> QED
    BY <1>1, <1>5, <1>6 DEF StreamMoves

(***************************************************************************)
(* Every step of the pipeline is a step of the outbox or none, a step of   *)
(* the mailbox or none, and moves the stream in one of these ways.  A      *)
(* durable receipt comes with the accepted publication, and what the       *)
(* promise of EventDelivery sees changes in one of the three only.         *)
(***************************************************************************)
LEMMA StepsOfParts ==
  ASSUME JetStreamInv, [Next]_vars
  PROVE  /\ OutboxNext \/ UNCHANGED outboxVars
         /\ \/ OutboxQuiet \/ UNCHANGED outboxVars
            \/ \E d \in Dispatchers : PublishDurable(d)
         /\ MailboxNext \/ UNCHANGED mailboxVars
         /\ StreamMoves
         /\ \/ UNCHANGED <<mailbox, stream>>
            \/ UNCHANGED <<outbox, mailbox>>
            \/ UNCHANGED <<outbox, stream>>
  <1> DEFINE Goal == /\ \/ OutboxQuiet \/ UNCHANGED outboxVars
                        \/ \E d \in Dispatchers : PublishDurable(d)
                     /\ MailboxNext \/ UNCHANGED mailboxVars
                     /\ StreamMoves
                     /\ \/ UNCHANGED <<mailbox, stream>>
                        \/ UNCHANGED <<outbox, mailbox>>
                        \/ UNCHANGED <<outbox, stream>>
  <1> SUFFICES Goal
    BY DEF PublishDurable, OutboxNext
  <1>1. /\ OutboxInv /\ StreamOK /\ TransfersOK
        /\ \A s \in 1 .. Len(stream) : stream[s].event \in Events /\ stream[s].content \in Contents
    BY StreamTypes DEF JetStreamInv
  <1>2. UNCHANGED streamVars => StreamMoves /\ UNCHANGED stream
    BY DEF streamVars, StreamMoves, StreamStays
  <1>3. CASE UNCHANGED vars
    BY <1>2, <1>3 DEF vars, outboxVars, mailboxVars, streamVars
  <1>4. ASSUME NEW e \in Events, NEW c \in Contents,
               Enqueue(e, c) /\ UNCHANGED mailboxVars /\ UNCHANGED streamVars
        PROVE  Goal
    BY <1>2, <1>4 DEF OutboxQuiet, mailboxVars
  <1>5. ASSUME NEW e \in Events, NEW c \in Contents, ForeignPublish(e, c)
        PROVE  Goal
    BY <1>5, AcceptsMoves DEF ForeignPublish, mailboxVars, outboxVars
  <1>6. ASSUME NEW d \in Dispatchers, DispatcherStep(d)
        PROVE  Goal
    <2>1. CASE PublishDurable(d) \/ PublishReplyLost(d) \/ PublishFails(d)
      <3>1. disp[d].event \in Events /\ disp[d].content \in Contents
        BY <1>1, <2>1, CallUnderWay DEF PublishDurable, PublishReplyLost, PublishFails,
           PublishReturns
      <3>2. StreamMoves
        <4>1. CASE StreamAccepts(disp[d].event, disp[d].content)
          <5>1. PICK e \in Events, c \in Contents : e = disp[d].event /\ c = disp[d].content
            BY <3>1
          <5>2. StreamAccepts(e, c)
            BY <4>1, <5>1 DEF StreamAccepts, Stored
          <5> QED
            BY <5>2, AcceptsMoves
        <4>2. CASE PublishFails(d)
          BY <4>2 DEF PublishFails, StreamMoves, StreamStays
        <4> QED
          BY <2>1, <4>1, <4>2 DEF PublishDurable, PublishReplyLost
      <3> QED
        BY <2>1, <3>2 DEF PublishDurable, PublishReplyLost, PublishFails, PublishReturns,
           OutboxQuiet, mailboxVars
    <2>2. CASE ~(PublishDurable(d) \/ PublishReplyLost(d) \/ PublishFails(d))
      <3>1. UNCHANGED mailboxVars /\ UNCHANGED streamVars
        BY <1>6, <2>2 DEF DispatcherStep
      <3>2. OutboxQuiet
        BY <1>6, <2>2 DEF DispatcherStep, OutboxQuiet
      <3> QED
        BY <1>2, <3>1, <3>2 DEF mailboxVars
    <2> QED
      BY <2>1, <2>2
  <1>7. ASSUME NEW t \in Transfers, TransferStep(t)
        PROVE  Goal
    <2>1. CASE \E s \in 1 .. StreamCapacity : Pull(t, s) \/ PullReplyLost(t, s)
      BY <1>1, <2>1, DeliverMoves DEF Pull, PullReplyLost, mailboxVars, outboxVars
    <2>2. CASE SinkDurable(t) \/ SinkReplyLost(t)
      <3>1. xfer[t].seq \in 1 .. Len(stream)
        BY <1>1, <2>2 DEF TransfersOK, TransferOK, SinkDurable, SinkReplyLost
      <3>2. PICK e \in Events, c \in Contents :
              e = stream[xfer[t].seq].event /\ c = stream[xfer[t].seq].content
        BY <1>1, <3>1
      <3>3. MailboxInsert(e, c)
        BY <2>2, <3>2 DEF SinkDurable, SinkReplyLost, MailboxInsert, Locked
      <3>4. MailboxNext
        BY <3>3 DEF MailboxNext
      <3>5. StreamMoves
        BY <2>2 DEF SinkDurable, SinkReplyLost, StreamMoves, StreamStays
      <3> QED
        BY <2>2, <3>4, <3>5 DEF SinkDurable, SinkReplyLost, outboxVars
    <2>3. CASE Acknowledge(t)
      BY <2>3, AcknowledgeMoves DEF Acknowledge, mailboxVars, outboxVars
    <2>4. CASE TransferFails(t)
      BY <2>4 DEF TransferFails, mailboxVars, outboxVars, StreamMoves, StreamStays
    <2> QED
      BY <1>7, <2>1, <2>2, <2>3, <2>4 DEF TransferStep
  <1>8. CASE \E k \in Consumers : ConsumerStep(k)
    BY <1>2, <1>8 DEF ConsumerStep, MailboxNext, outboxVars
  <1>9. ASSUME NEW e \in Events, TimePasses(e)
        PROVE  Goal
    <2>1. CASE WindowEnds(e)
      BY <2>1 DEF WindowEnds, mailboxVars, outboxVars, StreamMoves, StreamStays
    <2>2. CASE ~WindowEnds(e)
      BY <1>2, <1>9, <2>2 DEF TimePasses, OutboxQuiet, MailboxNext, outboxVars, mailboxVars
    <2> QED
      BY <2>1, <2>2
  <1>10. CASE \E s \in 1 .. StreamCapacity : AckWaitEnds(s)
    <2>1. StreamMoves
      BY <1>1, <1>10, AckWaitMoves
    <2> QED
      BY <1>10, <2>1 DEF AckWaitEnds, mailboxVars, outboxVars
  <1> QED
    BY <1>3, <1>4, <1>5, <1>6, <1>7, <1>8, <1>9, <1>10 DEF Next

(***************************************************************************)
(* The stream keeps its messages: their number never falls, and no message *)
(* changes its event or its content.                                       *)
(***************************************************************************)
LEMMA StreamKeeps ==
  ASSUME StreamOK, StreamMoves
  PROVE  /\ StreamOK'
         /\ Len(stream') \in Nat /\ Len(stream) <= Len(stream')
         /\ \A s \in 1 .. Len(stream) : /\ stream'[s].event = stream[s].event
                                        /\ stream'[s].content = stream[s].content
  <1>1. /\ Len(stream) \in Nat /\ stream \in Seq(Message)
        /\ window \in [Events -> 0 .. Len(stream)]
        /\ \A s \in 1 .. Len(stream) : stream[s] \in Message /\ MessageOK(stream[s])
    BY StreamTypes DEF StreamOK
  <1>2. CASE StreamStays
    <2>1. stream' = stream
      BY <1>2 DEF StreamStays
    <2>2. window' \in [Events -> 0 .. Len(stream)]
          /\ \A e \in Events : window'[e] # 0 => window'[e] = window[e]
      BY <1>1, <1>2 DEF StreamStays
    <2> QED
      BY <1>1, <2>1, <2>2 DEF StreamOK, MessageOK
  <1>3. ASSUME NEW e \in Events, NEW c \in Contents, StreamStores(e, c)
        PROVE  /\ StreamOK'
               /\ Len(stream') \in Nat /\ Len(stream) <= Len(stream')
               /\ \A s \in 1 .. Len(stream) : stream'[s] = stream[s]
    <2> DEFINE m == [event |-> e, content |-> c, status |-> "new", deliveries |-> 0]
    <2>1. m \in Message /\ m.event = e /\ m.status = "new" /\ m.deliveries = 0
      BY StreamAssumption DEF Message
    <2>2. stream' = Append(stream, m)
      BY <1>3 DEF StreamStores, Stored
    <2> HIDE DEF m
    <2>3. /\ stream' \in Seq(Message) /\ Len(stream') = Len(stream) + 1
          /\ \A s \in 1 .. Len(stream) : stream'[s] = stream[s]
          /\ stream'[Len(stream) + 1] = m
      BY <1>1, <2>1, <2>2, AppendProperties
    <2>4. Len(stream') <= StreamCapacity
      BY <1>1, <1>3, <2>3, StreamAssumption DEF StreamStores
    <2>5. ASSUME NEW s \in 1 .. Len(stream') PROVE MessageOK(stream'[s])
      <3>1. s \in 1 .. Len(stream) \/ s = Len(stream) + 1
        BY <1>1, <2>3
      <3> QED
        BY <1>1, <2>1, <2>3, <3>1 DEF MessageOK
    <2>6. /\ window' = [window EXCEPT ![e] = Len(stream) + 1]
          /\ window' \in [Events -> 0 .. Len(stream')]
      BY <1>1, <1>3, <2>3 DEF StreamStores
    <2>7. ASSUME NEW f \in Events, window'[f] # 0
          PROVE  stream'[window'[f]].event = f
      <3>1. CASE f = e
        BY <1>1, <2>1, <2>3, <2>6, <3>1
      <3>2. CASE f # e
        <4>1. window'[f] = window[f] /\ window[f] \in 1 .. Len(stream)
          BY <1>1, <2>6, <2>7, <3>2
        <4> QED
          BY <2>3, <2>7, <4>1 DEF StreamOK
      <3> QED
        BY <3>1, <3>2
    <2>8. \A s \in 1 .. Len(stream') : MessageOK(stream[s])'
      BY <2>5 DEF MessageOK
    <2> QED
      BY <1>1, <2>3, <2>4, <2>6, <2>7, <2>8 DEF StreamOK
  <1>4. ASSUME NEW r \in 1 .. Len(stream), NEW m \in Message, StreamRewrites(r, m)
        PROVE  /\ StreamOK'
               /\ Len(stream') = Len(stream)
               /\ \A s \in 1 .. Len(stream) : /\ stream'[s].event = stream[s].event
                                              /\ stream'[s].content = stream[s].content
    <2>1. /\ stream' = [stream EXCEPT ![r] = m] /\ window' = window
          /\ m.event = stream[r].event /\ m.content = stream[r].content /\ MessageOK(m)
      BY <1>4 DEF StreamRewrites
    <2>2. /\ stream' \in Seq(Message) /\ Len(stream') = Len(stream)
          /\ \A s \in 1 .. Len(stream) : stream'[s] = IF s = r THEN m ELSE stream[s]
      BY <1>1, <2>1, ExceptSeq
    <2>3. \A s \in 1 .. Len(stream') : MessageOK(stream'[s])
      BY <1>1, <2>1, <2>2
    <2>4. \A s \in 1 .. Len(stream) : /\ stream'[s].event = stream[s].event
                                      /\ stream'[s].content = stream[s].content
      BY <2>1, <2>2
    <2>5. \A s \in 1 .. Len(stream') : MessageOK(stream[s])'
      BY <2>3 DEF MessageOK
    <2>6. \A e \in Events : window'[e] # 0 => stream'[window'[e]].event = e
      BY <1>1, <2>1, <2>4 DEF StreamOK
    <2> QED
      BY <1>1, <2>1, <2>2, <2>4, <2>5, <2>6 DEF StreamOK
  <1> QED
    BY <1>1, <1>2, <1>3, <1>4 DEF StreamMoves, StreamStays

-----------------------------------------------------------------------------
\* A message that is in the mailbox stays there, with its own content.
LEMMA InMailboxStays ==
  ASSUME JetStreamInv, [Next]_vars, NEW s \in 1 .. Len(stream), InMailbox(s)
  PROVE  InMailbox(s)'
  <1>1. /\ stream'[s].event = stream[s].event /\ stream'[s].content = stream[s].content
        /\ stream[s].event \in Events /\ stream[s].content \in Contents
    BY StepsOfParts, StreamKeeps, StreamTypes DEF JetStreamInv
  <1>2. mailbox[stream[s].event].state # "absent"
    BY <1>1, ContentsAssumption DEF JetStreamInv, MailboxInv, MailboxRowOK, InMailbox
  <1>3. mailbox'[stream[s].event].content = mailbox[stream[s].event].content
    BY <1>1, <1>2, StepsOfParts, MailboxContentStable DEF JetStreamInv
  <1> QED
    BY <1>1, <1>3 DEF InMailbox

\* A transfer goes on with its message, takes one of the stream, ends, or is
\* about to acknowledge what the sink has committed.
LEMMA TransferSteps ==
  ASSUME JetStreamInv, [Next]_vars, NEW t \in Transfers
  PROVE  /\ xfer'[t] \in Transfer
         /\ \/ xfer'[t] = xfer[t]
            \/ xfer'[t].pc = "idle"
            \/ /\ xfer'[t].pc = "sink"
               /\ xfer'[t].seq \in 1 .. Len(stream)
            \/ /\ xfer'[t].pc = "ack" /\ xfer'[t].seq = xfer[t].seq
               /\ xfer[t].seq \in 1 .. Len(stream)
               /\ InMailbox(xfer[t].seq)'
  <1>1. /\ xfer \in [Transfers -> Transfer] /\ xfer[t] \in Transfer
        /\ Len(stream) \in Nat /\ Len(stream) <= StreamCapacity
        /\ \A s \in 1 .. Len(stream) : stream[s].event \in Events /\ stream[s].content \in Contents
    BY StreamTypes DEF JetStreamInv, TransfersOK, StreamOK
  <1>2. NoTransfer \in Transfer /\ NoTransfer.pc = "idle"
    BY StreamAssumption DEF NoTransfer, Transfer
  <1>3. CASE UNCHANGED xfer
    BY <1>1, <1>3
  <1>4. ASSUME NEW x \in Transfers, NEW s \in 1 .. StreamCapacity, Pull(x, s)
        PROVE  /\ xfer'[t] \in Transfer
               /\ \/ xfer'[t] = xfer[t]
                  \/ /\ xfer'[t].pc = "sink" /\ xfer'[t].seq \in 1 .. Len(stream)
    <2> DEFINE new == [pc |-> "sink", seq |-> s]
    <2>1. s \in 1 .. Len(stream) /\ s \in 0 .. StreamCapacity
      BY <1>1, <1>4, StreamAssumption DEF Pull, Deliverable
    <2>2. new \in Transfer /\ new.pc = "sink" /\ new.seq = s
      BY <2>1 DEF Transfer
    <2>3. xfer' = [xfer EXCEPT ![x] = new]
      BY <1>4 DEF Pull
    <2> HIDE DEF new
    <2> QED
      BY <1>1, <2>1, <2>2, <2>3
  <1>5. ASSUME NEW x \in Transfers, SinkReplyLost(x) \/ Acknowledge(x) \/ TransferFails(x)
        PROVE  xfer'[t] \in Transfer /\ (xfer'[t] = xfer[t] \/ xfer'[t].pc = "idle")
    <2>1. xfer' = [xfer EXCEPT ![x] = NoTransfer]
      BY <1>5 DEF SinkReplyLost, Acknowledge, TransferFails
    <2> QED
      BY <1>1, <1>2, <2>1
  <1>6. ASSUME NEW x \in Transfers, SinkDurable(x)
        PROVE  /\ xfer'[t] \in Transfer
               /\ \/ xfer'[t] = xfer[t]
                  \/ /\ xfer'[t].pc = "ack" /\ xfer'[t].seq = xfer[t].seq
                     /\ xfer[t].seq \in 1 .. Len(stream)
                     /\ InMailbox(xfer[t].seq)'
    <2> DEFINE new == [xfer[x] EXCEPT !.pc = "ack"]
    <2>1. xfer' = [xfer EXCEPT ![x] = new]
      BY <1>6 DEF SinkDurable
    <2>2. new \in Transfer /\ new.pc = "ack" /\ new.seq = xfer[x].seq
      BY <1>1 DEF Transfer
    <2> HIDE DEF new
    <2>3. CASE x # t
      BY <1>1, <2>1, <2>3
    <2>4. CASE x = t
      <3> DEFINE s == xfer[t].seq
                 e == stream[s].event
                 c == stream[s].content
      <3>1. s \in 1 .. Len(stream)
        BY <1>6, <2>4 DEF JetStreamInv, TransfersOK, TransferOK, SinkDurable
      <3>2. e \in Events
        BY <1>1, <3>1
      <3>3. /\ mailbox' = [mailbox EXCEPT ![e] = InsertRow(mailbox[e], FreshMailboxRow(c))]
            /\ InsertAccepts(mailbox[e], c) /\ stream' = stream
        BY <1>6, <2>4 DEF SinkDurable, MailboxInsert
      <3>4. FreshMailboxRow(c).content = c
        BY DEF FreshMailboxRow
      <3>5. mailbox \in [Events -> MailboxRow]
        BY DEF JetStreamInv, MailboxInv, MailboxTypeOK
      <3> HIDE DEF e, c
      <3>6. mailbox'[e].content = c
        BY <3>2, <3>3, <3>4, <3>5 DEF InsertRow, InsertAccepts
      <3>7. InMailbox(s)'
        <4>1. xfer'[t].seq = s
          BY <1>1, <2>1, <2>2, <2>4
        <4> QED
          BY <3>3, <3>6, <4>1 DEF InMailbox, e, c
      <3> QED
        BY <1>1, <2>1, <2>2, <2>4, <3>1, <3>7
    <2> QED
      BY <2>3, <2>4
  <1>7. \/ UNCHANGED xfer
        \/ \E x \in Transfers, s \in 1 .. StreamCapacity : Pull(x, s)
        \/ \E x \in Transfers : \/ SinkReplyLost(x) \/ Acknowledge(x) \/ TransferFails(x)
                                \/ SinkDurable(x)
    BY DEF Next, vars, streamVars, ForeignPublish, DispatcherStep, PublishDurable,
       PublishReplyLost, PublishFails, TransferStep, PullReplyLost, ConsumerStep,
       TimePasses, WindowEnds, AckWaitEnds
  <1> QED
    BY <1>3, <1>4, <1>5, <1>6, <1>7

\* The transfers and the acknowledged messages keep their part of the invariant.
LEMMA TransfersStayOK ==
  ASSUME JetStreamInv, [Next]_vars
  PROVE  TransfersOK'
  <1>1. /\ Len(stream) \in Nat /\ Len(stream') \in Nat /\ Len(stream) <= Len(stream')
        /\ StreamMoves
        /\ \A s \in 1 .. Len(stream) : stream[s] \in Message
        /\ stream \in Seq(Message)
    BY StepsOfParts, StreamKeeps, StreamTypes DEF JetStreamInv, StreamOK
  <1>2. xfer' \in [Transfers -> Transfer]
    <2>1. \/ UNCHANGED xfer
          \/ \E x \in Transfers : \E new : xfer' = [xfer EXCEPT ![x] = new]
      BY DEF Next, vars, streamVars, ForeignPublish, DispatcherStep, PublishDurable,
         PublishReplyLost, PublishFails, TransferStep, Pull, PullReplyLost, SinkDurable,
         SinkReplyLost, Acknowledge, TransferFails, ConsumerStep, TimePasses, WindowEnds,
         AckWaitEnds
    <2>2. xfer \in [Transfers -> Transfer]
      BY DEF JetStreamInv, TransfersOK
    <2>3. \A t \in Transfers : xfer'[t] \in Transfer
      BY TransferSteps
    <2> QED
      BY <2>1, <2>2, <2>3
  <1>3. ASSUME NEW t \in Transfers PROVE TransferOK(t)'
    <2>1. TransferOK(t)
      BY DEF JetStreamInv, TransfersOK
    <2>2. CASE xfer'[t] = xfer[t]
      <3>1. CASE xfer[t].pc = "idle"
        BY <2>2, <3>1 DEF TransferOK
      <3>2. CASE xfer[t].pc # "idle"
        <4>1. PICK s \in 1 .. Len(stream) : s = xfer[t].seq
          BY <2>1, <3>2 DEF TransferOK
        <4>2. InMailbox(s) => InMailbox(s)'
          BY InMailboxStays
        <4>3. s \in 1 .. Len(stream')
          BY <1>1
        <4> QED
          BY <2>1, <2>2, <4>1, <4>2, <4>3 DEF TransferOK, InMailbox
      <3> QED
        BY <3>1, <3>2
    <2>3. CASE xfer'[t].pc = "idle"
      BY <2>3 DEF TransferOK
    <2>4. CASE xfer'[t].pc = "sink" /\ xfer'[t].seq \in 1 .. Len(stream)
      <3>1. xfer'[t].seq \in 1 .. Len(stream')
        BY <1>1, <2>4
      <3> QED
        BY <2>4, <3>1 DEF TransferOK
    <2>5. CASE /\ xfer'[t].pc = "ack" /\ xfer'[t].seq = xfer[t].seq
               /\ xfer[t].seq \in 1 .. Len(stream)
               /\ InMailbox(xfer[t].seq)'
      <3>1. xfer'[t].seq \in 1 .. Len(stream')
        BY <1>1, <2>5
      <3> QED
        BY <2>5, <3>1 DEF TransferOK
    <2> QED
      BY <2>2, <2>3, <2>4, <2>5, TransferSteps
  <1>4. ASSUME NEW s \in 1 .. Len(stream'), stream'[s].status = "acked"
        PROVE  InMailbox(s)'
    <2>1. s \in 1 .. Len(stream) /\ (stream[s].status = "acked" \/ InMailbox(s))
      <3>1. CASE StreamStays
        BY <1>4, <3>1 DEF StreamStays
      <3>2. ASSUME NEW e \in Events, NEW c \in Contents, StreamStores(e, c)
            PROVE  s \in 1 .. Len(stream) /\ stream'[s] = stream[s]
        <4> DEFINE m == [event |-> e, content |-> c, status |-> "new", deliveries |-> 0]
        <4>1. m \in Message /\ m.status = "new"
          BY StreamAssumption DEF Message
        <4>2. stream' = Append(stream, m)
          BY <3>2 DEF StreamStores, Stored
        <4> HIDE DEF m
        <4>3. /\ Len(stream') = Len(stream) + 1
              /\ \A i \in 1 .. Len(stream) : stream'[i] = stream[i]
              /\ stream'[Len(stream) + 1] = m
          BY <1>1, <4>1, <4>2, AppendProperties
        <4>4. s # Len(stream) + 1
          BY <1>4, <4>1, <4>3
        <4>5. s \in 1 .. Len(stream)
          BY <1>1, <1>4, <4>3, <4>4
        <4> QED
          BY <4>3, <4>5
      <3>3. ASSUME NEW r \in 1 .. Len(stream), NEW m \in Message, StreamRewrites(r, m)
            PROVE  /\ s \in 1 .. Len(stream)
                   /\ stream'[s] = stream[s] \/ stream[s].status = "acked" \/ InMailbox(s)
        <4>1. stream' = [stream EXCEPT ![r] = m]
              /\ (m.status = "acked" => stream[r].status = "acked" \/ InMailbox(r))
          BY <3>3 DEF StreamRewrites
        <4>2. /\ Len(stream') = Len(stream)
              /\ \A i \in 1 .. Len(stream) : stream'[i] = IF i = r THEN m ELSE stream[i]
          BY <1>1, <4>1, ExceptSeq
        <4> QED
          BY <1>4, <4>1, <4>2
      <3> QED
        BY <1>1, <1>4, <3>1, <3>2, <3>3 DEF StreamMoves
    <2>2. InMailbox(s)
      BY <2>1 DEF JetStreamInv, TransfersOK
    <2> QED
      BY <2>1, <2>2, InMailboxStays
  <1>5. \A s \in 1 .. Len(stream') : stream'[s].status = "acked" => InMailbox(s)'
    BY <1>4
  <1> QED
    BY <1>2, <1>3, <1>5 DEF TransfersOK

-----------------------------------------------------------------------------
\* A content is stored for an event when some message carries both.
LEMMA StoredContent ==
  ASSUME NEW e, NEW c
  PROVE  c \in StreamContents(e) <=>
           \E s \in 1 .. Len(stream) : stream[s].event = e /\ stream[s].content = c
  BY DEF StreamContents

\* The stream loses no content.
LEMMA ContentsKept ==
  ASSUME JetStreamInv, [Next]_vars, NEW e, NEW c, c \in StreamContents(e)
  PROVE  c \in StreamContents(e)'
  <1>1. PICK s \in 1 .. Len(stream) : stream[s].event = e /\ stream[s].content = c
    BY StoredContent
  <1>2. /\ Len(stream) \in Nat /\ Len(stream') \in Nat /\ Len(stream) <= Len(stream')
        /\ stream'[s].event = e /\ stream'[s].content = c
    BY <1>1, StepsOfParts, StreamKeeps, StreamTypes DEF JetStreamInv
  <1>3. s \in 1 .. Len(stream')
    BY <1>2
  <1> QED
    BY <1>2, <1>3 DEF StreamContents

\* After an accepted publication the stream stores the content; with a PubAck
\* that matches, also when the publication was a duplicate.
LEMMA PublishedContent ==
  ASSUME StreamOK, NEW e \in Events, NEW c \in Contents,
         StreamAccepts(e, c), PubAckMatches(e, c)
  PROVE  c \in StreamContents(e)'
  <1>1. Len(stream) \in Nat /\ stream \in Seq(Message)
    BY StreamTypes DEF StreamOK
  <1>2. CASE window[e] # 0
    <2>1. /\ window[e] \in 1 .. Len(stream) /\ stream' = stream
          /\ stream[window[e]].event = e /\ stream[window[e]].content = c
      BY <1>1, <1>2 DEF StreamOK, StreamAccepts, PubAckMatches
    <2> QED
      BY <2>1 DEF StreamContents
  <1>3. CASE window[e] = 0
    <2> DEFINE m == [event |-> e, content |-> c, status |-> "new", deliveries |-> 0]
    <2>1. m \in Message /\ m.event = e /\ m.content = c
      BY StreamAssumption DEF Message
    <2>2. stream' = Append(stream, m)
      BY <1>3 DEF StreamAccepts, Stored
    <2> HIDE DEF m
    <2>3. Len(stream') = Len(stream) + 1 /\ stream'[Len(stream) + 1] = m
      BY <1>1, <2>1, <2>2, AppendProperties
    <2>4. Len(stream) + 1 \in 1 .. Len(stream')
      BY <1>1, <2>3
    <2> QED
      BY <2>1, <2>3, <2>4 DEF StreamContents
  <1> QED
    BY <1>2, <1>3

\* The link between the outbox and the stream is kept by every step.
LEMMA ReceiptsStayTrue ==
  ASSUME JetStreamInv, [Next]_vars
  PROVE  ReceiptsAreTrue'
  <1>1. OutboxInv /\ StreamOK /\ ReceiptsAreTrue
    BY DEF JetStreamInv
  <1>2. ASSUME NEW d \in Dispatchers, disp'[d].receipt = "durable"
        PROVE  (disp[d].content \in StreamContents(disp[d].event))'
    <2>1. CASE disp'[d] = disp[d]
      <3>1. PICK e, c : e = disp[d].event /\ c = disp[d].content
        OBVIOUS
      <3>2. c \in StreamContents(e)
        BY <1>1, <1>2, <2>1, <3>1 DEF ReceiptsAreTrue
      <3>3. c \in StreamContents(e)'
        BY <3>2, ContentsKept
      <3> QED
        BY <2>1, <3>1, <3>3
    <2>2. CASE PublishDurable(d)
      <3>1. PICK e \in Events, c \in Contents : e = disp[d].event /\ c = disp[d].content
        BY <1>1, <2>2, CallUnderWay DEF PublishDurable, PublishReturns
      <3>2. StreamAccepts(e, c) /\ PubAckMatches(e, c)
        BY <2>2, <3>1 DEF PublishDurable, StreamAccepts, PubAckMatches, Stored
      <3>3. c \in StreamContents(e)'
        BY <1>1, <3>2, PublishedContent
      <3>4. disp'[d].event = e /\ disp'[d].content = c
        BY <1>1, <2>2, <3>1, ReceiptStep DEF PublishDurable
      <3> QED
        BY <3>3, <3>4
    <2>3. CASE OutboxQuiet \/ UNCHANGED outboxVars
      BY <1>1, <1>2, <2>1, <2>3, OldReceipt
    <2>4. ASSUME NEW x \in Dispatchers, PublishDurable(x), x # d
          PROVE  disp'[d] = disp[d]
      BY <1>1, <2>4, ReceiptStep DEF PublishDurable
    <2> QED
      BY <2>1, <2>2, <2>3, <2>4, StepsOfParts
  <1>3. ASSUME NEW e \in Events, outbox'[e].state = "sent"
        PROVE  (outbox[e].content \in StreamContents(e))'
    <2>1. outbox'[e].content = outbox[e].content
      BY <1>1, <1>3, NewSent, StepsOfParts
    <2>2. PICK c : c = outbox[e].content
      OBVIOUS
    <2>3. c \in StreamContents(e)
      <3>1. CASE outbox[e].state = "sent"
        BY <1>1, <2>2, <3>1 DEF ReceiptsAreTrue
      <3>2. ASSUME NEW d \in Dispatchers, disp[d].event = e, disp[d].pc = "finish",
                   disp[d].receipt = "durable"
            PROVE  c \in StreamContents(e)
        BY <1>1, <2>2, <3>2 DEF ReceiptsAreTrue, OutboxInv, DispatchOK
      <3> QED
        BY <1>1, <1>3, <3>1, <3>2, NewSent, StepsOfParts
    <2>4. c \in StreamContents(e)'
      BY <2>3, ContentsKept
    <2> QED
      BY <2>1, <2>2, <2>4
  <1> QED
    BY <1>2, <1>3 DEF ReceiptsAreTrue

(***************************************************************************)
(* The inductive invariant of the pipeline: the invariants of the two      *)
(* tables, of the stream and of the transfers, and the link between a      *)
(* receipt and the stream.                                                 *)
(***************************************************************************)
THEOREM JetStreamInvariant == Spec => []JetStreamInv
  <1>1. Init => JetStreamInv
    <2> SUFFICES ASSUME Init PROVE JetStreamInv
      OBVIOUS
    <2>1. OutboxInv /\ MailboxInv
      BY OutboxInitInv, MailboxInitInv DEF Init
    <2>2. stream = <<>> /\ Len(stream) = 0 /\ stream \in Seq(Message) /\ 1 .. Len(stream) = {}
      BY EmptySeq DEF Init
    <2>3. StreamOK
      BY <2>2, StreamAssumption DEF Init, StreamOK
    <2>4. TransfersOK
      <3>1. NoTransfer \in Transfer /\ NoTransfer.pc = "idle"
        BY StreamAssumption DEF NoTransfer, Transfer
      <3>2. xfer = [t \in Transfers |-> NoTransfer]
        BY DEF Init
      <3> QED
        BY <2>2, <3>1, <3>2 DEF TransfersOK, TransferOK
    <2>5. ReceiptsAreTrue
      <3>1. /\ \A d \in Dispatchers : disp[d] = Idle
            /\ \A e \in Events : outbox[e] = NoOutboxRow
        BY DEF Init, OutboxInit
      <3>2. Idle.receipt = "none" /\ NoOutboxRow.state = "absent"
        BY DEF Idle, NoOutboxRow
      <3> QED
        BY <3>1, <3>2 DEF ReceiptsAreTrue
    <2> QED
      BY <2>1, <2>3, <2>4, <2>5 DEF JetStreamInv
  <1>2. JetStreamInv /\ [Next]_vars => JetStreamInv'
    <2> SUFFICES ASSUME JetStreamInv, [Next]_vars PROVE JetStreamInv'
      OBVIOUS
    <2>1. OutboxInv' /\ MailboxInv'
      BY StepsOfParts, OutboxNextInv, MailboxNextInv DEF JetStreamInv
    <2>2. StreamOK'
      BY StepsOfParts, StreamKeeps DEF JetStreamInv
    <2>3. TransfersOK' /\ ReceiptsAreTrue'
      BY TransfersStayOK, ReceiptsStayTrue
    <2> QED
      BY <2>1, <2>2, <2>3 DEF JetStreamInv
  <1> QED
    BY <1>1, <1>2, PTL DEF Spec

(***************************************************************************)
(* E04, E06, J01, J04: sent means stored in the stream with its own        *)
(* content, an acknowledged message has been committed to the mailbox,     *)
(* and redeliveries apply the effects of an event once.                    *)
(***************************************************************************)
THEOREM TransferCorrect == Spec => []TransferIsSound
  <1>1. JetStreamInv => TransferIsSound
    <2> SUFFICES ASSUME JetStreamInv PROVE TransferIsSound
      OBVIOUS
    <2>1. TypeOK
      BY DEF JetStreamInv, OutboxInv, MailboxInv, StreamOK, TransfersOK, TypeOK
    <2>2. SentIsInStream
      BY DEF JetStreamInv, ReceiptsAreTrue, SentIsInStream
    <2>3. AckedIsInMailbox
      BY DEF JetStreamInv, TransfersOK, InMailbox, AckedIsInMailbox
    <2>4. EffectsOnceIffProcessed
      BY MailboxInvImplies DEF JetStreamInv
    <2> QED
      BY <2>1, <2>2, <2>3, <2>4 DEF TransferIsSound
  <1> QED
    BY <1>1, JetStreamInvariant, PTL

-----------------------------------------------------------------------------
\* What the transport holds for each event, in the stream or in the mailbox.
Held == [e \in Events |-> StreamContents(e) \cup ({mailbox[e].content} \ {NoContent})]

Holds(e, c) == Held' = [Held EXCEPT ![e] = @ \cup {c}]

\* A move of the stream adds at most one content to what it stores.
LEMMA StreamHolds ==
  ASSUME StreamOK, StreamMoves, UNCHANGED mailbox
  PROVE  Held' = Held \/ \E e \in Events, c \in Contents : Holds(e, c)
  <1>1. /\ Len(stream) \in Nat /\ Len(stream') \in Nat /\ stream \in Seq(Message)
        /\ \A s \in 1 .. Len(stream) : /\ stream'[s].event = stream[s].event
                                       /\ stream'[s].content = stream[s].content
    BY StreamTypes, StreamKeeps DEF StreamOK
  <1>2. ASSUME Len(stream') = Len(stream)
        PROVE  Held' = Held
    <2>1. ASSUME NEW e PROVE StreamContents(e)' = StreamContents(e)
      BY <1>1, <1>2 DEF StreamContents
    <2> QED
      BY <2>1 DEF Held
  <1>3. ASSUME NEW e \in Events, NEW c \in Contents, StreamStores(e, c)
        PROVE  Holds(e, c)
    <2> DEFINE m == [event |-> e, content |-> c, status |-> "new", deliveries |-> 0]
    <2>1. m \in Message /\ m.event = e /\ m.content = c
      BY StreamAssumption DEF Message
    <2>2. stream' = Append(stream, m)
      BY <1>3 DEF StreamStores, Stored
    <2> HIDE DEF m
    <2>3. Len(stream') = Len(stream) + 1 /\ stream'[Len(stream) + 1] = m
      BY <1>1, <2>1, <2>2, AppendProperties
    <2>4. ASSUME NEW s
          PROVE  s \in 1 .. Len(stream') <=> s \in 1 .. Len(stream) \/ s = Len(stream) + 1
      BY <1>1, <2>3
    <2>5. ASSUME NEW f \in Events, NEW x
          PROVE  x \in StreamContents(f)' <=> x \in StreamContents(f) \/ (f = e /\ x = c)
      <3>1. x \in StreamContents(f)' <=>
              \E s \in 1 .. Len(stream') : stream'[s].event = f /\ stream'[s].content = x
        BY DEF StreamContents
      <3>2. x \in StreamContents(f) <=>
              \E s \in 1 .. Len(stream) : stream[s].event = f /\ stream[s].content = x
        BY StoredContent
      <3> QED
        BY <1>1, <2>1, <2>3, <2>4, <3>1, <3>2
    <2>6. \A f \in Events : StreamContents(f)' =
             IF f = e THEN StreamContents(f) \cup {c} ELSE StreamContents(f)
      BY <2>5
    <2> QED
      BY <2>6 DEF Held, Holds
  <1>4. ASSUME NEW r \in 1 .. Len(stream), NEW m \in Message, StreamRewrites(r, m)
        PROVE  Len(stream') = Len(stream)
    BY <1>1, <1>4, ExceptSeq DEF StreamRewrites
  <1> QED
    BY <1>2, <1>3, <1>4 DEF StreamMoves, StreamStays

\* The outbox's half, the stream and the mailbox's half of the promise move in
\* different steps.
LEMMA PromiseStep ==
  ASSUME JetStreamInv, [Next]_vars
  PROVE  \/ (Records \/ Sends \/ GivesUp) /\ UNCHANGED <<Held, Fate>>
         \/ /\ \E e \in Events, c \in Contents : Holds(e, c)
            /\ UNCHANGED <<Recorded, Verdict, Fate>>
         \/ Decides /\ UNCHANGED <<Recorded, Verdict, Held>>
         \/ UNCHANGED <<Recorded, Verdict, Held, Fate>>
  <1>1. CASE UNCHANGED <<mailbox, stream>>
    <2>1. UNCHANGED <<Held, Fate>>
      BY <1>1 DEF Held, Fate, StreamContents
    <2> QED
      BY <2>1, StepsOfParts, OutboxPromise DEF JetStreamInv
  <1>2. CASE UNCHANGED <<outbox, mailbox>>
    <2>1. UNCHANGED <<Recorded, Verdict, Fate>>
      BY <1>2 DEF Recorded, Verdict, Fate
    <2> QED
      BY <1>2, <2>1, StepsOfParts, StreamHolds DEF JetStreamInv
  <1>3. CASE UNCHANGED <<outbox, stream>>
    <2>1. UNCHANGED <<Recorded, Verdict>>
      BY <1>3 DEF Recorded, Verdict
    <2>2. \A e \in Events : StreamContents(e)' = StreamContents(e)
      BY <1>3 DEF StreamContents
    <2>3. /\ Held = [e \in Events |-> StreamContents(e) \cup ({Kept[e]} \ {NoContent})]
          /\ Held' = [e \in Events |-> StreamContents(e) \cup ({Kept'[e]} \ {NoContent})]
      BY <2>2 DEF Held, Kept
    <2>4. Kept' = Kept => Held' = Held
      BY <2>3
    <2>5. ASSUME NEW e \in Events, NEW c \in Contents, Kept[e] = NoContent,
                 Kept' = [Kept EXCEPT ![e] = c]
          PROVE  Holds(e, c)
      <3>1. Kept = [f \in Events |-> Kept[f]]
        BY DEF Kept
      <3>2. \A f \in Events : {Kept'[f]} \ {NoContent} =
               IF f = e THEN {c} ELSE {Kept[f]} \ {NoContent}
        BY <2>5, <3>1, ContentsAssumption
      <3>3. Held[e] = StreamContents(e)
        BY <2>3, <2>5
      <3> QED
        BY <2>3, <3>2, <3>3 DEF Holds
    <2>6. Takes \/ Decides \/ (Kept' = Kept /\ Fate' = Fate)
      BY StepsOfParts, MailboxPromise DEF JetStreamInv
    <2> QED
      BY <2>1, <2>4, <2>5, <2>6 DEF Decides, Takes
  <1> QED
    BY <1>1, <1>2, <1>3, StepsOfParts

(***************************************************************************)
(* E02 to E06, J01, J04: the pipeline over JetStream keeps the same        *)
(* promise as the one over PostgreSQL, in spite of lost, repeated and late *)
(* requests and an external stream between outbox and mailbox.             *)
(***************************************************************************)
THEOREM JetStreamKeepsPromise == Spec => ImplementsPromise
  <1>1. Init => Promise!Init
    <2> SUFFICES ASSUME Init PROVE Promise!Init
      OBVIOUS
    <2>1. \A e \in Events : outbox[e] = NoOutboxRow /\ mailbox[e] = NoMailboxRow
      BY DEF Init, OutboxInit, MailboxInit
    <2>2. /\ NoOutboxRow.content = NoContent /\ NoOutboxRow.state = "absent"
          /\ NoMailboxRow.content = NoContent /\ NoMailboxRow.state = "absent"
      BY DEF NoOutboxRow, NoMailboxRow
    <2>3. 1 .. Len(stream) = {}
      BY EmptySeq DEF Init
    <2>4. \A e \in Events : StreamContents(e) = {}
      BY <2>3 DEF StreamContents
    <2> QED
      BY <2>1, <2>2, <2>4 DEF Promise!Init
  <1>2. JetStreamInv /\ [Next]_vars => [Promise!Next]_(Promise!vars)
    <2> SUFFICES ASSUME JetStreamInv, [Next]_vars
                 PROVE  Promise!Next \/ UNCHANGED <<Recorded, Held, Verdict, Fate>>
      BY DEF Promise!vars, Recorded, Held, Verdict, Fate
    <2>1. CASE Records /\ UNCHANGED <<Held, Fate>>
      <3>1. PICK e \in Events, c \in Contents :
              /\ Recorded[e] = NoContent
              /\ Recorded' = [Recorded EXCEPT ![e] = c]
              /\ Verdict' = Verdict
        BY <2>1 DEF Records
      <3>2. Promise!Record(e, c)
        BY <2>1, <3>1 DEF Promise!Record, Recorded, Held, Verdict, Fate
      <3> QED
        BY <3>2 DEF Promise!Next
    <2>2. CASE Sends /\ UNCHANGED <<Held, Fate>>
      <3>1. PICK d \in Dispatchers :
              /\ disp[d].pc = "finish" /\ disp[d].receipt = "durable"
              /\ disp[d].event \in Events
              /\ Verdict[disp[d].event] = "open"
              /\ Verdict' = [Verdict EXCEPT ![disp[d].event] = "sent"]
              /\ Recorded' = Recorded
        BY <2>2 DEF Sends
      <3>2. PICK e \in Events : e = disp[d].event
        BY <3>1
      <3>3. outbox[e].content \in StreamContents(e)
        BY <3>1, <3>2 DEF JetStreamInv, ReceiptsAreTrue, OutboxInv, DispatchOK
      <3>4. Recorded[e] \in Held[e]
        BY <3>3 DEF Recorded, Held
      <3>5. Promise!Send(e)
        BY <2>2, <3>1, <3>2, <3>4 DEF Promise!Send, Recorded, Held, Verdict, Fate
      <3> QED
        BY <3>5 DEF Promise!Next
    <2>3. CASE GivesUp /\ UNCHANGED <<Held, Fate>>
      <3>1. PICK S \in SUBSET Events :
              /\ \A e \in S : Verdict[e] = "open" /\ Recorded[e] \in Contents
              /\ Verdict' = [e \in Events |-> IF e \in S THEN "dead" ELSE Verdict[e]]
              /\ Recorded' = Recorded
        BY <2>3 DEF GivesUp
      <3>2. Promise!GiveUp(S)
        BY <2>3, <3>1 DEF Promise!GiveUp, Recorded, Held, Verdict, Fate
      <3> QED
        BY <3>2 DEF Promise!Next
    <2>4. CASE /\ \E e \in Events, c \in Contents : Holds(e, c)
               /\ UNCHANGED <<Recorded, Verdict, Fate>>
      <3>1. PICK e \in Events, c \in Contents : Holds(e, c)
        BY <2>4
      <3>2. Promise!Hold(e, c)
        BY <2>4, <3>1 DEF Promise!Hold, Holds, Recorded, Held, Verdict, Fate
      <3> QED
        BY <3>2 DEF Promise!Next
    <2>5. CASE Decides /\ UNCHANGED <<Recorded, Verdict, Held>>
      <3>1. PICK e \in Events : \E x \in {"applied", "dead"} :
              /\ Fate[e] = "open" /\ Kept[e] # NoContent
              /\ Fate' = [Fate EXCEPT ![e] = x]
        BY <2>5 DEF Decides
      <3>2. Held[e] # {}
        BY <3>1 DEF Held, Kept
      <3>3. Promise!Apply(e) \/ Promise!Poison(e)
        BY <2>5, <3>1, <3>2 DEF Promise!Apply, Promise!Poison, Recorded, Held, Verdict, Fate
      <3> QED
        BY <3>3 DEF Promise!Next
    <2> QED
      BY <2>1, <2>2, <2>3, <2>4, <2>5, PromiseStep
  <1> QED
    BY <1>1, <1>2, JetStreamInvariant, PTL DEF Spec, ImplementsPromise, Promise!Spec
=============================================================================
