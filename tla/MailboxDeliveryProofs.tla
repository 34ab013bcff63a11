----------------------- MODULE MailboxDeliveryProofs -----------------------
(***************************************************************************)
(* The event pipeline over the PostgreSQL mailbox, for any number of       *)
(* events, contents, dispatchers and consumers and any attempt limit.      *)
(***************************************************************************)
EXTENDS MailboxDelivery, EventTableProofs

\* What links the two tables: a durable receipt in the hands of a dispatcher,
\* and later the verdict "sent", stand for the event's content in the mailbox.
ReceiptsAreTrue ==
    /\ \A d \in Dispatchers :
          disp[d].receipt = "durable" =>
              mailbox[disp[d].event].content = disp[d].content
    /\ \A e \in Events :
          outbox[e].state = "sent" => mailbox[e].content = outbox[e].content

DeliveryInv == OutboxInv /\ MailboxInv /\ ReceiptsAreTrue

-----------------------------------------------------------------------------
\* Every step of the pipeline is a step of the outbox or none, and a step of
\* the mailbox or none; a durable receipt comes with the committed insert, and
\* no step changes rows of both tables.
LEMMA StepsOfParts ==
  ASSUME DeliveryInv, [Next]_vars
  PROVE  /\ OutboxNext \/ UNCHANGED outboxVars
         /\ \/ OutboxQuiet \/ UNCHANGED outboxVars
            \/ \E d \in Dispatchers : PublishDurable(d)
         /\ MailboxNext \/ UNCHANGED mailboxVars
         /\ UNCHANGED outbox \/ UNCHANGED mailbox
  <1> DEFINE Goal == /\ \/ OutboxQuiet \/ UNCHANGED outboxVars
                        \/ \E d \in Dispatchers : PublishDurable(d)
                     /\ MailboxNext \/ UNCHANGED mailboxVars
                     /\ UNCHANGED outbox \/ UNCHANGED mailbox
  <1> SUFFICES Goal
    BY DEF PublishDurable, OutboxNext
  <1>1. CASE UNCHANGED vars
    BY <1>1 DEF vars, outboxVars, mailboxVars
  <1>2. CASE \E e \in Events, c \in Contents :
               \/ Enqueue(e, c) /\ UNCHANGED mailboxVars
               \/ DirectPublish(e, c)
    BY <1>2 DEF DirectPublish, OutboxQuiet, MailboxNext, outboxVars, mailboxVars
  <1>3. ASSUME NEW d \in Dispatchers, DispatcherStep(d)
        PROVE  Goal
    <2>1. disp[d].pc # "idle" => disp[d].event \in Events /\ disp[d].content \in Contents
      BY CallUnderWay DEF DeliveryInv
    <2>2. CASE PublishDurable(d) \/ PublishReplyLost(d) \/ PublishFails(d)
      BY <2>1, <2>2 DEF PublishDurable, PublishReplyLost, PublishFails, PublishReturns,
         OutboxQuiet, MailboxNext
    <2>3. CASE ~(PublishDurable(d) \/ PublishReplyLost(d) \/ PublishFails(d))
      BY <1>3, <2>3 DEF DispatcherStep, OutboxQuiet, mailboxVars
    <2> QED
      BY <2>2, <2>3
  <1>4. CASE \E k \in Consumers : ConsumerStep(k)
    BY <1>4 DEF ConsumerStep, MailboxNext, outboxVars
  <1>5. CASE \E e \in Events : TimePasses(e)
    BY <1>5 DEF TimePasses, OutboxQuiet, MailboxNext, outboxVars, mailboxVars
  <1> QED
    BY <1>1, <1>2, <1>3, <1>4, <1>5 DEF Next

\* The link between the tables is kept by every step.
LEMMA ReceiptsStayTrue ==
  ASSUME DeliveryInv, [Next]_vars
  PROVE  ReceiptsAreTrue'
  <1>1. /\ OutboxInv /\ MailboxInv /\ ReceiptsAreTrue
        /\ MailboxNext \/ UNCHANGED mailboxVars
    BY StepsOfParts DEF DeliveryInv
  <1>2. ASSUME NEW e \in Events, mailbox[e].content # NoContent
        PROVE  mailbox'[e].content = mailbox[e].content
    <2>1. mailbox[e].state # "absent"
      BY <1>1, <1>2 DEF MailboxInv, MailboxRowOK
    <2> QED
      BY <1>1, <2>1, MailboxContentStable
  <1>3. ASSUME NEW d \in Dispatchers, disp[d].pc # "idle"
        PROVE  /\ disp[d].event \in Events /\ disp[d].content # NoContent
               /\ disp[d].content = outbox[disp[d].event].content
    BY <1>1, <1>3 DEF OutboxInv, DispatchOK, OutboxRowOK
  <1>4. ASSUME NEW d \in Dispatchers, disp'[d].receipt = "durable"
        PROVE  mailbox'[disp'[d].event].content = disp'[d].content
    <2>1. CASE disp'[d] = disp[d]
      <3>1. disp[d].pc # "idle" /\ mailbox[disp[d].event].content = disp[d].content
        BY <1>1, <1>4, <2>1 DEF OutboxInv, DispatchOK, ReceiptsAreTrue
      <3> QED
        BY <1>2, <1>3, <2>1, <3>1
    <2>2. CASE PublishDurable(d)
      <3> DEFINE e == disp[d].event
                 c == disp[d].content
      <3>1. e \in Events /\ mailbox \in [Events -> MailboxRow]
        BY <1>1, <1>3, <2>2 DEF MailboxInv, MailboxTypeOK, PublishDurable, PublishReturns
      <3>2. /\ mailbox'[e] = InsertRow(mailbox[e], FreshMailboxRow(c))
            /\ InsertAccepts(mailbox[e], c)
        BY <2>2, <3>1 DEF PublishDurable, MailboxInsert
      <3>3. FreshMailboxRow(c).content = c
        BY DEF FreshMailboxRow
      <3>4. mailbox'[e].content = c
        BY <3>2, <3>3 DEF InsertRow, InsertAccepts
      <3>5. disp'[d].event = e /\ disp'[d].content = c
        BY <1>1, <2>2, ReceiptStep DEF PublishDurable
      <3> QED
        BY <3>4, <3>5
    <2>3. CASE OutboxQuiet \/ UNCHANGED outboxVars
      BY <1>1, <1>4, <2>1, <2>3, OldReceipt
    <2>4. ASSUME NEW x \in Dispatchers, PublishDurable(x), x # d
          PROVE  disp'[d] = disp[d]
      BY <1>1, <2>4, ReceiptStep DEF PublishDurable
    <2> QED
      BY <2>1, <2>2, <2>3, <2>4, StepsOfParts
  <1>5. ASSUME NEW e \in Events, outbox'[e].state = "sent"
        PROVE  mailbox'[e].content = outbox'[e].content
    <2>1. outbox'[e].content = outbox[e].content
      BY <1>1, <1>5, NewSent, StepsOfParts
    <2>2. CASE outbox[e].state = "sent"
      <3>1. mailbox[e].content = outbox[e].content /\ outbox[e].content # NoContent
        BY <1>1, <2>2 DEF ReceiptsAreTrue, OutboxInv, OutboxRowOK
      <3> QED
        BY <1>2, <2>1, <3>1
    <2>3. ASSUME NEW d \in Dispatchers, disp[d].event = e, disp[d].pc = "finish",
                 disp[d].receipt = "durable"
          PROVE  mailbox'[e].content = outbox'[e].content
      <3>1. mailbox[e].content = disp[d].content
        BY <1>1, <2>3 DEF ReceiptsAreTrue
      <3>2. disp[d].content = outbox[e].content /\ disp[d].content # NoContent
        BY <1>3, <2>3
      <3> QED
        BY <1>2, <2>1, <3>1, <3>2
    <2> QED
      BY <1>1, <1>5, <2>2, <2>3, NewSent, StepsOfParts
  <1> QED
    BY <1>4, <1>5 DEF ReceiptsAreTrue

(***************************************************************************)
(* The inductive invariant of the pipeline: the invariants of the two      *)
(* tables, and the link between them.                                      *)
(***************************************************************************)
THEOREM DeliveryInvariant == Spec => []DeliveryInv
  <1>1. Init => DeliveryInv
    <2> SUFFICES ASSUME Init PROVE DeliveryInv
      OBVIOUS
    <2>1. OutboxInv /\ MailboxInv
      BY OutboxInitInv, MailboxInitInv DEF Init
    <2>2. ReceiptsAreTrue
      <3>1. \A d \in Dispatchers : disp[d] = Idle
        BY DEF Init, OutboxInit
      <3>2. \A e \in Events : outbox[e] = NoOutboxRow
        BY DEF Init, OutboxInit
      <3>3. Idle.receipt = "none" /\ NoOutboxRow.state = "absent"
        BY DEF Idle, NoOutboxRow
      <3> QED
        BY <3>1, <3>2, <3>3 DEF ReceiptsAreTrue
    <2> QED
      BY <2>1, <2>2 DEF DeliveryInv
  <1>2. DeliveryInv /\ [Next]_vars => DeliveryInv'
    <2> SUFFICES ASSUME DeliveryInv, [Next]_vars PROVE DeliveryInv'
      OBVIOUS
    <2>1. OutboxInv'
      BY StepsOfParts, OutboxNextInv DEF DeliveryInv
    <2>2. MailboxInv'
      BY StepsOfParts, MailboxNextInv DEF DeliveryInv
    <2>3. ReceiptsAreTrue'
      BY ReceiptsStayTrue
    <2> QED
      BY <2>1, <2>2, <2>3 DEF DeliveryInv
  <1> QED
    BY <1>1, <1>2, PTL DEF Spec

(***************************************************************************)
(* Every variable of the pipeline keeps its type; in particular no row     *)
(* ever exceeds the attempt limit, which the tables' CHECK constraints     *)
(* would refuse.                                                           *)
(***************************************************************************)
THEOREM TypeCorrect == Spec => []TypeOK
  <1>1. DeliveryInv => TypeOK
    BY DEF DeliveryInv, OutboxInv, MailboxInv, TypeOK
  <1> QED
    BY <1>1, DeliveryInvariant, PTL

(***************************************************************************)
(* E04: an event reported as sent is in the mailbox with its own content.  *)
(***************************************************************************)
THEOREM SentIsDelivered == Spec => []SentIsInMailbox
  <1>1. DeliveryInv => SentIsInMailbox
    <2> SUFFICES ASSUME DeliveryInv, NEW e \in Events, outbox[e].state = "sent"
                 PROVE  mailbox[e].state # "absent" /\ mailbox[e].content = outbox[e].content
      BY DEF SentIsInMailbox
    <2>1. mailbox[e].content = outbox[e].content
      BY DEF DeliveryInv, ReceiptsAreTrue
    <2>2. OutboxRowOK(outbox[e]) /\ MailboxRowOK(mailbox[e])
      BY DEF DeliveryInv, OutboxInv, MailboxInv
    <2> QED
      BY <2>1, <2>2 DEF OutboxRowOK, MailboxRowOK
  <1> QED
    BY <1>1, DeliveryInvariant, PTL

(***************************************************************************)
(* E06: effects exactly once with the processed marker.                    *)
(***************************************************************************)
THEOREM EffectsOnce == Spec => []EffectsOnceIffProcessed
  <1>1. DeliveryInv => EffectsOnceIffProcessed
    BY MailboxInvImplies DEF DeliveryInv
  <1> QED
    BY <1>1, DeliveryInvariant, PTL

(***************************************************************************)
(* E02, E03, E06: the tables stay consistent, for any number of events,    *)
(* dispatchers and consumers.                                              *)
(***************************************************************************)
THEOREM TablesCorrect == Spec => []TablesConsistent
  <1>1. DeliveryInv => TablesConsistent
    BY OutboxInvImplies, MailboxInvImplies DEF DeliveryInv, TablesConsistent
  <1> QED
    BY <1>1, DeliveryInvariant, PTL

(***************************************************************************)
(* E03: only the holder of an unexpired lease, or its expiry, changes the  *)
(* leased row, and a verdict is final.                                     *)
(***************************************************************************)
THEOREM LeasesAreExclusive == Spec => LeaseIsExclusive
  <1>1. DeliveryInv /\ [Next]_vars =>
          [\A e \in Events :
             /\ \A d \in Dispatchers :
                  HoldsLease(d, e) /\ outbox'[e] # outbox[e] =>
                     \/ disp'[d] = Idle
                     \/ outbox'[e] = [outbox[e] EXCEPT !.leaseUntil = "past"]
             /\ outbox[e].state \in {"sent", "dead"} => outbox'[e] = outbox[e]
          ]_outboxVars
    BY StepsOfParts, LeaseStep DEF DeliveryInv
  <1> QED
    BY <1>1, DeliveryInvariant, PTL DEF Spec, LeaseIsExclusive

-----------------------------------------------------------------------------
\* What the transport holds for each event: the content in the mailbox.
Held == [e \in Events |-> {mailbox[e].content} \ {NoContent}]

\* Rows of one table change in a step, so each step is an abstract step of the
\* outbox's half or of the mailbox's half of the promise.
LEMMA PromiseStep ==
  ASSUME DeliveryInv, [Next]_vars
  PROVE  \/ Records /\ UNCHANGED <<Held, Fate>>
         \/ Sends /\ UNCHANGED <<Held, Fate>>
         \/ GivesUp /\ UNCHANGED <<Held, Fate>>
         \/ Takes /\ UNCHANGED <<Recorded, Verdict>>
         \/ Decides /\ UNCHANGED <<Recorded, Verdict, Held>>
         \/ UNCHANGED <<Recorded, Verdict, Held, Fate>>
  <1>1. CASE UNCHANGED mailbox
    <2>1. UNCHANGED <<Held, Fate>>
      BY <1>1 DEF Held, Fate
    <2> QED
      BY <2>1, StepsOfParts, OutboxPromise DEF DeliveryInv
  <1>2. CASE UNCHANGED outbox
    <2>1. UNCHANGED <<Recorded, Verdict>>
      BY <1>2 DEF Recorded, Verdict
    <2>2. Kept' = Kept => Held' = Held
      <3>1. Held = [e \in Events |-> {Kept[e]} \ {NoContent}]
        BY DEF Held, Kept
      <3>2. Held' = [e \in Events |-> {Kept'[e]} \ {NoContent}]
        BY DEF Held, Kept
      <3> QED
        BY <3>1, <3>2
    <2>3. Takes \/ Decides \/ (Kept' = Kept /\ Fate' = Fate)
      BY StepsOfParts, MailboxPromise DEF DeliveryInv
    <2> QED
      BY <2>1, <2>2, <2>3 DEF Decides
  <1> QED
    BY <1>1, <1>2, StepsOfParts

(***************************************************************************)
(* E02 to E06: the pipeline over PostgreSQL keeps the promise of           *)
(* EventDelivery, for any number of events, contents, dispatchers and      *)
(* consumers.  Its tables, leases, attempts and transactions only decide   *)
(* which of the promised steps happens next.                               *)
(***************************************************************************)
THEOREM PipelineKeepsPromise == Spec => ImplementsPromise
  <1>1. Init => Promise!Init
    <2> SUFFICES ASSUME Init PROVE Promise!Init
      OBVIOUS
    <2>1. \A e \in Events : outbox[e] = NoOutboxRow /\ mailbox[e] = NoMailboxRow
      BY DEF Init, OutboxInit, MailboxInit
    <2>2. /\ NoOutboxRow.content = NoContent /\ NoOutboxRow.state = "absent"
          /\ NoMailboxRow.content = NoContent /\ NoMailboxRow.state = "absent"
      BY DEF NoOutboxRow, NoMailboxRow
    <2> QED
      BY <2>1, <2>2 DEF Promise!Init
  <1>2. DeliveryInv /\ [Next]_vars => [Promise!Next]_(Promise!vars)
    <2> SUFFICES ASSUME DeliveryInv, [Next]_vars
                 PROVE  Promise!Next \/ UNCHANGED <<Recorded, Held, Verdict, Fate>>
      BY DEF Promise!vars, Recorded, Held, Verdict, Fate
    <2>1. CASE Records /\ UNCHANGED <<Held, Fate>>
      <3>1. PICK e \in Events, c \in Contents :
              /\ Recorded[e] = NoContent
              /\ Recorded' = [Recorded EXCEPT ![e] = c]
              /\ Verdict' = Verdict
        BY <2>1 DEF Records
      <3>2. Promise!Record(e, c)
        BY <2>1, <3>1 DEF Promise!Record, Recorded, Held, Verdict, Fate
      <3> QED
        BY <3>2 DEF Promise!Next
    <2>2. CASE Sends /\ UNCHANGED <<Held, Fate>>
      <3>1. PICK d \in Dispatchers :
              /\ disp[d].pc = "finish" /\ disp[d].receipt = "durable"
              /\ disp[d].event \in Events
              /\ Verdict[disp[d].event] = "open"
              /\ Verdict' = [Verdict EXCEPT ![disp[d].event] = "sent"]
              /\ Recorded' = Recorded
        BY <2>2 DEF Sends
      <3>2. PICK e \in Events : e = disp[d].event
        BY <3>1
      <3>3. /\ mailbox[e].content = outbox[e].content
            /\ outbox[e].content # NoContent
        BY <3>1, <3>2, CallUnderWay, ContentsAssumption
           DEF DeliveryInv, ReceiptsAreTrue, OutboxInv, DispatchOK
      <3>4. Recorded[e] \in Held[e]
        BY <3>3 DEF Recorded, Held
      <3>5. Promise!Send(e)
        BY <2>2, <3>1, <3>2, <3>4 DEF Promise!Send, Recorded, Held, Verdict, Fate
      <3> QED
        BY <3>5 DEF Promise!Next
    <2>3. CASE GivesUp /\ UNCHANGED <<Held, Fate>>
      <3>1. PICK S \in SUBSET Events :
              /\ \A e \in S : Verdict[e] = "open" /\ Recorded[e] \in Contents
              /\ Verdict' = [e \in Events |-> IF e \in S THEN "dead" ELSE Verdict[e]]
              /\ Recorded' = Recorded
        BY <2>3 DEF GivesUp
      <3>2. Promise!GiveUp(S)
        BY <2>3, <3>1 DEF Promise!GiveUp, Recorded, Held, Verdict, Fate
      <3> QED
        BY <3>2 DEF Promise!Next
    <2>4. CASE Takes /\ UNCHANGED <<Recorded, Verdict>>
      <3>1. PICK e \in Events, c \in Contents :
              /\ Kept[e] = NoContent
              /\ Kept' = [Kept EXCEPT ![e] = c]
              /\ Fate' = Fate
        BY <2>4 DEF Takes
      <3>2. Held' = [Held EXCEPT ![e] = @ \cup {c}]
        <4>1. Held = [f \in Events |-> {Kept[f]} \ {NoContent}]
          BY DEF Held, Kept
        <4>2. Held' = [f \in Events |-> {Kept'[f]} \ {NoContent}]
          BY DEF Held, Kept
        <4>3. Kept = [f \in Events |-> Kept[f]]
          BY DEF Kept
        <4>4. \A f \in Events : {Kept'[f]} \ {NoContent} =
                 IF f = e THEN {c} ELSE {Kept[f]} \ {NoContent}
          BY <3>1, <4>3, ContentsAssumption
        <4>5. Held[e] = {}
          BY <3>1, <4>1
        <4> QED
          BY <4>1, <4>2, <4>4, <4>5
      <3>3. Promise!Hold(e, c)
        BY <2>4, <3>1, <3>2 DEF Promise!Hold, Recorded, Held, Verdict, Fate
      <3> QED
        BY <3>3 DEF Promise!Next
    <2>5. CASE Decides /\ UNCHANGED <<Recorded, Verdict, Held>>
      <3>1. PICK e \in Events : \E x \in {"applied", "dead"} :
              /\ Fate[e] = "open" /\ Kept[e] # NoContent
              /\ Fate' = [Fate EXCEPT ![e] = x]
        BY <2>5 DEF Decides
      <3>2. Held[e] # {}
        BY <3>1 DEF Held, Kept
      <3>3. Promise!Apply(e) \/ Promise!Poison(e)
        BY <2>5, <3>1, <3>2 DEF Promise!Apply, Promise!Poison, Recorded, Held, Verdict, Fate
      <3> QED
        BY <3>3 DEF Promise!Next
    <2> QED
      BY <2>1, <2>2, <2>3, <2>4, <2>5, PromiseStep
  <1> QED
    BY <1>1, <1>2, DeliveryInvariant, PTL DEF Spec, ImplementsPromise, Promise!Spec
=============================================================================
