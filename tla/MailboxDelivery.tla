-------------------------- MODULE MailboxDelivery --------------------------
(***************************************************************************)
(* The event pipeline with the PostgreSQL transport (EVENTS_TRANSPORT =    *)
(* postgres in root/events.ts): the outbox's Publisher is the Mailbox.     *)
(* Dispatchers and consumers run in any number of processes that share the *)
(* database; other callers may publish to the mailbox directly.            *)
(***************************************************************************)
EXTENDS Outbox, Mailbox

vars == <<outbox, domain, disp, tokens, mailbox, effects, cons>>

Init == OutboxInit /\ MailboxInit

-----------------------------------------------------------------------------
\* Mailbox.publish commits and its durable receipt reaches the dispatcher.
PublishDurable(d) ==
    /\ PublishReturns(d, "durable")
    /\ MailboxInsert(disp[d].event, disp[d].content)

\* It commits, but the dispatcher is told that the commit is uncertain.
PublishReplyLost(d) ==
    /\ PublishReturns(d, "refused")
    /\ MailboxInsert(disp[d].event, disp[d].content)

\* It does not commit: the ID carries another content (events.id_reused), or
\* the transaction was cancelled, timed out (also on a row lock) or failed.
PublishFails(d) ==
    /\ PublishReturns(d, "refused")
    /\ UNCHANGED mailboxVars

\* A caller outside the outbox uses Mailbox.publish.
DirectPublish(e, c) ==
    /\ MailboxInsert(e, c)
    /\ UNCHANGED outboxVars

DispatcherStep(d) ==
    \/ \E e \in Events : (Claim(d, e) \/ ClaimReplyLost(d, e)) /\ UNCHANGED mailboxVars
    \/ ClaimNothing(d) /\ UNCHANGED mailboxVars
    \/ PublishDurable(d)
    \/ PublishReplyLost(d)
    \/ PublishFails(d)
    \/ Finish(d) /\ UNCHANGED mailboxVars
    \/ FinishFails(d) /\ UNCHANGED mailboxVars
    \/ DispatcherCrash(d) /\ UNCHANGED mailboxVars

ConsumerStep(k) ==
    /\ \/ \E e \in Events : Select(k, e)
       \/ CallbackWrites(k)
       \/ CallbackOk(k)
       \/ CallbackFails(k)
       \/ ConsumeCommits(k)
       \/ ConsumeAborts(k)
    /\ UNCHANGED outboxVars

TimePasses(e) ==
    \/ (LeaseExpires(e) \/ RetryDelayEnds(e)) /\ UNCHANGED mailboxVars
    \/ RedeliveryDelayEnds(e) /\ UNCHANGED outboxVars

Next ==
    \/ \E e \in Events, c \in Contents :
          \/ Enqueue(e, c) /\ UNCHANGED mailboxVars
          \/ DirectPublish(e, c)
    \/ \E d \in Dispatchers : DispatcherStep(d)
    \/ \E k \in Consumers : ConsumerStep(k)
    \/ \E e \in Events : TimePasses(e)

Spec == Init /\ [][Next]_vars

(***************************************************************************)
(* Fairness.  Time passes.  A dispatcher that is polling (contract E07:    *)
(* every database call and every publication is bounded) takes its next    *)
(* step.  A consumer polls too; its callback is not cut off by the         *)
(* deadline every time, and its commit does not fail every time, which the *)
(* code cannot guarantee but a working deployment does (an aborted         *)
(* transaction does not count as an attempt, contract E06).                *)
(***************************************************************************)
CallbackReturns(k) == (CallbackOk(k) \/ CallbackFails(k)) /\ UNCHANGED outboxVars

Fairness ==
    /\ \A e \in Events : WF_vars(TimePasses(e))
    /\ \A d \in Dispatchers : WF_vars(DispatcherStep(d))
    /\ \A k \in Consumers :
          /\ WF_vars(ConsumerStep(k))
          /\ SF_vars(CallbackReturns(k))
          /\ SF_vars(ConsumeCommits(k) /\ UNCHANGED outboxVars)

FairSpec == Spec /\ Fairness

-----------------------------------------------------------------------------
(***************************************************************************)
(* Type invariant of the pipeline.                                         *)
(***************************************************************************)
TypeOK == OutboxTypeOK /\ MailboxTypeOK

(***************************************************************************)
(* The two tables stay consistent under every interleaving of dispatchers, *)
(* consumers, crashes and lost replies: committed announcements stay       *)
(* recorded (E02), an unexpired lease has one holder, rows are given up    *)
(* exactly at the attempt limit (E03, E06), and an event has one open      *)
(* consumer transaction (E06).                                             *)
(***************************************************************************)
TablesConsistent ==
    /\ StateAndOutboxAgree
    /\ OneLeaseHolder
    /\ DeadAfterLastAttempt
    /\ PoisonAfterLastAttempt
    /\ OneConsumerPerEvent

(***************************************************************************)
(* Contract E04: "Success means transport accepted durable                 *)
(* responsibility."  The outbox says "sent" only about an event whose own  *)
(* content is in the mailbox, in spite of lost replies, expired leases and *)
(* conflicting direct publications.                                        *)
(***************************************************************************)
SentIsInMailbox ==
    \A e \in Events :
        outbox[e].state = "sent" =>
            /\ mailbox[e].state # "absent"
            /\ mailbox[e].content = outbox[e].content

(***************************************************************************)
(* The pipeline implements the promise of EventDelivery.                   *)
(***************************************************************************)
Promise == INSTANCE EventDelivery WITH
    recorded <- [e \in Events |-> outbox[e].content],
    held <- [e \in Events |-> {mailbox[e].content} \ {NoContent}],
    verdict <- [e \in Events |->
                  IF outbox[e].state \in {"sent", "dead"}
                  THEN outbox[e].state ELSE "open"],
    fate <- [e \in Events |->
               CASE mailbox[e].state = "processed" -> "applied"
                 [] mailbox[e].state = "dead" -> "dead"
                 [] OTHER -> "open"]

ImplementsPromise == Promise!Spec

(***************************************************************************)
(* Contract E03: every recorded event gets a verdict.  No crash, lost      *)
(* reply, lost lease or failing publisher leaves a row pending for ever.   *)
(***************************************************************************)
EventuallyVerdict ==
    \A e \in Events :
        outbox[e].state = "pending" ~> outbox[e].state \in {"sent", "dead"}

(***************************************************************************)
(* Contract E06: every event the outbox reports as sent is eventually      *)
(* processed, or retained as poison after its last attempt.                *)
(***************************************************************************)
EventuallySettled ==
    \A e \in Events :
        outbox[e].state = "sent" ~> mailbox[e].state \in {"processed", "dead"}

=============================================================================
