------------------------------- MODULE Outbox -------------------------------
(***************************************************************************)
(* The transactional outbox: the table n2f_outbox and the class Store of   *)
(* events/postgres/store.ts.  Producers enqueue an envelope in the         *)
(* transaction that changes their own state; dispatchers, each running     *)
(* Store.dispatch in its own process, claim one row under a lease, hand    *)
(* the envelope to a Publisher and then acknowledge or release the row.    *)
(*                                                                         *)
(* Every statement of a transaction locks the rows it changes until the    *)
(* commit and reads no row without locking it, so a committed transaction  *)
(* is one step.  A transaction that does not commit changes nothing.  The  *)
(* reply to a COMMIT can be lost (Database.transaction then answers        *)
(* "uncertain"), so for each transaction there is also a step that commits *)
(* although the process is told that it failed.                            *)
(*                                                                         *)
(* Timestamps are kept as their relation to clock_timestamp(): a row's     *)
(* available_at is "past" or "future", its lease_until "null", "past" or   *)
(* "future".  The steps LeaseExpires and RetryDelayEnds are the passage of *)
(* time.  The order in which claim() looks at the rows (available_at,      *)
(* event_id) is abstracted: any row that qualifies may be picked.          *)
(***************************************************************************)
EXTENDS Envelopes

CONSTANTS Dispatchers

VARIABLES
    outbox,    \* the table, one row per event ID
    domain,    \* what the producers' committed state changes announced
    disp,      \* the local state of each call of Store.dispatch
    tokens     \* number of lease tokens drawn from the ID generator

outboxVars == <<outbox, domain, disp, tokens>>

NoLease == 0

OutboxRow == [state : {"absent", "pending", "sent", "dead"},
              content : Contents \cup {NoContent},
              attempts : 0 .. MaxAttempts,
              availableAt : {"past", "future"},
              lease : Nat,
              leaseUntil : {"null", "past", "future"}]

Dispatch == [pc : {"idle", "publish", "finish"},
             event : Events \cup {NoEvent},
             content : Contents \cup {NoContent},
             token : Nat,
             receipt : {"none", "durable", "refused"}]

NoOutboxRow == [state |-> "absent", content |-> NoContent, attempts |-> 0,
                availableAt |-> "past", lease |-> NoLease,
                leaseUntil |-> "null"]

FreshOutboxRow(c) == [state |-> "pending", content |-> c, attempts |-> 0,
                      availableAt |-> "past", lease |-> NoLease,
                      leaseUntil |-> "null"]

Idle == [pc |-> "idle", event |-> NoEvent, content |-> NoContent,
         token |-> NoLease, receipt |-> "none"]

OutboxTypeOK ==
    /\ outbox \in [Events -> OutboxRow]
    /\ domain \in [Events -> SUBSET Contents]
    /\ disp \in [Dispatchers -> Dispatch]
    /\ tokens \in Nat

OutboxInit ==
    /\ outbox = [e \in Events |-> NoOutboxRow]
    /\ domain = [e \in Events |-> {}]
    /\ disp = [d \in Dispatchers |-> Idle]
    /\ tokens = 0

-----------------------------------------------------------------------------
(***************************************************************************)
(* A producer's transaction: its own state change and enqueue().  When     *)
(* enqueue() refuses (events.id_reused) the callback returns the failure   *)
(* and the whole transaction is rolled back, so the refused call is not a  *)
(* step.  A producer that was told "uncertain" may call again.             *)
(***************************************************************************)
Enqueue(e, c) ==
    /\ InsertAccepts(outbox[e], c)
    /\ outbox' = [outbox EXCEPT ![e] = InsertRow(@, FreshOutboxRow(c))]
    /\ domain' = [domain EXCEPT ![e] = @ \cup {c}]
    /\ UNCHANGED <<disp, tokens>>

\* Mutant: the lease is not looked at.
LeaseFree_Always(row) == TRUE

LeaseFree(row) == row.leaseUntil \in {"null", "past"}

(***************************************************************************)
(* The first statement of claim(): a pending row that has used its last    *)
(* attempt and whose lease is gone becomes dead.                           *)
(***************************************************************************)
\* Mutant: the statement is left out.
MarkDead_Never(row) == row

MarkDead(row) ==
    IF row.state = "pending" /\ row.attempts = MaxAttempts /\ LeaseFree(row)
    THEN [row EXCEPT !.state = "dead", !.lease = NoLease, !.leaseUntil = "null"]
    ELSE row

(***************************************************************************)
(* The second statement of claim(): the rows it may pick, and what it does *)
(* to the row it picks.                                                    *)
(***************************************************************************)
Claimable(row) ==
    /\ row.state = "pending"
    /\ row.attempts < MaxAttempts
    /\ row.availableAt = "past"
    /\ LeaseFree(row)

LeaseRow(row, token) ==
    [row EXCEPT !.lease = token, !.leaseUntil = "future",
                !.attempts = row.attempts + 1]

Swept == [e \in Events |-> MarkDead(outbox[e])]

\* dispatch() starts: claim() commits with a row and answers with the lease.
Claim(d, e) ==
    /\ disp[d].pc = "idle"
    /\ Claimable(outbox[e])
    /\ tokens' = tokens + 1
    /\ outbox' = [Swept EXCEPT ![e] = LeaseRow(@, tokens')]
    /\ disp' = [disp EXCEPT ![d] = [pc |-> "publish", event |-> e,
                                    content |-> outbox[e].content,
                                    token |-> tokens', receipt |-> "none"]]
    /\ UNCHANGED domain

\* The same commit, but the reply is lost: nobody holds the lease.
ClaimReplyLost(d, e) ==
    /\ disp[d].pc = "idle"
    /\ Claimable(outbox[e])
    /\ tokens' = tokens + 1
    /\ outbox' = [Swept EXCEPT ![e] = LeaseRow(@, tokens')]
    /\ UNCHANGED <<domain, disp>>

\* No row qualifies: claim() commits its first statement, dispatch() is done.
ClaimNothing(d) ==
    /\ disp[d].pc = "idle"
    /\ \A e \in Events : ~Claimable(outbox[e])
    /\ outbox' = Swept
    /\ UNCHANGED <<domain, disp, tokens>>

-----------------------------------------------------------------------------
(***************************************************************************)
(* publisher.publish() settles: with a receipt that is durable and names   *)
(* the event, or with anything else (a failure, an exception, a receipt    *)
(* that is not durable or names another event).  What the publisher did is *)
(* the business of the module that composes the outbox with one.           *)
(***************************************************************************)
PublishReturns(d, receipt) ==
    /\ disp[d].pc = "publish"
    /\ disp' = [disp EXCEPT ![d] = [@ EXCEPT !.pc = "finish",
                                             !.receipt = receipt]]
    /\ UNCHANGED <<outbox, domain, tokens>>

(***************************************************************************)
(* finish(): ack() after a durable receipt, release() after any other.     *)
(* The WHERE clause lets only the holder of an unexpired lease through; an *)
(* UPDATE of no row is the conflict events.lease_lost.                     *)
(***************************************************************************)
HoldsLease(d, e) ==
    /\ disp[d].event = e
    /\ outbox[e].state = "pending"
    /\ outbox[e].lease = disp[d].token
    /\ outbox[e].leaseUntil = "future"

\* Mutant: any receipt acknowledges.
FinishRow_AnyReceipt(row, receipt) ==
    [row EXCEPT !.state = "sent", !.lease = NoLease, !.leaseUntil = "null",
                !.availableAt = "future"]

FinishRow(row, receipt) ==
    [row EXCEPT !.state = IF receipt = "durable" THEN "sent"
                          ELSE IF row.attempts >= MaxAttempts THEN "dead"
                          ELSE "pending",
                !.lease = NoLease,
                !.leaseUntil = "null",
                !.availableAt = "future"]

\* The commit of finish(); the caller may be told that it is uncertain.
Finish(d) ==
    LET e == disp[d].event IN
    /\ disp[d].pc = "finish"
    /\ HoldsLease(d, e)
    /\ outbox' = [outbox EXCEPT ![e] = FinishRow(@, disp[d].receipt)]
    /\ disp' = [disp EXCEPT ![d] = Idle]
    /\ UNCHANGED <<domain, tokens>>

\* dispatch() ends without a change to the row: the lease was lost, or the
\* transaction of finish() was rolled back, cancelled or timed out.
FinishFails(d) ==
    /\ disp[d].pc = "finish"
    /\ disp' = [disp EXCEPT ![d] = Idle]
    /\ UNCHANGED <<outbox, domain, tokens>>

\* The process of a dispatcher dies; only the table survives.
DispatcherCrash(d) ==
    /\ disp[d].pc # "idle"
    /\ disp' = [disp EXCEPT ![d] = Idle]
    /\ UNCHANGED <<outbox, domain, tokens>>

-----------------------------------------------------------------------------
\* Thirty seconds after the claim.
LeaseExpires(e) ==
    /\ outbox[e].leaseUntil = "future"
    /\ outbox' = [outbox EXCEPT ![e].leaseUntil = "past"]
    /\ UNCHANGED <<domain, disp, tokens>>

\* One hundred milliseconds after the release.
RetryDelayEnds(e) ==
    /\ outbox[e].state = "pending"
    /\ outbox[e].availableAt = "future"
    /\ outbox' = [outbox EXCEPT ![e].availableAt = "past"]
    /\ UNCHANGED <<domain, disp, tokens>>

-----------------------------------------------------------------------------
(***************************************************************************)
(* Contract E02: "State and outbox insertion commit together."  Whatever a *)
(* committed producer transaction announced under an event ID is what the  *)
(* outbox holds for it, so no announcement is lost or rewritten by a later *)
(* enqueue with the same ID.                                               *)
(***************************************************************************)
StateAndOutboxAgree ==
    \A e \in Events : \A c \in domain[e] : outbox[e].content = c

(***************************************************************************)
(* At most one dispatcher holds the unexpired lease of an event, however   *)
(* many crashed, slow or restarted dispatchers still carry it.             *)
(***************************************************************************)
OneLeaseHolder ==
    \A e \in Events : \A d1, d2 \in Dispatchers :
        HoldsLease(d1, e) /\ HoldsLease(d2, e) => d1 = d2

(***************************************************************************)
(* The attempt limit (contract E03): a row is dead only after its last     *)
(* attempt, and a lease can only belong to a pending row.                  *)
(***************************************************************************)
DeadAfterLastAttempt ==
    \A e \in Events :
        /\ outbox[e].state = "dead" => outbox[e].attempts = MaxAttempts
        /\ outbox[e].lease # NoLease <=> outbox[e].leaseUntil # "null"
        /\ outbox[e].lease # NoLease => outbox[e].state = "pending"

(***************************************************************************)
(* Contract E03: "An expired lease can be reclaimed; old lease owners      *)
(* cannot acknowledge/release it."  While a dispatcher holds an unexpired  *)
(* lease, no step changes the row except the end of that dispatcher's own  *)
(* call and the expiry of the lease; and a row that reached a verdict      *)
(* keeps it.                                                               *)
(***************************************************************************)
LeaseIsExclusive ==
    [][\A e \in Events :
         /\ \A d \in Dispatchers :
              HoldsLease(d, e) /\ outbox'[e] # outbox[e] =>
                 \/ disp'[d] = Idle
                 \/ outbox'[e] = [outbox[e] EXCEPT !.leaseUntil = "past"]
         /\ outbox[e].state \in {"sent", "dead"} => outbox'[e] = outbox[e]
      ]_outboxVars
=============================================================================
