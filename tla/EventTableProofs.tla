------------------------- MODULE EventTableProofs -------------------------
(***************************************************************************)
(* The two event tables and the processes that work on them.  Every action *)
(* of the outbox preserves its inductive invariant, whatever transport it  *)
(* is composed with; every action of the mailbox preserves its own,        *)
(* whoever publishes into it; and both keep their part of the delivery     *)
(* promise.                                                                *)
(***************************************************************************)
EXTENDS Outbox, Mailbox, TLAPS

\* A row exists exactly when it has a content; the limits of the table.
OutboxRowOK(row) ==
    /\ row.state = "absent" <=> row.content = NoContent
    /\ row.state = "absent" => row.attempts = 0
    /\ row.state = "dead" => row.attempts = MaxAttempts
    /\ row.lease # NoLease <=> row.leaseUntil # "null"
    /\ row.lease # NoLease => row.state = "pending" /\ row.availableAt = "past"
    /\ row.lease <= tokens

\* A call of dispatch() that is under way works on a row that exists, carries
\* the row's content, and has a token that was drawn for it.
DispatchOK(d) ==
    /\ disp[d].pc = "idle" => disp[d] = Idle
    /\ disp[d].pc # "idle" =>
          /\ disp[d].event \in Events
          /\ outbox[disp[d].event].state # "absent"
          /\ disp[d].content = outbox[disp[d].event].content
          /\ disp[d].token \in 1 .. tokens
    /\ disp[d].receipt = "durable" => disp[d].pc = "finish"

\* No two calls under way carry the same token.
TokensDistinct ==
    \A d1, d2 \in Dispatchers :
        disp[d1].pc # "idle" /\ disp[d1].token = disp[d2].token => d1 = d2

OutboxInv ==
    /\ OutboxTypeOK
    /\ \A e \in Events : OutboxRowOK(outbox[e])
    /\ \A e \in Events : \A c \in domain[e] : outbox[e].content = c
    /\ \A d \in Dispatchers : DispatchOK(d)
    /\ TokensDistinct

\* The steps of the outbox that hand no durable receipt to a dispatcher.
OutboxQuiet ==
    \/ \E e \in Events, c \in Contents : Enqueue(e, c)
    \/ \E d \in Dispatchers, e \in Events : Claim(d, e)
    \/ \E d \in Dispatchers, e \in Events : ClaimReplyLost(d, e)
    \/ \E d \in Dispatchers : ClaimNothing(d)
    \/ \E d \in Dispatchers : PublishReturns(d, "refused")
    \/ \E d \in Dispatchers : Finish(d)
    \/ \E d \in Dispatchers : FinishFails(d)
    \/ \E d \in Dispatchers : DispatcherCrash(d)
    \/ \E e \in Events : LeaseExpires(e)
    \/ \E e \in Events : RetryDelayEnds(e)

OutboxNext == OutboxQuiet \/ \E d \in Dispatchers : PublishReturns(d, "durable")

-----------------------------------------------------------------------------
(***************************************************************************)
(* The empty outbox satisfies the invariant.                               *)
(***************************************************************************)
LEMMA OutboxInitInv == OutboxInit => OutboxInv
  <1> SUFFICES ASSUME OutboxInit PROVE OutboxInv
    OBVIOUS
  <1>1. OutboxTypeOK
    BY EventsAssumption, ContentsAssumption, MaxAttemptsAssumption
       DEF OutboxInit, OutboxTypeOK, OutboxRow, NoOutboxRow, Dispatch, Idle, NoLease
  <1>2. ASSUME NEW e \in Events PROVE OutboxRowOK(outbox[e])
    <2>1. outbox[e] = NoOutboxRow /\ tokens = 0
      BY DEF OutboxInit
    <2> QED
      BY <2>1 DEF OutboxRowOK, NoOutboxRow, NoLease
  <1>3. ASSUME NEW d \in Dispatchers PROVE DispatchOK(d)
    <2>1. disp[d] = Idle
      BY DEF OutboxInit
    <2> QED
      BY <2>1 DEF DispatchOK, Idle, NoLease
  <1>4. TokensDistinct
    BY DEF OutboxInit, TokensDistinct, Idle
  <1> QED
    BY <1>1, <1>2, <1>3, <1>4 DEF OutboxInv, OutboxInit

(***************************************************************************)
(* The first statement of claim() keeps a row well-formed, and keeps its   *)
(* content and existence.                                                  *)
(***************************************************************************)
LEMMA SweepRow ==
  ASSUME NEW row \in OutboxRow, tokens \in Nat, OutboxRowOK(row)
  PROVE  /\ MarkDead(row) \in OutboxRow
         /\ OutboxRowOK(MarkDead(row))
         /\ MarkDead(row).content = row.content
         /\ MarkDead(row).state = "absent" <=> row.state = "absent"
  <1>1. CASE row.state = "pending" /\ row.attempts = MaxAttempts /\ LeaseFree(row)
    <2> DEFINE r == [row EXCEPT !.state = "dead", !.lease = NoLease,
                                !.leaseUntil = "null"]
    <2>1. MarkDead(row) = r
      BY <1>1 DEF MarkDead
    <2>2. /\ r \in OutboxRow
          /\ r.state = "dead" /\ r.content = row.content
          /\ r.attempts = MaxAttempts /\ r.lease = 0 /\ r.leaseUntil = "null"
      BY <1>1 DEF OutboxRow, NoLease
    <2> QED
      BY <1>1, <2>1, <2>2, MaxAttemptsAssumption DEF OutboxRowOK, NoLease
  <1>2. CASE ~(row.state = "pending" /\ row.attempts = MaxAttempts /\ LeaseFree(row))
    BY <1>2 DEF MarkDead
  <1> QED
    BY <1>1, <1>2

(***************************************************************************)
(* The second statement of claim(): the picked row was not swept, and its  *)
(* lease uses one more attempt within the limit.                           *)
(***************************************************************************)
LEMMA LeasedRow ==
  ASSUME NEW row \in OutboxRow, Claimable(row), NEW t \in Nat
  PROVE  /\ MarkDead(row) = row
         /\ LeaseRow(row, t) \in OutboxRow
         /\ LeaseRow(row, t).content = row.content
         /\ LeaseRow(row, t).state = "pending"
         /\ LeaseRow(row, t).lease = t
         /\ LeaseRow(row, t).leaseUntil = "future"
         /\ LeaseRow(row, t).attempts = row.attempts + 1
         /\ LeaseRow(row, t).availableAt = "past"
  <1>1. row.attempts \in 0 .. MaxAttempts
    BY DEF OutboxRow
  <1>2. row.attempts + 1 \in 0 .. MaxAttempts
    BY <1>1, MaxAttemptsAssumption DEF Claimable
  <1>3. LeaseRow(row, t) \in OutboxRow
    BY <1>2 DEF LeaseRow, OutboxRow
  <1>4. MarkDead(row) = row
    BY <1>1, MaxAttemptsAssumption DEF MarkDead, Claimable
  <1> QED
    BY <1>3, <1>4 DEF LeaseRow, OutboxRow, Claimable

(***************************************************************************)
(* The UPDATE of finish(): a leased row ends well-formed, without a lease, *)
(* dead only at the attempt limit.                                         *)
(***************************************************************************)
LEMMA FinishedRow ==
  ASSUME NEW row \in OutboxRow, NEW receipt, row.state = "pending"
  PROVE  /\ FinishRow(row, receipt) \in OutboxRow
         /\ FinishRow(row, receipt).content = row.content
         /\ FinishRow(row, receipt).state \in {"sent", "dead", "pending"}
         /\ FinishRow(row, receipt).state = "sent" <=> receipt = "durable"
         /\ FinishRow(row, receipt).state = "dead" => row.attempts = MaxAttempts
         /\ FinishRow(row, receipt).attempts = row.attempts
         /\ FinishRow(row, receipt).lease = 0
         /\ FinishRow(row, receipt).leaseUntil = "null"
  <1>1. row.attempts \in 0 .. MaxAttempts
    BY DEF OutboxRow
  <1>2. row.attempts >= MaxAttempts => row.attempts = MaxAttempts
    BY <1>1, MaxAttemptsAssumption
  <1>3. PICK st \in {"sent", "dead", "pending"} :
          /\ FinishRow(row, receipt) =
               [row EXCEPT !.state = st, !.lease = 0, !.leaseUntil = "null",
                           !.availableAt = "future"]
          /\ st = "sent" <=> receipt = "durable"
          /\ st = "dead" => row.attempts = MaxAttempts
    <2>1. CASE receipt = "durable"
      BY <2>1 DEF FinishRow, NoLease
    <2>2. CASE receipt # "durable" /\ row.attempts >= MaxAttempts
      BY <1>2, <2>2 DEF FinishRow, NoLease
    <2>3. CASE receipt # "durable" /\ ~(row.attempts >= MaxAttempts)
      BY <2>3 DEF FinishRow, NoLease
    <2> QED
      BY <2>1, <2>2, <2>3
  <1>4. FinishRow(row, receipt) \in OutboxRow
    <2>1. [row EXCEPT !.state = st, !.lease = 0, !.leaseUntil = "null",
                      !.availableAt = "future"] \in OutboxRow
      BY DEF OutboxRow
    <2> QED
      BY <1>3, <2>1
  <1>5. /\ FinishRow(row, receipt).content = row.content
        /\ FinishRow(row, receipt).state = st
        /\ FinishRow(row, receipt).attempts = row.attempts
        /\ FinishRow(row, receipt).lease = 0
        /\ FinishRow(row, receipt).leaseUntil = "null"
    BY <1>3 DEF OutboxRow
  <1> QED
    BY <1>3, <1>4, <1>5

(***************************************************************************)
(* The dispatchers under way keep their part of the invariant when         *)
(* existing rows keep their content and every call either goes on with the *)
(* event, content and token it has, or ends.                               *)
(***************************************************************************)
LEMMA DispatchersGoOn ==
  ASSUME OutboxInv, OutboxTypeOK', tokens' >= tokens,
         \A e \in Events : outbox[e].state # "absent" =>
            /\ outbox'[e].state # "absent"
            /\ outbox'[e].content = outbox[e].content,
         \A d \in Dispatchers :
            \/ disp'[d] = Idle
            \/ disp'[d] = disp[d]
            \/ /\ disp[d].pc # "idle" /\ disp'[d].pc = "finish"
               /\ disp'[d].event = disp[d].event
               /\ disp'[d].content = disp[d].content
               /\ disp'[d].token = disp[d].token
  PROVE  (\A d \in Dispatchers : DispatchOK(d))' /\ TokensDistinct'
  <1>1. ASSUME NEW d \in Dispatchers PROVE DispatchOK(d)'
    <2>1. /\ DispatchOK(d)
          /\ tokens \in Nat /\ tokens' \in Nat
          /\ disp[d].token \in Nat
      BY DEF OutboxInv, OutboxTypeOK, Dispatch
    <2>2. CASE disp'[d] = Idle
      BY <2>2 DEF DispatchOK, Idle, NoLease
    <2>3. CASE disp'[d] = disp[d] /\ disp[d].pc = "idle"
      BY <2>1, <2>3 DEF DispatchOK, Idle, NoLease
    <2>4. CASE /\ disp[d].pc # "idle" /\ disp'[d].pc # "idle"
               /\ disp'[d].event = disp[d].event
               /\ disp'[d].content = disp[d].content
               /\ disp'[d].token = disp[d].token
               /\ disp'[d].receipt = "durable" => disp'[d].pc = "finish"
      <3>1. disp[d].event \in Events /\ disp[d].token \in 1 .. tokens'
        BY <2>1, <2>4 DEF DispatchOK
      <3>2. /\ outbox'[disp[d].event].state # "absent"
            /\ outbox'[disp[d].event].content = disp[d].content
        BY <2>1, <2>4, <3>1 DEF DispatchOK
      <3> QED
        BY <2>4, <3>1, <3>2 DEF DispatchOK
    <2> QED
      BY <2>1, <2>2, <2>3, <2>4 DEF DispatchOK
  <1>2. TokensDistinct'
    <2> SUFFICES ASSUME NEW d1 \in Dispatchers, NEW d2 \in Dispatchers,
                        disp'[d1].pc # "idle", disp'[d1].token = disp'[d2].token
                 PROVE  d1 = d2
      BY DEF TokensDistinct
    <2>0. disp'[d1] # Idle
      BY DEF Idle
    <2>1. disp[d1].pc # "idle" /\ disp'[d1].token = disp[d1].token
      BY <2>0
    <2>2. disp[d1].token \in 1 .. tokens /\ tokens \in Nat
      BY <2>1 DEF OutboxInv, DispatchOK, OutboxTypeOK
    <2>3. disp'[d2] # Idle
      <3>1. Idle.token = 0
        BY DEF Idle, NoLease
      <3>2. disp[d1].token # 0
        BY <2>2
      <3> QED
        BY <2>1, <3>1, <3>2
    <2>4. disp'[d2].token = disp[d2].token
      BY <2>3
    <2> QED
      BY <2>1, <2>4 DEF OutboxInv, TokensDistinct
  <1> QED
    BY <1>1, <1>2

(***************************************************************************)
(* A step that changes one row, or none, and draws no token: it preserves  *)
(* the invariant when the new row is well-formed with the content it had,  *)
(* and the dispatchers go on as above.                                     *)
(***************************************************************************)
LEMMA OneRowStep ==
  ASSUME OutboxInv, NEW e \in Events, NEW row \in OutboxRow,
         OutboxRowOK(row), outbox[e].state # "absent", row.state # "absent",
         row.content = outbox[e].content,
         outbox' = [outbox EXCEPT ![e] = row],
         disp' \in [Dispatchers -> Dispatch],
         \A d \in Dispatchers :
            \/ disp'[d] = Idle
            \/ disp'[d] = disp[d],
         UNCHANGED <<domain, tokens>>
  PROVE  OutboxInv'
  <1>1. OutboxTypeOK'
    BY DEF OutboxInv, OutboxTypeOK
  <1>2. \A f \in Events : outbox'[f] = IF f = e THEN row ELSE outbox[f]
    BY DEF OutboxInv, OutboxTypeOK
  <1>3. ASSUME NEW f \in Events PROVE OutboxRowOK(outbox[f])'
    <2>1. OutboxRowOK(outbox[f]) /\ OutboxRowOK(row)
      BY DEF OutboxInv
    <2>2. CASE f = e
      <3>1. outbox'[f] = row
        BY <1>2, <2>2
      <3> QED
        BY <2>1, <3>1 DEF OutboxRowOK
    <2>3. CASE f # e
      <3>1. outbox'[f] = outbox[f]
        BY <1>2, <2>3
      <3> QED
        BY <2>1, <3>1 DEF OutboxRowOK
    <2> QED
      BY <2>2, <2>3
  <1>4. \A f \in Events : \A c \in domain'[f] : outbox'[f].content = c
    BY <1>2 DEF OutboxInv
  <1>5. \A f \in Events : outbox[f].state # "absent" =>
           outbox'[f].state # "absent" /\ outbox'[f].content = outbox[f].content
    BY <1>2
  <1>6. tokens' >= tokens
    BY DEF OutboxInv, OutboxTypeOK
  <1>7. (\A d \in Dispatchers : DispatchOK(d))' /\ TokensDistinct'
    BY <1>1, <1>5, <1>6, DispatchersGoOn
  <1> QED
    BY <1>1, <1>3, <1>4, <1>7 DEF OutboxInv

(***************************************************************************)
(* The committed claim(), with or without a reply: the rows stay           *)
(* well-formed under the token that was drawn, existing rows keep their    *)
(* content, and nothing but the picked row gets the new token.             *)
(***************************************************************************)
LEMMA ClaimedRows ==
  ASSUME OutboxInv, NEW e \in Events, Claimable(outbox[e]),
         tokens' = tokens + 1,
         outbox' = [Swept EXCEPT ![e] = LeaseRow(@, tokens')]
  PROVE  /\ outbox' \in [Events -> OutboxRow]
         /\ tokens' \in Nat /\ tokens' >= tokens
         /\ (\A f \in Events : OutboxRowOK(outbox[f]))'
         /\ \A f \in Events :
              /\ outbox'[f].content = outbox[f].content
              /\ outbox[f].state # "absent" => outbox'[f].state # "absent"
         /\ outbox[e].state # "absent" /\ outbox[e].content \in Contents
  <1>1. tokens \in Nat /\ outbox \in [Events -> OutboxRow]
    BY DEF OutboxInv, OutboxTypeOK
  <1>2. tokens' \in Nat /\ tokens' >= tokens /\ tokens + 1 \in Nat
    BY <1>1
  <1>3. \A f \in Events : /\ outbox[f] \in OutboxRow /\ OutboxRowOK(outbox[f])
                          /\ MarkDead(outbox[f]) \in OutboxRow
                          /\ OutboxRowOK(MarkDead(outbox[f]))
                          /\ MarkDead(outbox[f]).content = outbox[f].content
                          /\ MarkDead(outbox[f]).state = "absent" <=> outbox[f].state = "absent"
    BY <1>1, SweepRow DEF OutboxInv
  <1>4. /\ LeaseRow(outbox[e], tokens + 1) \in OutboxRow
        /\ LeaseRow(outbox[e], tokens + 1).content = outbox[e].content
        /\ LeaseRow(outbox[e], tokens + 1).state = "pending"
        /\ LeaseRow(outbox[e], tokens + 1).lease = tokens + 1
        /\ LeaseRow(outbox[e], tokens + 1).leaseUntil = "future"
        /\ LeaseRow(outbox[e], tokens + 1).availableAt = "past"
        /\ MarkDead(outbox[e]) = outbox[e]
    BY <1>2, <1>3, LeasedRow
  <1>5. \A f \in Events :
          outbox'[f] = IF f = e THEN LeaseRow(outbox[e], tokens + 1)
                       ELSE MarkDead(outbox[f])
    BY <1>4 DEF Swept
  <1>6. outbox' \in [Events -> OutboxRow]
    BY <1>3, <1>4, <1>5 DEF Swept
  <1>7. outbox[e].state = "pending" /\ outbox[e].content # NoContent
    BY <1>3 DEF Claimable, OutboxRowOK
  <1>8. outbox[e].content \in Contents
    BY <1>3, <1>7 DEF OutboxRow
  <1>9. ASSUME NEW f \in Events PROVE OutboxRowOK(outbox[f])'
    <2>1. CASE f = e
      <3>1. outbox'[f] = LeaseRow(outbox[e], tokens + 1)
        BY <1>5, <2>1
      <3>2. outbox'[f].lease = tokens' /\ tokens' # 0
        BY <1>1, <1>4, <3>1
      <3>3. /\ outbox'[f].state = "pending"
            /\ outbox'[f].content # NoContent
            /\ outbox'[f].leaseUntil = "future" /\ outbox'[f].availableAt = "past"
        BY <1>4, <1>7, <3>1
      <3> QED
        BY <1>2, <3>2, <3>3 DEF OutboxRowOK, NoLease
    <2>2. CASE f # e
      <3>1. outbox'[f] = MarkDead(outbox[f])
        BY <1>5, <2>2
      <3>2. /\ OutboxRowOK(MarkDead(outbox[f]))
            /\ MarkDead(outbox[f]).lease \in Nat
        BY <1>3 DEF OutboxRow
      <3>3. MarkDead(outbox[f]).lease <= tokens'
        BY <1>1, <3>2 DEF OutboxRowOK
      <3> QED
        BY <3>1, <3>2, <3>3 DEF OutboxRowOK
    <2> QED
      BY <2>1, <2>2
  <1>10. ASSUME NEW f \in Events
         PROVE  /\ outbox'[f].content = outbox[f].content
                /\ outbox[f].state # "absent" => outbox'[f].state # "absent"
    BY <1>3, <1>4, <1>5
  <1> QED
    BY <1>2, <1>6, <1>7, <1>8, <1>9, <1>10

\* claim() with its reply keeps the invariant; the new token is a fresh one.
LEMMA ClaimInv ==
  ASSUME OutboxInv, NEW d \in Dispatchers, NEW e \in Events, Claim(d, e)
  PROVE  OutboxInv'
  <1>1. /\ outbox' \in [Events -> OutboxRow]
        /\ tokens' \in Nat /\ tokens' >= tokens
        /\ (\A f \in Events : OutboxRowOK(outbox[f]))'
        /\ \A f \in Events :
             /\ outbox'[f].content = outbox[f].content
             /\ outbox[f].state # "absent" => outbox'[f].state # "absent"
        /\ outbox[e].state # "absent" /\ outbox[e].content \in Contents
    BY ClaimedRows DEF Claim
  <1> DEFINE new == [pc |-> "publish", event |-> e, content |-> outbox[e].content,
                     token |-> tokens', receipt |-> "none"]
  <1>2. /\ new \in Dispatch
        /\ new.pc = "publish" /\ new.event = e /\ new.content = outbox[e].content
        /\ new.token = tokens' /\ new.receipt = "none"
    BY <1>1 DEF Dispatch
  <1>3. disp' = [disp EXCEPT ![d] = new]
    BY DEF Claim
  <1> HIDE DEF new
  <1>4. disp' \in [Dispatchers -> Dispatch]
    BY <1>2, <1>3 DEF OutboxInv, OutboxTypeOK
  <1>5. \A x \in Dispatchers : disp'[x] = IF x = d THEN new ELSE disp[x]
    BY <1>3 DEF OutboxInv, OutboxTypeOK
  <1>6. OutboxTypeOK'
    BY <1>1, <1>4 DEF OutboxInv, OutboxTypeOK, Claim
  <1>7. tokens \in Nat /\ tokens' = tokens + 1
    BY DEF OutboxInv, OutboxTypeOK, Claim
  <1>8. ASSUME NEW x \in Dispatchers PROVE DispatchOK(x)'
    <2>1. CASE x = d
      <3>1. disp'[x] = new
        BY <1>5, <2>1
      <3>2. tokens' \in 1 .. tokens'
        BY <1>7
      <3> QED
        BY <1>1, <1>2, <3>1, <3>2 DEF DispatchOK
    <2>2. CASE x # d
      <3>1. disp'[x] = disp[x] /\ DispatchOK(x)
        BY <1>5, <2>2 DEF OutboxInv
      <3>2. CASE disp[x].pc = "idle"
        BY <3>1, <3>2 DEF DispatchOK
      <3>3. CASE disp[x].pc # "idle"
        <4>1. /\ disp[x].event \in Events
              /\ disp[x].token \in 1 .. tokens'
          BY <1>7, <3>1, <3>3 DEF DispatchOK
        <4>2. /\ outbox'[disp[x].event].state # "absent"
              /\ disp[x].content = outbox'[disp[x].event].content
          BY <1>1, <3>1, <3>3, <4>1 DEF DispatchOK
        <4> QED
          BY <3>1, <3>3, <4>1, <4>2 DEF DispatchOK
      <3> QED
        BY <3>2, <3>3
    <2> QED
      BY <2>1, <2>2
  <1>9. TokensDistinct'
    <2> SUFFICES ASSUME NEW x \in Dispatchers, NEW y \in Dispatchers,
                        disp'[x].pc # "idle", disp'[x].token = disp'[y].token,
                        x # y
                 PROVE  FALSE
      BY DEF TokensDistinct
    <2>1. \A z \in Dispatchers : z # d => disp'[z].token \in 0 .. tokens
      <3> SUFFICES ASSUME NEW z \in Dispatchers, z # d
                   PROVE  disp'[z].token \in 0 .. tokens
        OBVIOUS
      <3>1. disp'[z] = disp[z] /\ DispatchOK(z)
        BY <1>5 DEF OutboxInv
      <3>2. CASE disp[z].pc = "idle"
        <4>1. disp[z].token = 0
          BY <3>1, <3>2 DEF DispatchOK, Idle, NoLease
        <4> QED
          BY <1>7, <3>1, <4>1
      <3>3. CASE disp[z].pc # "idle"
        BY <1>7, <3>1, <3>3 DEF DispatchOK
      <3> QED
        BY <3>2, <3>3
    <2>2. disp'[d].token = tokens + 1
      BY <1>2, <1>5, <1>7
    <2>3. x # d /\ y # d
      BY <1>7, <2>1, <2>2
    <2>4. disp'[x] = disp[x] /\ disp'[y] = disp[y]
      BY <1>5, <2>3
    <2> QED
      BY <2>4 DEF OutboxInv, TokensDistinct
  <1>10. (\A f \in Events : \A c \in domain[f] : outbox[f].content = c)'
    BY <1>1 DEF OutboxInv, Claim
  <1> QED
    BY <1>1, <1>6, <1>8, <1>9, <1>10 DEF OutboxInv

\* claim() whose reply is lost keeps the invariant.
LEMMA ClaimReplyLostInv ==
  ASSUME OutboxInv, NEW d \in Dispatchers, NEW e \in Events, ClaimReplyLost(d, e)
  PROVE  OutboxInv'
  <1>1. /\ outbox' \in [Events -> OutboxRow]
        /\ tokens' \in Nat /\ tokens' >= tokens
        /\ (\A f \in Events : OutboxRowOK(outbox[f]))'
        /\ \A f \in Events :
             /\ outbox'[f].content = outbox[f].content
             /\ outbox[f].state # "absent" => outbox'[f].state # "absent"
    BY ClaimedRows DEF ClaimReplyLost
  <1>2. OutboxTypeOK'
    BY <1>1 DEF OutboxInv, OutboxTypeOK, ClaimReplyLost
  <1>3. (\A x \in Dispatchers : DispatchOK(x))' /\ TokensDistinct'
    BY <1>1, <1>2, DispatchersGoOn DEF ClaimReplyLost
  <1>4. (\A f \in Events : \A c \in domain[f] : outbox[f].content = c)'
    BY <1>1 DEF OutboxInv, ClaimReplyLost
  <1> QED
    BY <1>1, <1>2, <1>3, <1>4 DEF OutboxInv

\* claim() that finds no row keeps the invariant.
LEMMA ClaimNothingInv ==
  ASSUME OutboxInv, NEW d \in Dispatchers, ClaimNothing(d)
  PROVE  OutboxInv'
  <1>1. \A f \in Events : /\ outbox[f] \in OutboxRow /\ OutboxRowOK(outbox[f])
                          /\ MarkDead(outbox[f]) \in OutboxRow
                          /\ OutboxRowOK(MarkDead(outbox[f]))
                          /\ MarkDead(outbox[f]).content = outbox[f].content
                          /\ MarkDead(outbox[f]).state = "absent" <=> outbox[f].state = "absent"
    BY SweepRow DEF OutboxInv, OutboxTypeOK
  <1>2. \A f \in Events : outbox'[f] = MarkDead(outbox[f])
    BY DEF ClaimNothing, Swept
  <1>3. outbox' \in [Events -> OutboxRow]
    BY <1>1 DEF ClaimNothing, Swept
  <1>4. OutboxTypeOK' /\ tokens' = tokens /\ tokens' >= tokens
    BY <1>3 DEF OutboxInv, OutboxTypeOK, ClaimNothing
  <1>5. ASSUME NEW f \in Events PROVE OutboxRowOK(outbox[f])'
    BY <1>1, <1>2, <1>4 DEF OutboxRowOK
  <1>6. (\A x \in Dispatchers : DispatchOK(x))' /\ TokensDistinct'
    BY <1>1, <1>2, <1>4, DispatchersGoOn DEF ClaimNothing
  <1>7. (\A f \in Events : \A c \in domain[f] : outbox[f].content = c)'
    BY <1>1, <1>2 DEF OutboxInv, ClaimNothing
  <1> QED
    BY <1>4, <1>5, <1>6, <1>7 DEF OutboxInv

\* The publisher's answer keeps the invariant.
LEMMA PublishReturnsInv ==
  ASSUME OutboxInv, NEW d \in Dispatchers, NEW r \in {"durable", "refused"},
         PublishReturns(d, r)
  PROVE  OutboxInv'
  <1> DEFINE new == [disp[d] EXCEPT !.pc = "finish", !.receipt = r]
  <1>1. /\ new \in Dispatch
        /\ new.pc = "finish" /\ new.receipt = r
        /\ new.event = disp[d].event /\ new.content = disp[d].content
        /\ new.token = disp[d].token
    BY DEF OutboxInv, OutboxTypeOK, Dispatch
  <1>2. disp' = [disp EXCEPT ![d] = new] /\ disp[d].pc # "idle"
    BY DEF PublishReturns
  <1> HIDE DEF new
  <1>3. OutboxTypeOK' /\ tokens' >= tokens
    BY <1>1, <1>2 DEF OutboxInv, OutboxTypeOK, PublishReturns
  <1>4. \A x \in Dispatchers : disp'[x] = IF x = d THEN new ELSE disp[x]
    BY <1>2 DEF OutboxInv, OutboxTypeOK
  <1>5. (\A x \in Dispatchers : DispatchOK(x))' /\ TokensDistinct'
    BY <1>1, <1>2, <1>3, <1>4, DispatchersGoOn DEF PublishReturns
  <1>6. ASSUME NEW f \in Events PROVE OutboxRowOK(outbox[f])'
    BY DEF OutboxInv, OutboxRowOK, PublishReturns
  <1> QED
    BY <1>3, <1>5, <1>6 DEF OutboxInv, PublishReturns

\* A dispatcher ends its call and the table is left alone.
LEMMA DispatchEndsInv ==
  ASSUME OutboxInv, NEW d \in Dispatchers, FinishFails(d) \/ DispatcherCrash(d)
  PROVE  OutboxInv'
  <1>1. disp' = [disp EXCEPT ![d] = Idle] /\ UNCHANGED <<outbox, domain, tokens>>
    BY DEF FinishFails, DispatcherCrash
  <1>2. Idle \in Dispatch
    BY DEF Idle, Dispatch, NoLease
  <1>3. OutboxTypeOK' /\ tokens' >= tokens
    BY <1>1, <1>2 DEF OutboxInv, OutboxTypeOK
  <1>4. \A x \in Dispatchers : disp'[x] = IF x = d THEN Idle ELSE disp[x]
    BY <1>1 DEF OutboxInv, OutboxTypeOK
  <1>5. (\A x \in Dispatchers : DispatchOK(x))' /\ TokensDistinct'
    BY <1>1, <1>3, <1>4, DispatchersGoOn
  <1>6. ASSUME NEW f \in Events PROVE OutboxRowOK(outbox[f])'
    BY <1>1 DEF OutboxInv, OutboxRowOK
  <1> QED
    BY <1>1, <1>3, <1>5, <1>6 DEF OutboxInv

\* ack() and release() by the lease holder keep the invariant.
LEMMA FinishInv ==
  ASSUME OutboxInv, NEW d \in Dispatchers, Finish(d)
  PROVE  OutboxInv'
  <1> DEFINE e == disp[d].event
             row == FinishRow(outbox[e], disp[d].receipt)
  <1>1. e \in Events /\ outbox[e].state = "pending"
    BY DEF OutboxInv, DispatchOK, Finish, HoldsLease
  <1>2. outbox[e] \in OutboxRow /\ OutboxRowOK(outbox[e])
    BY <1>1 DEF OutboxInv, OutboxTypeOK
  <1>3. /\ row \in OutboxRow
        /\ row.content = outbox[e].content
        /\ row.state \in {"sent", "dead", "pending"}
        /\ row.state = "dead" => outbox[e].attempts = MaxAttempts
        /\ row.attempts = outbox[e].attempts
        /\ row.lease = 0 /\ row.leaseUntil = "null"
    BY <1>1, <1>2, FinishedRow
  <1>4. outbox' = [outbox EXCEPT ![e] = row]
    BY DEF Finish
  <1>5. disp' = [disp EXCEPT ![d] = Idle] /\ UNCHANGED <<domain, tokens>>
    BY DEF Finish
  <1> HIDE DEF row, e
  <1>6. OutboxRowOK(row)
    BY <1>1, <1>2, <1>3, 0 <= tokens DEF OutboxRowOK, NoLease, OutboxInv, OutboxTypeOK
  <1>7. Idle \in Dispatch
    BY DEF Idle, Dispatch, NoLease
  <1>8. disp' \in [Dispatchers -> Dispatch]
    BY <1>5, <1>7 DEF OutboxInv, OutboxTypeOK
  <1>9. \A x \in Dispatchers : disp'[x] = Idle \/ disp'[x] = disp[x]
    BY <1>5 DEF OutboxInv, OutboxTypeOK
  <1> QED
    BY <1>1, <1>3, <1>4, <1>5, <1>6, <1>8, <1>9, OneRowStep

\* The passage of time keeps the invariant.
LEMMA TimeInv ==
  ASSUME OutboxInv, NEW e \in Events, LeaseExpires(e) \/ RetryDelayEnds(e)
  PROVE  OutboxInv'
  <1>1. outbox[e] \in OutboxRow /\ OutboxRowOK(outbox[e])
    BY DEF OutboxInv, OutboxTypeOK
  <1>2. disp' = disp /\ UNCHANGED <<domain, tokens>>
    BY DEF LeaseExpires, RetryDelayEnds
  <1>3. disp' \in [Dispatchers -> Dispatch] /\ \A x \in Dispatchers : disp'[x] = disp[x]
    BY <1>2 DEF OutboxInv, OutboxTypeOK
  <1>4. CASE LeaseExpires(e)
    <2> DEFINE row == [outbox[e] EXCEPT !.leaseUntil = "past"]
    <2>1. /\ row \in OutboxRow
          /\ row.state = outbox[e].state /\ row.content = outbox[e].content
          /\ row.attempts = outbox[e].attempts /\ row.lease = outbox[e].lease
          /\ row.leaseUntil = "past" /\ row.availableAt = outbox[e].availableAt
      BY <1>1 DEF OutboxRow
    <2>2. outbox' = [outbox EXCEPT ![e] = row] /\ outbox[e].leaseUntil = "future"
      BY <1>4 DEF LeaseExpires
    <2> HIDE DEF row
    <2>3. OutboxRowOK(row) /\ outbox[e].state # "absent" /\ row.state # "absent"
      BY <1>1, <2>1, <2>2 DEF OutboxRowOK, NoLease
    <2> QED
      BY <1>2, <1>3, <2>1, <2>2, <2>3, OneRowStep
  <1>5. CASE RetryDelayEnds(e)
    <2> DEFINE row == [outbox[e] EXCEPT !.availableAt = "past"]
    <2>1. /\ row \in OutboxRow
          /\ row.state = outbox[e].state /\ row.content = outbox[e].content
          /\ row.attempts = outbox[e].attempts /\ row.lease = outbox[e].lease
          /\ row.leaseUntil = outbox[e].leaseUntil /\ row.availableAt = "past"
      BY <1>1 DEF OutboxRow
    <2>2. outbox' = [outbox EXCEPT ![e] = row] /\ outbox[e].state = "pending"
      BY <1>5 DEF RetryDelayEnds
    <2> HIDE DEF row
    <2>3. OutboxRowOK(row) /\ outbox[e].state # "absent" /\ row.state # "absent"
      BY <1>1, <2>1, <2>2 DEF OutboxRowOK, NoLease
    <2> QED
      BY <1>2, <1>3, <2>1, <2>2, <2>3, OneRowStep
  <1> QED
    BY <1>4, <1>5

\* A producer's transaction keeps the invariant: it inserts a new row, or
\* repeats the content that the row already has.
LEMMA EnqueueInv ==
  ASSUME OutboxInv, NEW e \in Events, NEW c \in Contents, Enqueue(e, c)
  PROVE  OutboxInv'
  <1> DEFINE row == InsertRow(outbox[e], FreshOutboxRow(c))
  <1>1. /\ outbox \in [Events -> OutboxRow] /\ domain \in [Events -> SUBSET Contents]
        /\ disp \in [Dispatchers -> Dispatch] /\ tokens \in Nat
        /\ OutboxRowOK(outbox[e])
    BY DEF OutboxInv, OutboxTypeOK
  <1>2. /\ FreshOutboxRow(c) \in OutboxRow
        /\ FreshOutboxRow(c).state = "pending" /\ FreshOutboxRow(c).content = c
        /\ FreshOutboxRow(c).attempts = 0 /\ FreshOutboxRow(c).lease = 0
        /\ FreshOutboxRow(c).leaseUntil = "null"
    <2>1. 0 \in 0 .. MaxAttempts
      BY MaxAttemptsAssumption
    <2> QED
      BY <2>1 DEF OutboxRow, FreshOutboxRow, NoLease
  <1>3. OutboxRowOK(FreshOutboxRow(c))
    BY <1>1, <1>2, ContentsAssumption DEF OutboxRowOK, NoLease
  <1>4. row \in OutboxRow /\ OutboxRowOK(row) /\ row.content = c /\ row.state # "absent"
    <2>1. CASE outbox[e].state = "absent"
      <3>1. row = FreshOutboxRow(c)
        BY <2>1 DEF InsertRow
      <3> QED
        BY <1>2, <1>3, <3>1
    <2>2. CASE outbox[e].state # "absent"
      <3>1. row = outbox[e] /\ outbox[e].content = c
        BY <2>2 DEF InsertRow, InsertAccepts, Enqueue
      <3> QED
        BY <1>1, <2>2, <3>1
    <2> QED
      BY <2>1, <2>2
  <1>5. outbox[e].state # "absent" => row = outbox[e]
    BY DEF InsertRow
  <1>6. /\ outbox' = [outbox EXCEPT ![e] = row]
        /\ domain' = [domain EXCEPT ![e] = @ \cup {c}]
        /\ disp' = disp /\ tokens' = tokens
    BY DEF Enqueue
  <1> HIDE DEF row
  <1>7. \A f \in Events : outbox'[f] = IF f = e THEN row ELSE outbox[f]
    BY <1>1, <1>6
  <1>8. \A f \in Events : domain'[f] = IF f = e THEN domain[e] \cup {c} ELSE domain[f]
    BY <1>1, <1>6
  <1>9. OutboxTypeOK' /\ tokens' >= tokens
    BY <1>1, <1>4, <1>6 DEF OutboxTypeOK
  <1>10. ASSUME NEW f \in Events PROVE OutboxRowOK(outbox[f])'
    <2>1. outbox'[f] = row \/ outbox'[f] = outbox[f]
      BY <1>7
    <2>2. OutboxRowOK(outbox'[f])
      BY <1>4, <2>1 DEF OutboxInv
    <2> QED
      BY <1>6, <2>2 DEF OutboxRowOK
  <1>11. \A f \in Events : \A x \in domain'[f] : outbox'[f].content = x
    <2> SUFFICES ASSUME NEW f \in Events, NEW x \in domain'[f]
                 PROVE  outbox'[f].content = x
      OBVIOUS
    <2>1. CASE f # e
      BY <1>7, <1>8, <2>1 DEF OutboxInv
    <2>2. CASE f = e /\ x = c
      BY <1>4, <1>7, <2>2
    <2>3. CASE f = e /\ x \in domain[e]
      <3>1. outbox[e].content = x /\ x \in Contents
        BY <1>1, <2>3 DEF OutboxInv
      <3>2. outbox[e].state # "absent"
        BY <1>1, <3>1, ContentsAssumption DEF OutboxRowOK
      <3> QED
        BY <1>5, <1>7, <2>3, <3>1, <3>2
    <2> QED
      BY <1>8, <2>1, <2>2, <2>3
  <1>12. \A f \in Events : outbox[f].state # "absent" =>
            outbox'[f].state # "absent" /\ outbox'[f].content = outbox[f].content
    BY <1>4, <1>5, <1>7
  <1>13. (\A x \in Dispatchers : DispatchOK(x))' /\ TokensDistinct'
    BY <1>6, <1>9, <1>12, DispatchersGoOn
  <1> QED
    BY <1>9, <1>10, <1>11, <1>13 DEF OutboxInv

\* A step of the rest of the system keeps the invariant.
LEMMA OutboxUnchangedInv ==
  ASSUME OutboxInv, UNCHANGED outboxVars
  PROVE  OutboxInv'
  BY DEF OutboxInv, outboxVars, OutboxTypeOK, OutboxRowOK, DispatchOK, TokensDistinct

(***************************************************************************)
(* Every action of the outbox preserves its invariant.                     *)
(***************************************************************************)
LEMMA OutboxNextInv == OutboxInv /\ (OutboxNext \/ UNCHANGED outboxVars) => OutboxInv'
  BY EnqueueInv, ClaimInv, ClaimReplyLostInv, ClaimNothingInv, PublishReturnsInv,
     FinishInv, DispatchEndsInv, TimeInv, OutboxUnchangedInv DEF OutboxNext, OutboxQuiet

(***************************************************************************)
(* The invariant implies what is said about the outbox alone: committed    *)
(* announcements stay recorded, an unexpired lease has one holder, and a   *)
(* row is dead only at the attempt limit.                                  *)
(***************************************************************************)
LEMMA OutboxInvImplies ==
  OutboxInv => StateAndOutboxAgree /\ OneLeaseHolder /\ DeadAfterLastAttempt
  <1> SUFFICES ASSUME OutboxInv
               PROVE  StateAndOutboxAgree /\ OneLeaseHolder /\ DeadAfterLastAttempt
    OBVIOUS
  <1>1. OneLeaseHolder
    <2> SUFFICES ASSUME NEW e \in Events, NEW d1 \in Dispatchers,
                        NEW d2 \in Dispatchers, HoldsLease(d1, e), HoldsLease(d2, e)
                 PROVE  d1 = d2
      BY DEF OneLeaseHolder
    <2>1. disp[d1].token = disp[d2].token
      BY DEF HoldsLease
    <2>2. disp[d1] # Idle
      BY EventsAssumption DEF HoldsLease, Idle
    <2>3. disp[d1].pc # "idle"
      BY <2>2 DEF OutboxInv, DispatchOK
    <2> QED
      BY <2>1, <2>3 DEF OutboxInv, TokensDistinct
  <1>2. DeadAfterLastAttempt
    <2> SUFFICES ASSUME NEW e \in Events
                 PROVE  /\ outbox[e].state = "dead" => outbox[e].attempts = MaxAttempts
                        /\ outbox[e].lease # NoLease <=> outbox[e].leaseUntil # "null"
                        /\ outbox[e].lease # NoLease => outbox[e].state = "pending"
      BY DEF DeadAfterLastAttempt
    <2>1. OutboxRowOK(outbox[e])
      BY DEF OutboxInv
    <2> QED
      BY <2>1 DEF OutboxRowOK
  <1> QED
    BY <1>1, <1>2 DEF OutboxInv, StateAndOutboxAgree

-----------------------------------------------------------------------------
(***************************************************************************)
(* What one step can do to a row of the outbox.                            *)
(***************************************************************************)
RowMove(e) ==
    \/ outbox'[e] = outbox[e]
    \/ \E c \in Contents :
          /\ outbox[e].state = "absent"
          /\ outbox'[e] = FreshOutboxRow(c)
          /\ Enqueue(e, c)
    \/ /\ outbox[e].state = "pending" /\ LeaseFree(outbox[e])
       /\ outbox'[e].state \in {"pending", "dead"}
       /\ outbox'[e].content = outbox[e].content
    \/ \E d \in Dispatchers :
          /\ Finish(d) /\ disp[d].event = e
          /\ outbox'[e].content = outbox[e].content
          /\ outbox'[e].state \in {"sent", "dead", "pending"}
          /\ outbox'[e].state = "sent" <=> disp[d].receipt = "durable"
    \/ /\ outbox[e].leaseUntil = "future"
       /\ outbox'[e] = [outbox[e] EXCEPT !.leaseUntil = "past"]
    \/ /\ outbox[e].state = "pending" /\ outbox[e].availableAt = "future"
       /\ outbox'[e] = [outbox[e] EXCEPT !.availableAt = "past"]

\* The sweep of claim() leaves a row alone or gives it up.
LEMMA SweptRow ==
  ASSUME NEW row \in OutboxRow
  PROVE  \/ MarkDead(row) = row
         \/ /\ row.state = "pending" /\ LeaseFree(row)
            /\ MarkDead(row).state = "dead" /\ MarkDead(row).content = row.content
  <1> DEFINE r == [row EXCEPT !.state = "dead", !.lease = NoLease, !.leaseUntil = "null"]
  <1>1. r.state = "dead" /\ r.content = row.content
    BY DEF OutboxRow
  <1> HIDE DEF r
  <1>2. MarkDead(row) = IF row.state = "pending" /\ row.attempts = MaxAttempts /\ LeaseFree(row)
                        THEN r ELSE row
    BY DEF MarkDead, r
  <1> QED
    BY <1>1, <1>2

(***************************************************************************)
(* Every step of the outbox moves each row in one of these ways.           *)
(***************************************************************************)
LEMMA RowMoves ==
  ASSUME OutboxInv, OutboxNext \/ UNCHANGED outboxVars, NEW e \in Events
  PROVE  RowMove(e)
  <1>1. /\ outbox \in [Events -> OutboxRow] /\ outbox[e] \in OutboxRow /\ tokens \in Nat
    BY DEF OutboxInv, OutboxTypeOK
  <1>2. ASSUME NEW f \in Events, NEW c \in Contents, Enqueue(f, c)
        PROVE  RowMove(e)
    <2>1. outbox' = [outbox EXCEPT ![f] = InsertRow(outbox[f], FreshOutboxRow(c))]
      BY <1>2 DEF Enqueue
    <2>2. CASE e = f /\ outbox[e].state = "absent"
      <3>1. outbox'[e] = FreshOutboxRow(c)
        BY <1>1, <2>1, <2>2 DEF InsertRow
      <3> QED
        BY <1>2, <2>2, <3>1 DEF RowMove
    <2>3. CASE ~(e = f /\ outbox[e].state = "absent")
      <3>1. outbox'[e] = outbox[e]
        BY <1>1, <2>1, <2>3 DEF InsertRow
      <3> QED
        BY <3>1 DEF RowMove
    <2> QED
      BY <2>2, <2>3
  <1>3. ASSUME NEW d \in Dispatchers, NEW f \in Events, Claim(d, f) \/ ClaimReplyLost(d, f)
        PROVE  RowMove(e)
    <2>1. /\ Claimable(outbox[f]) /\ tokens' = tokens + 1
          /\ outbox' = [Swept EXCEPT ![f] = LeaseRow(@, tokens')]
      BY <1>3 DEF Claim, ClaimReplyLost
    <2>2. outbox[f] \in OutboxRow /\ tokens' \in Nat
      BY <1>1, <2>1
    <2>3. /\ MarkDead(outbox[f]) = outbox[f]
          /\ LeaseRow(outbox[f], tokens').state = "pending"
          /\ LeaseRow(outbox[f], tokens').content = outbox[f].content
      BY <2>1, <2>2, LeasedRow
    <2>4. outbox'[e] = IF e = f THEN LeaseRow(outbox[f], tokens') ELSE MarkDead(outbox[e])
      BY <2>1, <2>3 DEF Swept
    <2>5. CASE e = f
      BY <2>1, <2>3, <2>4, <2>5 DEF RowMove, Claimable
    <2>6. CASE e # f
      BY <1>1, <2>4, <2>6, SweptRow DEF RowMove
    <2> QED
      BY <2>5, <2>6
  <1>4. ASSUME NEW d \in Dispatchers, ClaimNothing(d)
        PROVE  RowMove(e)
    <2>1. outbox'[e] = MarkDead(outbox[e])
      BY <1>4 DEF ClaimNothing, Swept
    <2> QED
      BY <1>1, <2>1, SweptRow DEF RowMove
  <1>5. ASSUME NEW d \in Dispatchers, Finish(d)
        PROVE  RowMove(e)
    <2>1. CASE disp[d].event # e
      BY <1>1, <1>5, <2>1 DEF Finish, RowMove
    <2>2. CASE disp[d].event = e
      <3>1. outbox[e].state = "pending"
        BY <1>5, <2>2 DEF Finish, HoldsLease
      <3>2. outbox' = [outbox EXCEPT ![e] = FinishRow(outbox[e], disp[d].receipt)]
        BY <1>5, <2>2 DEF Finish
      <3>3. outbox'[e] = FinishRow(outbox[e], disp[d].receipt)
        BY <1>1, <3>2
      <3>4. /\ outbox'[e].content = outbox[e].content
            /\ outbox'[e].state \in {"sent", "dead", "pending"}
            /\ outbox'[e].state = "sent" <=> disp[d].receipt = "durable"
        BY <1>1, <3>1, <3>3, FinishedRow
      <3> QED
        BY <1>5, <2>2, <3>4 DEF RowMove
    <2> QED
      BY <2>1, <2>2
  <1>6. ASSUME NEW f \in Events, LeaseExpires(f) \/ RetryDelayEnds(f)
        PROVE  RowMove(e)
    <2>1. CASE f # e
      BY <1>1, <1>6, <2>1 DEF LeaseExpires, RetryDelayEnds, RowMove
    <2>2. CASE f = e
      BY <1>1, <1>6, <2>2 DEF LeaseExpires, RetryDelayEnds, RowMove
    <2> QED
      BY <2>1, <2>2
  <1>7. CASE UNCHANGED outbox
    BY <1>7 DEF RowMove
  <1> QED
    BY <1>2, <1>3, <1>4, <1>5, <1>6, <1>7 DEF OutboxNext, OutboxQuiet, outboxVars,
       PublishReturns, FinishFails, DispatcherCrash

(***************************************************************************)
(* E03: while a dispatcher holds the unexpired lease of a row, only the    *)
(* end of its own call or the expiry of the lease changes the row; a row   *)
(* with a verdict is never changed.                                        *)
(***************************************************************************)
LEMMA LeaseStep ==
  ASSUME OutboxInv, OutboxNext \/ UNCHANGED outboxVars, NEW e \in Events
  PROVE  /\ \A d \in Dispatchers :
              HoldsLease(d, e) /\ outbox'[e] # outbox[e] =>
                 \/ disp'[d] = Idle
                 \/ outbox'[e] = [outbox[e] EXCEPT !.leaseUntil = "past"]
         /\ outbox[e].state \in {"sent", "dead"} => outbox'[e] = outbox[e]
  <1>1. OutboxRowOK(outbox[e]) /\ RowMove(e) /\ disp \in [Dispatchers -> Dispatch]
    BY RowMoves DEF OutboxInv, OutboxTypeOK
  <1>2. ASSUME NEW x \in Dispatchers, Finish(x), disp[x].event = e
        PROVE  HoldsLease(x, e) /\ disp'[x] = Idle
    BY <1>1, <1>2 DEF Finish
  <1>3. ASSUME NEW d \in Dispatchers, HoldsLease(d, e), outbox'[e] # outbox[e]
        PROVE  disp'[d] = Idle \/ outbox'[e] = [outbox[e] EXCEPT !.leaseUntil = "past"]
    <2>1. /\ outbox[e].state = "pending" /\ outbox[e].leaseUntil = "future"
          /\ ~LeaseFree(outbox[e]) /\ outbox[e].availableAt # "future"
      BY <1>1, <1>3 DEF HoldsLease, LeaseFree, OutboxRowOK
    <2>2. \A x \in Dispatchers : HoldsLease(x, e) => x = d
      BY <1>3, OutboxInvImplies DEF OneLeaseHolder
    <2>3. ~\E x \in Dispatchers : Finish(x) /\ disp[x].event = e /\ x # d
      BY <1>2, <2>2
    <2>4. outbox[e].state # "absent"
      BY <2>1
    <2> QED
      BY <1>1, <1>2, <1>3, <2>1, <2>3, <2>4, Zenon DEF RowMove
  <1>4. ASSUME outbox[e].state \in {"sent", "dead"}
        PROVE  outbox'[e] = outbox[e]
    <2>1. outbox[e].leaseUntil # "future"
      BY <1>1, <1>4 DEF OutboxRowOK
    <2>2. \A x \in Dispatchers : ~HoldsLease(x, e)
      BY <1>4 DEF HoldsLease
    <2>3. ~\E x \in Dispatchers : Finish(x) /\ disp[x].event = e
      BY <1>2, <2>2
    <2>4. outbox[e].state # "absent" /\ outbox[e].state # "pending"
      BY <1>4
    <2> QED
      BY <1>1, <2>1, <2>3, <2>4, Zenon DEF RowMove
  <1> QED
    BY <1>3, <1>4

-----------------------------------------------------------------------------
(***************************************************************************)
(* What the promise of EventDelivery sees of the outbox: the contents that *)
(* were recorded and the verdicts on them.                                 *)
(***************************************************************************)
Recorded == [e \in Events |-> outbox[e].content]

Verdict == [e \in Events |->
              IF outbox[e].state \in {"sent", "dead"} THEN outbox[e].state ELSE "open"]

\* Seen from there, a step records a new event, ...
Records ==
    \E e \in Events, c \in Contents :
        /\ Recorded[e] = NoContent
        /\ Recorded' = [Recorded EXCEPT ![e] = c]
        /\ Verdict' = Verdict

\* ... says "sent" after a durable receipt, ...
Sends ==
    \E d \in Dispatchers :
        /\ disp[d].pc = "finish" /\ disp[d].receipt = "durable"
        /\ disp[d].event \in Events
        /\ Verdict[disp[d].event] = "open"
        /\ Verdict' = [Verdict EXCEPT ![disp[d].event] = "sent"]
        /\ Recorded' = Recorded

\* ... or gives up a set of recorded events, usually none.
GivesUp ==
    \E S \in SUBSET Events :
        /\ \A e \in S : Verdict[e] = "open" /\ Recorded[e] \in Contents
        /\ Verdict' = [e \in Events |-> IF e \in S THEN "dead" ELSE Verdict[e]]
        /\ Recorded' = Recorded

\* A step that keeps the contents and adds no "sent" gives up a set of events.
LEMMA GivingUp ==
  ASSUME OutboxInv,
         \A e \in Events :
            /\ outbox'[e].content = outbox[e].content
            /\ outbox[e].state \in {"sent", "dead"} => outbox'[e].state = outbox[e].state
            /\ outbox'[e].state = "sent" => outbox[e].state = "sent"
            /\ outbox'[e].state = "dead" => outbox[e].state # "absent"
  PROVE  GivesUp
  <1> DEFINE S == {e \in Events : outbox'[e].state = "dead" /\ outbox[e].state # "dead"}
  <1>1. ASSUME NEW e \in S
        PROVE  Verdict[e] = "open" /\ Recorded[e] \in Contents
    <2>1. /\ e \in Events /\ outbox[e] \in OutboxRow /\ OutboxRowOK(outbox[e])
          /\ outbox[e].state \notin {"sent", "dead"} /\ outbox[e].state # "absent"
      BY DEF OutboxInv, OutboxTypeOK
    <2>2. outbox[e].content \in Contents
      BY <2>1 DEF OutboxRow, OutboxRowOK
    <2> QED
      BY <2>1, <2>2 DEF Verdict, Recorded
  <1>2. Verdict' = [e \in Events |-> IF e \in S THEN "dead" ELSE Verdict[e]]
    <2>1. ASSUME NEW e \in Events
          PROVE  (IF outbox'[e].state \in {"sent", "dead"} THEN outbox'[e].state ELSE "open")
                  = IF e \in S THEN "dead" ELSE Verdict[e]
      BY DEF Verdict
    <2>2. Verdict' = [e \in Events |-> IF outbox'[e].state \in {"sent", "dead"}
                                       THEN outbox'[e].state ELSE "open"]
      BY DEF Verdict
    <2> HIDE DEF S
    <2> QED
      BY <2>1, <2>2
  <1>3. Recorded' = Recorded
    BY DEF Recorded
  <1>4. S \in SUBSET Events
    OBVIOUS
  <1> HIDE DEF S
  <1> QED
    BY <1>1, <1>2, <1>3, <1>4 DEF GivesUp

(***************************************************************************)
(* Every step of the outbox is one of the three.                           *)
(***************************************************************************)
LEMMA OutboxPromise ==
  ASSUME OutboxInv, OutboxNext \/ UNCHANGED outboxVars
  PROVE  Records \/ Sends \/ GivesUp
  <1>1. /\ outbox \in [Events -> OutboxRow]
        /\ \A e \in Events : outbox[e] \in OutboxRow /\ OutboxRowOK(outbox[e])
    BY DEF OutboxInv, OutboxTypeOK
  <1>2. ASSUME NEW e \in Events, NEW c \in Contents, Enqueue(e, c),
               outbox[e].state = "absent"
        PROVE  Records
    <2>1. outbox' = [outbox EXCEPT ![e] = FreshOutboxRow(c)]
      BY <1>2 DEF Enqueue, InsertRow
    <2>2. FreshOutboxRow(c).content = c /\ FreshOutboxRow(c).state = "pending"
      BY DEF FreshOutboxRow
    <2>3. /\ outbox'[e].content = c /\ outbox'[e].state = "pending"
          /\ \A f \in Events : f # e => outbox'[f] = outbox[f]
      BY <1>1, <2>1, <2>2
    <2>4. Recorded[e] = NoContent
      BY <1>1, <1>2 DEF Recorded, OutboxRowOK
    <2>5. Recorded' = [Recorded EXCEPT ![e] = c]
      BY <2>3 DEF Recorded
    <2>6. Verdict' = Verdict
      <3>1. \A f \in Events :
              (IF outbox'[f].state \in {"sent", "dead"} THEN outbox'[f].state ELSE "open")
              = IF outbox[f].state \in {"sent", "dead"} THEN outbox[f].state ELSE "open"
        BY <1>2, <2>3
      <3> QED
        BY <3>1 DEF Verdict
    <2> QED
      BY <2>4, <2>5, <2>6 DEF Records
  <1>3. ASSUME NEW d \in Dispatchers, Finish(d), disp[d].receipt = "durable"
        PROVE  Sends
    <2> DEFINE e == disp[d].event
    <2>1. e \in Events /\ disp[d].pc = "finish" /\ outbox[e].state = "pending"
      BY <1>3 DEF Finish, HoldsLease, OutboxInv, DispatchOK
    <2>2. outbox' = [outbox EXCEPT ![e] = FinishRow(outbox[e], "durable")]
      BY <1>3 DEF Finish
    <2>3. /\ FinishRow(outbox[e], "durable").state = "sent"
          /\ FinishRow(outbox[e], "durable").content = outbox[e].content
      BY <1>1, <2>1, FinishedRow
    <2> HIDE DEF e
    <2>4. /\ outbox'[e].content = outbox[e].content /\ outbox'[e].state = "sent"
          /\ \A f \in Events : f # e => outbox'[f] = outbox[f]
      BY <1>1, <2>1, <2>2, <2>3
    <2>5. Recorded' = Recorded
      <3>1. \A f \in Events : outbox'[f].content = outbox[f].content
        BY <2>4
      <3> QED
        BY <3>1 DEF Recorded
    <2>6. Verdict[e] = "open"
      BY <2>1 DEF Verdict
    <2>7. Verdict' = [Verdict EXCEPT ![e] = "sent"]
      <3>1. \A f \in Events :
              (IF outbox'[f].state \in {"sent", "dead"} THEN outbox'[f].state ELSE "open")
              = IF f = e THEN "sent"
                ELSE IF outbox[f].state \in {"sent", "dead"} THEN outbox[f].state ELSE "open"
        BY <2>4
      <3> QED
        BY <3>1 DEF Verdict
    <2> QED
      BY <1>3, <2>1, <2>5, <2>6, <2>7 DEF Sends, e
  <1>4. ASSUME ~\E e \in Events, c \in Contents :
                   Enqueue(e, c) /\ outbox[e].state = "absent",
               ~\E d \in Dispatchers : Finish(d) /\ disp[d].receipt = "durable"
        PROVE  GivesUp
    <2>1. ASSUME NEW e \in Events
          PROVE  /\ outbox'[e].content = outbox[e].content
                 /\ outbox[e].state \in {"sent", "dead"} => outbox'[e].state = outbox[e].state
                 /\ outbox'[e].state = "sent" => outbox[e].state = "sent"
                 /\ outbox'[e].state = "dead" => outbox[e].state # "absent"
      <3>1. RowMove(e) /\ outbox[e] \in OutboxRow
        BY <1>1, RowMoves
      <3>2. outbox[e].state \in {"sent", "dead"} => outbox'[e] = outbox[e]
        BY LeaseStep
      <3>3. CASE outbox'[e] = outbox[e]
        BY <3>3
      <3>4. CASE /\ outbox[e].state = "pending" /\ LeaseFree(outbox[e])
                 /\ outbox'[e].state \in {"pending", "dead"}
                 /\ outbox'[e].content = outbox[e].content
        BY <3>4
      <3>5. ASSUME NEW d \in Dispatchers, Finish(d), disp[d].event = e,
                   outbox'[e].content = outbox[e].content,
                   outbox'[e].state = "sent" <=> disp[d].receipt = "durable"
            PROVE  /\ outbox'[e].state # "sent"
                   /\ outbox[e].state = "pending"
        BY <1>4, <3>5 DEF Finish, HoldsLease
      <3>6. CASE \/ outbox'[e] = [outbox[e] EXCEPT !.leaseUntil = "past"]
                 \/ outbox'[e] = [outbox[e] EXCEPT !.availableAt = "past"]
        <4>1. /\ [outbox[e] EXCEPT !.leaseUntil = "past"].state = outbox[e].state
              /\ [outbox[e] EXCEPT !.availableAt = "past"].state = outbox[e].state
              /\ [outbox[e] EXCEPT !.leaseUntil = "past"].content = outbox[e].content
              /\ [outbox[e] EXCEPT !.availableAt = "past"].content = outbox[e].content
          BY <3>1 DEF OutboxRow
        <4> QED
          BY <3>6, <4>1
      <3> QED
        BY <1>4, <3>1, <3>2, <3>3, <3>4, <3>5, <3>6 DEF RowMove
    <2> QED
      BY <2>1, GivingUp
  <1> QED
    BY <1>2, <1>3, <1>4

-----------------------------------------------------------------------------
\* A call under way has an event of the outbox and its content.
LEMMA CallUnderWay ==
  ASSUME OutboxInv, NEW d \in Dispatchers, disp[d].pc # "idle"
  PROVE  disp[d].event \in Events /\ disp[d].content \in Contents
  <1>1. /\ disp[d].event \in Events
        /\ outbox[disp[d].event] \in OutboxRow
        /\ OutboxRowOK(outbox[disp[d].event])
        /\ outbox[disp[d].event].state # "absent"
        /\ disp[d].content = outbox[disp[d].event].content
    BY DEF OutboxInv, OutboxTypeOK, DispatchOK
  <1> QED
    BY <1>1 DEF OutboxRow, OutboxRowOK

\* The publisher's answer leaves the other calls alone, and changes nothing
\* of its own call but the receipt.
LEMMA ReceiptStep ==
  ASSUME OutboxInv, NEW x \in Dispatchers, NEW r, PublishReturns(x, r),
         NEW d \in Dispatchers
  PROVE  /\ x # d => disp'[d] = disp[d]
         /\ x = d => /\ disp'[d].receipt = r
                     /\ disp'[d].event = disp[d].event
                     /\ disp'[d].content = disp[d].content
  <1>1. disp \in [Dispatchers -> Dispatch] /\ disp[d] \in Dispatch
    BY DEF OutboxInv, OutboxTypeOK
  <1> DEFINE new == [disp[x] EXCEPT !.pc = "finish", !.receipt = r]
  <1>2. disp' = [disp EXCEPT ![x] = new]
    BY DEF PublishReturns
  <1>3. x = d => /\ new.receipt = r
                 /\ new.event = disp[d].event /\ new.content = disp[d].content
    BY <1>1 DEF Dispatch
  <1> HIDE DEF new
  <1> QED
    BY <1>1, <1>2, <1>3

\* Any other step hands out no durable receipt.
LEMMA OldReceipt ==
  ASSUME OutboxInv, OutboxQuiet \/ UNCHANGED outboxVars, NEW d \in Dispatchers,
         disp'[d].receipt = "durable"
  PROVE  disp'[d] = disp[d]
  <1>1. disp \in [Dispatchers -> Dispatch]
    BY DEF OutboxInv, OutboxTypeOK
  <1>2. Idle.receipt = "none"
    BY DEF Idle
  <1>3. ASSUME NEW x \in Dispatchers, NEW e \in Events, Claim(x, e)
        PROVE  disp'[d] = disp[d]
    <2> DEFINE new == [pc |-> "publish", event |-> e, content |-> outbox[e].content,
                       token |-> tokens', receipt |-> "none"]
    <2>1. new.receipt = "none"
      OBVIOUS
    <2>2. disp' = [disp EXCEPT ![x] = new]
      BY <1>3 DEF Claim
    <2> HIDE DEF new
    <2> QED
      BY <1>1, <2>1, <2>2
  <1>4. ASSUME NEW x \in Dispatchers, PublishReturns(x, "refused")
        PROVE  disp'[d] = disp[d]
    BY <1>4, ReceiptStep
  <1>5. ASSUME NEW x \in Dispatchers, Finish(x) \/ FinishFails(x) \/ DispatcherCrash(x)
        PROVE  disp'[d] = disp[d]
    <2>1. disp' = [disp EXCEPT ![x] = Idle]
      BY <1>5 DEF Finish, FinishFails, DispatcherCrash
    <2> QED
      BY <1>1, <1>2, <2>1
  <1>6. CASE disp' = disp
    BY <1>6
  <1> QED
    BY <1>3, <1>4, <1>5, <1>6 DEF OutboxQuiet, outboxVars, Enqueue, ClaimReplyLost,
       ClaimNothing, LeaseExpires, RetryDelayEnds

\* An event becomes "sent" only through a dispatcher with a durable receipt,
\* and keeps its content.
LEMMA NewSent ==
  ASSUME OutboxInv, OutboxNext \/ UNCHANGED outboxVars, NEW e \in Events,
         outbox'[e].state = "sent"
  PROVE  /\ outbox'[e].content = outbox[e].content
         /\ \/ outbox[e].state = "sent"
            \/ \E d \in Dispatchers : /\ disp[d].event = e
                                      /\ disp[d].pc = "finish"
                                      /\ disp[d].receipt = "durable"
  <1>1. outbox[e] \in OutboxRow /\ RowMove(e)
    BY RowMoves DEF OutboxInv, OutboxTypeOK
  <1>2. \A c \in Contents : FreshOutboxRow(c).state = "pending"
    BY DEF FreshOutboxRow
  <1>3. /\ [outbox[e] EXCEPT !.leaseUntil = "past"].state = outbox[e].state
        /\ [outbox[e] EXCEPT !.availableAt = "past"].state = outbox[e].state
        /\ [outbox[e] EXCEPT !.leaseUntil = "past"].content = outbox[e].content
        /\ [outbox[e] EXCEPT !.availableAt = "past"].content = outbox[e].content
    BY <1>1 DEF OutboxRow
  <1>4. CASE \/ outbox'[e] = [outbox[e] EXCEPT !.leaseUntil = "past"]
             \/ outbox'[e] = [outbox[e] EXCEPT !.availableAt = "past"]
    BY <1>3, <1>4
  <1>5. ASSUME NEW d \in Dispatchers, Finish(d), disp[d].event = e,
               outbox'[e].content = outbox[e].content,
               outbox'[e].state = "sent" <=> disp[d].receipt = "durable"
        PROVE  /\ outbox'[e].content = outbox[e].content
               /\ disp[d].event = e /\ disp[d].pc = "finish" /\ disp[d].receipt = "durable"
    BY <1>5 DEF Finish
  <1> QED
    BY <1>1, <1>2, <1>4, <1>5 DEF RowMove

-----------------------------------------------------------------------------
(***************************************************************************)
(* The mailbox.                                                            *)
(***************************************************************************)
MailboxRowOK(row) ==
    /\ row.state = "absent" <=> row.content = NoContent
    /\ row.state = "dead" => row.attempts = MaxAttempts
    /\ row.state = "pending" => row.attempts < MaxAttempts
    /\ row.state = "processed" => row.attempts > 0

\* An open transaction works on a pending row; when it is about to settle, it
\* holds an effect exactly when the callback succeeded.
TxOK(k) ==
    /\ cons[k].pc = "idle" => cons[k] = NoTx
    /\ cons[k].pc # "idle" =>
          /\ cons[k].event \in Events
          /\ mailbox[cons[k].event].state = "pending"
    /\ cons[k].pc = "settle" =>
          \/ cons[k].outcome = "ok" /\ cons[k].written = 1
          \/ cons[k].outcome = "rejected" /\ cons[k].written = 0

\* The row lock: no two open transactions have the same event.
RowLocks ==
    \A k, j \in Consumers :
        cons[k].pc # "idle" /\ cons[j].event = cons[k].event => j = k

MailboxInv ==
    /\ MailboxTypeOK
    /\ \A e \in Events : MailboxRowOK(mailbox[e])
    /\ \A e \in Events : effects[e] = IF mailbox[e].state = "processed" THEN 1 ELSE 0
    /\ \A k \in Consumers : TxOK(k)
    /\ RowLocks

MailboxNext ==
    \/ \E e \in Events, c \in Contents : MailboxInsert(e, c)
    \/ \E k \in Consumers, e \in Events : Select(k, e)
    \/ \E k \in Consumers : CallbackWrites(k)
    \/ \E k \in Consumers : CallbackOk(k)
    \/ \E k \in Consumers : CallbackFails(k)
    \/ \E k \in Consumers : ConsumeCommits(k)
    \/ \E k \in Consumers : ConsumeAborts(k)
    \/ \E e \in Events : RedeliveryDelayEnds(e)

-----------------------------------------------------------------------------
(***************************************************************************)
(* The empty mailbox satisfies the invariant.                              *)
(***************************************************************************)
LEMMA MailboxInitInv == MailboxInit => MailboxInv
  <1> SUFFICES ASSUME MailboxInit PROVE MailboxInv
    OBVIOUS
  <1>1. MailboxTypeOK
    BY MaxAttemptsAssumption
       DEF MailboxInit, MailboxTypeOK, MailboxRow, NoMailboxRow, ConsumerTx, NoTx
  <1>2. ASSUME NEW e \in Events
        PROVE  /\ MailboxRowOK(mailbox[e])
               /\ effects[e] = IF mailbox[e].state = "processed" THEN 1 ELSE 0
    <2>1. mailbox[e] = NoMailboxRow /\ effects[e] = 0
      BY DEF MailboxInit
    <2> QED
      BY <2>1 DEF MailboxRowOK, NoMailboxRow
  <1>3. ASSUME NEW k \in Consumers PROVE TxOK(k) /\ cons[k].pc = "idle"
    <2>1. cons[k] = NoTx
      BY DEF MailboxInit
    <2> QED
      BY <2>1 DEF TxOK, NoTx
  <1>4. RowLocks
    BY <1>3 DEF RowLocks
  <1> QED
    BY <1>1, <1>2, <1>3, <1>4 DEF MailboxInv

(***************************************************************************)
(* The transactions keep their part of the invariant when each of them     *)
(* ends, or goes on with the row it has locked while that row stays        *)
(* pending.                                                                *)
(***************************************************************************)
LEMMA TransactionsGoOn ==
  ASSUME MailboxInv, MailboxTypeOK',
         \A k \in Consumers :
            \/ cons'[k] = NoTx
            \/ /\ cons'[k] = cons[k]
               /\ cons[k].pc # "idle" => mailbox'[cons[k].event].state = "pending"
  PROVE  (\A k \in Consumers : TxOK(k))' /\ RowLocks'
  <1>1. ASSUME NEW k \in Consumers PROVE TxOK(k)'
    <2>1. TxOK(k)
      BY DEF MailboxInv
    <2>2. CASE cons'[k] = NoTx
      BY <2>2 DEF TxOK, NoTx
    <2>3. CASE /\ cons'[k] = cons[k]
               /\ cons[k].pc # "idle" => mailbox'[cons[k].event].state = "pending"
      BY <2>1, <2>3 DEF TxOK
    <2> QED
      BY <2>2, <2>3
  <1>2. RowLocks'
    <2> SUFFICES ASSUME NEW k \in Consumers, NEW j \in Consumers,
                        cons'[k].pc # "idle", cons'[j].event = cons'[k].event
                 PROVE  j = k
      BY DEF RowLocks
    <2>1. cons'[k] # NoTx
      BY DEF NoTx
    <2>2. cons'[k] = cons[k] /\ cons[k].event \in Events
      BY <2>1 DEF MailboxInv, TxOK
    <2>3. cons'[j] # NoTx
      BY <2>2, EventsAssumption DEF NoTx
    <2>4. cons'[j] = cons[j]
      BY <2>3
    <2> QED
      BY <2>2, <2>4 DEF MailboxInv, RowLocks
  <1> QED
    BY <1>1, <1>2

\* publish() keeps the invariant: a new row is pending, an old one is not
\* touched, and no consumer works on it.
LEMMA MailboxInsertInv ==
  ASSUME MailboxInv, NEW e \in Events, NEW c \in Contents, MailboxInsert(e, c)
  PROVE  MailboxInv'
  <1> DEFINE row == InsertRow(mailbox[e], FreshMailboxRow(c))
  <1>1. /\ mailbox \in [Events -> MailboxRow] /\ MailboxRowOK(mailbox[e])
        /\ effects[e] = IF mailbox[e].state = "processed" THEN 1 ELSE 0
    BY DEF MailboxInv, MailboxTypeOK
  <1>2. /\ FreshMailboxRow(c) \in MailboxRow
        /\ FreshMailboxRow(c).state = "pending" /\ FreshMailboxRow(c).content = c
        /\ FreshMailboxRow(c).attempts = 0
    <2>1. 0 \in 0 .. MaxAttempts
      BY MaxAttemptsAssumption
    <2> QED
      BY <2>1 DEF FreshMailboxRow, MailboxRow
  <1>3. MailboxRowOK(FreshMailboxRow(c))
    BY <1>2, ContentsAssumption, MaxAttemptsAssumption DEF MailboxRowOK
  <1>4. /\ row \in MailboxRow /\ MailboxRowOK(row)
        /\ row.state = "processed" <=> mailbox[e].state = "processed"
    <2>1. CASE mailbox[e].state = "absent"
      <3>1. row = FreshMailboxRow(c)
        BY <2>1 DEF InsertRow
      <3> QED
        BY <1>2, <1>3, <2>1, <3>1
    <2>2. CASE mailbox[e].state # "absent"
      <3>1. row = mailbox[e]
        BY <2>2 DEF InsertRow
      <3> QED
        BY <1>1, <3>1
    <2> QED
      BY <2>1, <2>2
  <1>5. mailbox' = [mailbox EXCEPT ![e] = row] /\ effects' = effects /\ cons' = cons
    BY DEF MailboxInsert
  <1> HIDE DEF row
  <1>6. \A f \in Events : mailbox'[f] = IF f = e THEN row ELSE mailbox[f]
    BY <1>1, <1>5
  <1>7. MailboxTypeOK'
    BY <1>4, <1>5 DEF MailboxInv, MailboxTypeOK
  <1>8. ASSUME NEW f \in Events
        PROVE  /\ MailboxRowOK(mailbox'[f])
               /\ effects'[f] = IF mailbox'[f].state = "processed" THEN 1 ELSE 0
    BY <1>1, <1>4, <1>5, <1>6 DEF MailboxInv
  <1>9. \A k \in Consumers : cons[k].pc # "idle" =>
            mailbox'[cons[k].event].state = "pending"
    <2> SUFFICES ASSUME NEW k \in Consumers, cons[k].pc # "idle"
                 PROVE  mailbox'[cons[k].event].state = "pending"
      OBVIOUS
    <2>1. cons[k].event \in Events /\ mailbox[cons[k].event].state = "pending"
      BY DEF MailboxInv, TxOK
    <2>2. cons[k].event # e
      BY DEF MailboxInsert, Locked
    <2> QED
      BY <1>6, <2>1, <2>2
  <1>10. (\A k \in Consumers : TxOK(k))' /\ RowLocks'
    BY <1>5, <1>7, <1>9, TransactionsGoOn
  <1>11. \A f \in Events : MailboxRowOK(mailbox[f])'
    BY <1>8 DEF MailboxRowOK
  <1> QED
    BY <1>7, <1>8, <1>10, <1>11 DEF MailboxInv

\* A step inside one transaction that leaves the tables alone and keeps the
\* row it has locked.
LEMMA TransactionStep ==
  ASSUME MailboxInv, NEW k \in Consumers, NEW new \in ConsumerTx,
         cons' = [cons EXCEPT ![k] = new], UNCHANGED <<mailbox, effects>>,
         new.pc # "idle", new.event \in Events,
         mailbox[new.event].state = "pending",
         new.pc = "settle" =>
            \/ new.outcome = "ok" /\ new.written = 1
            \/ new.outcome = "rejected" /\ new.written = 0,
         \A j \in Consumers : cons[j].event = new.event => j = k
  PROVE  MailboxInv'
  <1>1. \A j \in Consumers : cons'[j] = IF j = k THEN new ELSE cons[j]
    BY DEF MailboxInv, MailboxTypeOK
  <1>2. MailboxTypeOK'
    BY DEF MailboxInv, MailboxTypeOK
  <1>3. ASSUME NEW j \in Consumers PROVE TxOK(j)'
    <2>1. CASE j = k
      <3>1. cons'[j] = new
        BY <1>1, <2>1
      <3> QED
        BY <3>1 DEF TxOK
    <2>2. CASE j # k
      <3>1. cons'[j] = cons[j] /\ TxOK(j)
        BY <1>1, <2>2 DEF MailboxInv
      <3> QED
        BY <3>1 DEF TxOK
    <2> QED
      BY <2>1, <2>2
  <1>4. RowLocks'
    <2> SUFFICES ASSUME NEW x \in Consumers, NEW y \in Consumers,
                        cons'[x].pc # "idle", cons'[y].event = cons'[x].event
                 PROVE  y = x
      BY DEF RowLocks
    <2>1. CASE x = k
      BY <1>1, <2>1
    <2>2. CASE x # k /\ y = k
      BY <1>1, <2>2
    <2>3. CASE x # k /\ y # k
      BY <1>1, <2>3 DEF MailboxInv, RowLocks
    <2> QED
      BY <2>1, <2>2, <2>3
  <1>5. \A e \in Events : MailboxRowOK(mailbox[e])'
    BY DEF MailboxInv, MailboxRowOK
  <1> QED
    BY <1>2, <1>3, <1>4, <1>5 DEF MailboxInv

\* Taking the row lock keeps the invariant.
LEMMA SelectInv ==
  ASSUME MailboxInv, NEW k \in Consumers, NEW e \in Events, Select(k, e)
  PROVE  MailboxInv'
  <1>1. /\ OpenTx(e) \in ConsumerTx
        /\ OpenTx(e).pc = "callback" /\ OpenTx(e).event = e
    BY DEF OpenTx, ConsumerTx
  <1>2. /\ cons' = [cons EXCEPT ![k] = OpenTx(e)] /\ UNCHANGED <<mailbox, effects>>
        /\ mailbox[e].state = "pending"
        /\ \A j \in Consumers : cons[j].event # e
    BY DEF Select, Locked
  <1>3. PICK new \in ConsumerTx :
          /\ cons' = [cons EXCEPT ![k] = new] /\ UNCHANGED <<mailbox, effects>>
          /\ new.pc = "callback" /\ new.event = e
    BY <1>1, <1>2
  <1>4. /\ new.pc # "idle" /\ new.event \in Events
        /\ mailbox[new.event].state = "pending"
        /\ ~(new.pc = "settle")
        /\ \A j \in Consumers : cons[j].event = new.event => j = k
    BY <1>2, <1>3
  <1> QED
    BY <1>3, <1>4, TransactionStep

\* The callback and its savepoint keep the invariant.
LEMMA CallbackInv ==
  ASSUME MailboxInv, NEW k \in Consumers,
         CallbackWrites(k) \/ CallbackOk(k) \/ CallbackFails(k)
  PROVE  MailboxInv'
  <1>1. cons[k] \in ConsumerTx /\ cons[k].pc = "callback" /\ UNCHANGED <<mailbox, effects>>
    BY DEF MailboxInv, MailboxTypeOK, CallbackWrites, CallbackOk, CallbackFails
  <1>2. /\ cons[k].event \in Events /\ mailbox[cons[k].event].state = "pending"
        /\ \A j \in Consumers : cons[j].event = cons[k].event => j = k
    BY <1>1 DEF MailboxInv, TxOK, RowLocks
  <1>3. PICK new \in ConsumerTx :
          /\ cons' = [cons EXCEPT ![k] = new]
          /\ new.event = cons[k].event /\ new.pc # "idle"
          /\ new.pc = "settle" =>
                \/ new.outcome = "ok" /\ new.written = 1
                \/ new.outcome = "rejected" /\ new.written = 0
    <2>1. CASE CallbackWrites(k)
      <3> DEFINE new == [cons[k] EXCEPT !.written = 1]
      <3>1. new \in ConsumerTx /\ new.event = cons[k].event /\ new.pc = "callback"
        BY <1>1 DEF ConsumerTx
      <3>2. cons' = [cons EXCEPT ![k] = new]
        BY <2>1 DEF CallbackWrites
      <3> QED
        BY <3>1, <3>2
    <2>2. CASE CallbackOk(k)
      <3> DEFINE new == [cons[k] EXCEPT !.pc = "settle", !.outcome = "ok"]
      <3>1. /\ new \in ConsumerTx /\ new.event = cons[k].event /\ new.pc = "settle"
            /\ new.outcome = "ok" /\ new.written = cons[k].written
        BY <1>1 DEF ConsumerTx
      <3>2. cons' = [cons EXCEPT ![k] = new] /\ cons[k].written = 1
        BY <2>2 DEF CallbackOk
      <3> QED
        BY <3>1, <3>2
    <2>3. CASE CallbackFails(k)
      <3> DEFINE new == [cons[k] EXCEPT !.pc = "settle", !.written = 0,
                                        !.outcome = "rejected"]
      <3>1. /\ new \in ConsumerTx /\ new.event = cons[k].event /\ new.pc = "settle"
            /\ new.outcome = "rejected" /\ new.written = 0
        BY <1>1 DEF ConsumerTx
      <3>2. cons' = [cons EXCEPT ![k] = new]
        BY <2>3 DEF CallbackFails
      <3> QED
        BY <3>1, <3>2
    <2> QED
      BY <2>1, <2>2, <2>3
  <1>4. /\ new.event \in Events /\ mailbox[new.event].state = "pending"
        /\ \A j \in Consumers : cons[j].event = new.event => j = k
    BY <1>2, <1>3
  <1> QED
    BY <1>1, <1>3, <1>4, TransactionStep

\* A transaction that ends without a commit keeps the invariant.
LEMMA ConsumeAbortsInv ==
  ASSUME MailboxInv, NEW k \in Consumers, ConsumeAborts(k)
  PROVE  MailboxInv'
  <1>1. cons' = [cons EXCEPT ![k] = NoTx] /\ UNCHANGED <<mailbox, effects>>
    BY DEF ConsumeAborts
  <1>2. NoTx \in ConsumerTx
    BY DEF NoTx, ConsumerTx
  <1>3. MailboxTypeOK'
    BY <1>1, <1>2 DEF MailboxInv, MailboxTypeOK
  <1>4. \A j \in Consumers : cons'[j] = IF j = k THEN NoTx ELSE cons[j]
    BY <1>1 DEF MailboxInv, MailboxTypeOK
  <1>5. \A j \in Consumers : cons[j].pc # "idle" =>
           mailbox'[cons[j].event].state = "pending"
    BY <1>1 DEF MailboxInv, TxOK
  <1>6. (\A j \in Consumers : TxOK(j))' /\ RowLocks'
    BY <1>3, <1>4, <1>5, TransactionsGoOn
  <1>7. \A e \in Events : MailboxRowOK(mailbox[e])'
    BY <1>1 DEF MailboxInv, MailboxRowOK
  <1> QED
    BY <1>1, <1>3, <1>6, <1>7 DEF MailboxInv

(***************************************************************************)
(* The UPDATE at the end of consume(): processed after success, dead at    *)
(* the attempt limit, otherwise pending with attempts left.                *)
(***************************************************************************)
LEMMA SettledRow ==
  ASSUME NEW row \in MailboxRow, row.state = "pending", MailboxRowOK(row),
         NEW outcome \in {"ok", "rejected"}
  PROVE  /\ SettleRow(row, outcome) \in MailboxRow
         /\ MailboxRowOK(SettleRow(row, outcome))
         /\ SettleRow(row, outcome).state = "processed" <=> outcome = "ok"
         /\ SettleRow(row, outcome).content = row.content
         /\ SettleRow(row, outcome).state # "absent"
  <1>1. row.attempts \in 0 .. MaxAttempts /\ row.attempts < MaxAttempts
    BY DEF MailboxRow, MailboxRowOK
  <1>2. row.attempts + 1 \in 0 .. MaxAttempts /\ row.attempts + 1 > 0
    BY <1>1, MaxAttemptsAssumption
  <1>3. row.content # NoContent
    BY DEF MailboxRowOK
  <1>4. PICK st \in {"processed", "dead", "pending"} :
          /\ SettleRow(row, outcome) =
               [row EXCEPT !.state = st, !.attempts = row.attempts + 1,
                           !.availableAt = "future"]
          /\ st = "processed" <=> outcome = "ok"
          /\ st = "dead" => row.attempts + 1 = MaxAttempts
          /\ st = "pending" => row.attempts + 1 < MaxAttempts
    <2>1. CASE outcome = "ok"
      BY <2>1 DEF SettleRow
    <2>2. CASE outcome # "ok" /\ row.attempts + 1 >= MaxAttempts
      <3>1. row.attempts + 1 = MaxAttempts
        BY <1>1, <2>2, MaxAttemptsAssumption
      <3> QED
        BY <2>2, <3>1 DEF SettleRow
    <2>3. CASE outcome # "ok" /\ ~(row.attempts + 1 >= MaxAttempts)
      <3>1. row.attempts + 1 < MaxAttempts
        BY <1>1, <2>3, MaxAttemptsAssumption
      <3> QED
        BY <2>3, <3>1 DEF SettleRow
    <2> QED
      BY <2>1, <2>2, <2>3
  <1> DEFINE new == [row EXCEPT !.state = st, !.attempts = row.attempts + 1,
                                !.availableAt = "future"]
  <1>5. new \in MailboxRow
    BY <1>2 DEF MailboxRow
  <1>6. new.state = st /\ new.attempts = row.attempts + 1 /\ new.content = row.content
    BY DEF MailboxRow
  <1> HIDE DEF new
  <1>7. SettleRow(row, outcome) = new
    BY <1>4 DEF new
  <1>8. MailboxRowOK(new)
    BY <1>2, <1>3, <1>4, <1>6 DEF MailboxRowOK
  <1> QED
    BY <1>4, <1>5, <1>6, <1>7, <1>8

\* The commit of consume() keeps the invariant: effects and marker together.
LEMMA ConsumeCommitsInv ==
  ASSUME MailboxInv, NEW k \in Consumers, ConsumeCommits(k)
  PROVE  MailboxInv'
  <1> DEFINE e == cons[k].event
             row == SettleRow(mailbox[e], cons[k].outcome)
             w == cons[k].written
  <1>1. /\ e \in Events /\ mailbox[e].state = "pending"
        /\ \/ cons[k].outcome = "ok" /\ w = 1
           \/ cons[k].outcome = "rejected" /\ w = 0
        /\ \A j \in Consumers : cons[j].event = e => j = k
    BY DEF MailboxInv, TxOK, RowLocks, ConsumeCommits
  <1>2. mailbox[e] \in MailboxRow /\ MailboxRowOK(mailbox[e]) /\ effects[e] = 0
    BY <1>1 DEF MailboxInv, MailboxTypeOK
  <1>3. /\ row \in MailboxRow /\ MailboxRowOK(row)
        /\ row.state = "processed" <=> w = 1
    BY <1>1, <1>2, SettledRow
  <1>4. /\ mailbox' = [mailbox EXCEPT ![e] = row]
        /\ effects' = [effects EXCEPT ![e] = effects[e] + w]
        /\ cons' = [cons EXCEPT ![k] = NoTx]
    BY DEF ConsumeCommits
  <1> HIDE DEF row, e, w
  <1>5. /\ \A f \in Events : mailbox'[f] = IF f = e THEN row ELSE mailbox[f]
        /\ \A f \in Events : effects'[f] = IF f = e THEN w ELSE effects[f]
        /\ \A j \in Consumers : cons'[j] = IF j = k THEN NoTx ELSE cons[j]
    BY <1>1, <1>2, <1>4 DEF MailboxInv, MailboxTypeOK
  <1>6. NoTx \in ConsumerTx /\ effects[e] + w \in Nat
    BY <1>1, <1>2 DEF NoTx, ConsumerTx
  <1>7. MailboxTypeOK'
    BY <1>3, <1>4, <1>6 DEF MailboxInv, MailboxTypeOK
  <1>8. ASSUME NEW f \in Events
        PROVE  /\ MailboxRowOK(mailbox'[f])
               /\ effects'[f] = IF mailbox'[f].state = "processed" THEN 1 ELSE 0
    BY <1>1, <1>3, <1>5 DEF MailboxInv
  <1>9. ASSUME NEW j \in Consumers, j # k, cons[j].pc # "idle"
        PROVE  mailbox'[cons[j].event].state = "pending"
    <2>1. cons[j].event \in Events /\ mailbox[cons[j].event].state = "pending"
      BY <1>9 DEF MailboxInv, TxOK
    <2>2. cons[j].event # e
      BY <1>1, <1>9
    <2> QED
      BY <1>5, <2>1, <2>2
  <1>10. (\A j \in Consumers : TxOK(j))' /\ RowLocks'
    BY <1>5, <1>7, <1>9, TransactionsGoOn
  <1>11. \A f \in Events : MailboxRowOK(mailbox[f])'
    BY <1>8 DEF MailboxRowOK
  <1> QED
    BY <1>7, <1>8, <1>10, <1>11 DEF MailboxInv

\* The passage of time keeps the invariant.
LEMMA RedeliveryDelayEndsInv ==
  ASSUME MailboxInv, NEW e \in Events, RedeliveryDelayEnds(e)
  PROVE  MailboxInv'
  <1> DEFINE row == [mailbox[e] EXCEPT !.availableAt = "past"]
  <1>1. mailbox[e] \in MailboxRow /\ MailboxRowOK(mailbox[e])
    BY DEF MailboxInv, MailboxTypeOK
  <1>2. /\ row \in MailboxRow /\ row.state = mailbox[e].state
        /\ row.content = mailbox[e].content /\ row.attempts = mailbox[e].attempts
    BY <1>1 DEF MailboxRow
  <1>3. mailbox' = [mailbox EXCEPT ![e] = row] /\ effects' = effects /\ cons' = cons
    BY DEF RedeliveryDelayEnds
  <1> HIDE DEF row
  <1>4. MailboxRowOK(row)
    BY <1>1, <1>2 DEF MailboxRowOK
  <1>5. \A f \in Events : mailbox'[f] = IF f = e THEN row ELSE mailbox[f]
    BY <1>3 DEF MailboxInv, MailboxTypeOK
  <1>6. MailboxTypeOK'
    BY <1>2, <1>3 DEF MailboxInv, MailboxTypeOK
  <1>7. ASSUME NEW f \in Events
        PROVE  /\ MailboxRowOK(mailbox'[f])
               /\ mailbox'[f].state = mailbox[f].state
               /\ effects'[f] = IF mailbox'[f].state = "processed" THEN 1 ELSE 0
    BY <1>2, <1>3, <1>4, <1>5 DEF MailboxInv
  <1>8. \A k \in Consumers : cons[k].pc # "idle" =>
            mailbox'[cons[k].event].state = "pending"
    BY <1>7 DEF MailboxInv, TxOK
  <1>9. (\A k \in Consumers : TxOK(k))' /\ RowLocks'
    BY <1>3, <1>6, <1>8, TransactionsGoOn
  <1>10. \A f \in Events : MailboxRowOK(mailbox[f])'
    BY <1>7 DEF MailboxRowOK
  <1> QED
    BY <1>6, <1>7, <1>9, <1>10 DEF MailboxInv

\* A step of the rest of the system keeps the invariant.
LEMMA MailboxUnchangedInv ==
  ASSUME MailboxInv, UNCHANGED mailboxVars
  PROVE  MailboxInv'
  BY DEF MailboxInv, mailboxVars, MailboxTypeOK, MailboxRowOK, TxOK, RowLocks

(***************************************************************************)
(* Every action of the mailbox preserves its invariant.                    *)
(***************************************************************************)
LEMMA MailboxNextInv == MailboxInv /\ (MailboxNext \/ UNCHANGED mailboxVars) => MailboxInv'
  BY MailboxInsertInv, SelectInv, CallbackInv, ConsumeCommitsInv, ConsumeAbortsInv,
     RedeliveryDelayEndsInv, MailboxUnchangedInv DEF MailboxNext

(***************************************************************************)
(* A row of the mailbox never changes its content.                         *)
(***************************************************************************)
LEMMA MailboxContentStable ==
  ASSUME MailboxInv, MailboxNext \/ UNCHANGED mailboxVars,
         NEW e \in Events, mailbox[e].state # "absent"
  PROVE  mailbox'[e].content = mailbox[e].content
  <1>1. mailbox \in [Events -> MailboxRow]
    BY DEF MailboxInv, MailboxTypeOK
  <1>2. ASSUME NEW f \in Events, NEW c \in Contents, MailboxInsert(f, c)
        PROVE  mailbox'[e].content = mailbox[e].content
    BY <1>1, <1>2 DEF MailboxInsert, InsertRow
  <1>3. ASSUME NEW k \in Consumers, ConsumeCommits(k)
        PROVE  mailbox'[e].content = mailbox[e].content
    <2>1. CASE cons[k].event = e
      <3>1. /\ mailbox[e] \in MailboxRow /\ mailbox[e].state = "pending"
            /\ MailboxRowOK(mailbox[e])
            /\ cons[k].outcome \in {"ok", "rejected"}
        BY <1>1, <1>3, <2>1 DEF MailboxInv, TxOK, ConsumeCommits
      <3>2. SettleRow(mailbox[e], cons[k].outcome).content = mailbox[e].content
        BY <3>1, SettledRow
      <3>3. mailbox' = [mailbox EXCEPT ![e] = SettleRow(mailbox[e], cons[k].outcome)]
        BY <1>3, <2>1 DEF ConsumeCommits
      <3> QED
        BY <1>1, <3>2, <3>3
    <2>2. CASE cons[k].event # e
      BY <1>1, <1>3, <2>2 DEF ConsumeCommits
    <2> QED
      BY <2>1, <2>2
  <1>4. ASSUME NEW f \in Events, RedeliveryDelayEnds(f)
        PROVE  mailbox'[e].content = mailbox[e].content
    <2>1. [mailbox[f] EXCEPT !.availableAt = "past"].content = mailbox[f].content
      BY <1>1 DEF MailboxRow
    <2> QED
      BY <1>1, <1>4, <2>1 DEF RedeliveryDelayEnds
  <1>5. UNCHANGED mailbox => mailbox'[e].content = mailbox[e].content
    OBVIOUS
  <1> QED
    BY <1>2, <1>3, <1>4, <1>5 DEF MailboxNext, mailboxVars, Select, CallbackWrites,
       CallbackOk, CallbackFails, ConsumeAborts

(***************************************************************************)
(* The invariant implies what is said about the mailbox alone: effects     *)
(* exactly once with the processed marker, poison only at the attempt      *)
(* limit, one consumer per event.                                          *)
(***************************************************************************)
LEMMA MailboxInvImplies ==
  MailboxInv => EffectsOnceIffProcessed /\ PoisonAfterLastAttempt /\ OneConsumerPerEvent
  BY DEF MailboxInv, EffectsOnceIffProcessed, PoisonAfterLastAttempt,
         OneConsumerPerEvent, MailboxRowOK, TxOK, RowLocks

-----------------------------------------------------------------------------
(***************************************************************************)
(* What the promise of EventDelivery sees of the mailbox: the content it   *)
(* holds for an event and the fate of the event at its consumer.           *)
(***************************************************************************)
Kept == [e \in Events |-> mailbox[e].content]

Fate == [e \in Events |->
           CASE mailbox[e].state = "processed" -> "applied"
             [] mailbox[e].state = "dead" -> "dead"
             [] OTHER -> "open"]

\* Seen from there, a step takes the content of a new event, ...
Takes ==
    \E e \in Events, c \in Contents :
        /\ Kept[e] = NoContent
        /\ Kept' = [Kept EXCEPT ![e] = c]
        /\ Fate' = Fate
        /\ MailboxInsert(e, c)

\* ... or decides the fate of an event it holds.
Decides ==
    \E e \in Events : \E fate \in {"applied", "dead"} :
        /\ Fate[e] = "open" /\ Kept[e] # NoContent
        /\ Fate' = [Fate EXCEPT ![e] = fate]
        /\ Kept' = Kept

(***************************************************************************)
(* Every step of the mailbox is one of the two, or invisible.              *)
(***************************************************************************)
LEMMA MailboxPromise ==
  ASSUME MailboxInv, MailboxNext \/ UNCHANGED mailboxVars
  PROVE  Takes \/ Decides \/ (Kept' = Kept /\ Fate' = Fate)
  <1>1. /\ mailbox \in [Events -> MailboxRow]
        /\ \A e \in Events : mailbox[e] \in MailboxRow /\ MailboxRowOK(mailbox[e])
    BY DEF MailboxInv, MailboxTypeOK
  <1>2. ASSUME \A e \in Events : /\ mailbox'[e].content = mailbox[e].content
                                 /\ mailbox'[e].state = mailbox[e].state
        PROVE  Kept' = Kept /\ Fate' = Fate
    BY <1>2 DEF Kept, Fate
  <1>3. ASSUME NEW e \in Events, NEW c \in Contents, MailboxInsert(e, c)
        PROVE  Takes \/ (Kept' = Kept /\ Fate' = Fate)
    <2>1. mailbox' = [mailbox EXCEPT ![e] = InsertRow(mailbox[e], FreshMailboxRow(c))]
      BY <1>3 DEF MailboxInsert
    <2>2. CASE mailbox[e].state # "absent"
      <3>1. mailbox' = mailbox
        BY <1>1, <2>1, <2>2 DEF InsertRow
      <3> QED
        BY <1>2, <3>1
    <2>3. CASE mailbox[e].state = "absent"
      <3>1. FreshMailboxRow(c).content = c /\ FreshMailboxRow(c).state = "pending"
        BY DEF FreshMailboxRow
      <3>2. /\ mailbox'[e].content = c /\ mailbox'[e].state = "pending"
            /\ \A f \in Events : f # e => mailbox'[f] = mailbox[f]
        BY <1>1, <2>1, <2>3, <3>1 DEF InsertRow
      <3>3. Kept[e] = NoContent
        BY <1>1, <2>3 DEF Kept, MailboxRowOK
      <3>4. Kept' = [Kept EXCEPT ![e] = c]
        BY <3>2 DEF Kept
      <3>5. Fate' = Fate
        BY <2>3, <3>2 DEF Fate
      <3> QED
        BY <1>3, <3>3, <3>4, <3>5 DEF Takes
    <2> QED
      BY <2>2, <2>3
  <1>4. ASSUME NEW k \in Consumers, ConsumeCommits(k)
        PROVE  Decides \/ (Kept' = Kept /\ Fate' = Fate)
    <2> DEFINE e == cons[k].event
               row == SettleRow(mailbox[e], cons[k].outcome)
    <2>1. /\ e \in Events /\ mailbox[e].state = "pending"
          /\ cons[k].outcome \in {"ok", "rejected"}
      BY <1>4 DEF MailboxInv, TxOK, ConsumeCommits
    <2>2. /\ row \in MailboxRow /\ row.content = mailbox[e].content
          /\ row.state # "absent"
      BY <1>1, <2>1, SettledRow
    <2>3. mailbox' = [mailbox EXCEPT ![e] = row]
      BY <1>4 DEF ConsumeCommits
    <2> HIDE DEF e, row
    <2>4. /\ mailbox'[e] = row
          /\ \A f \in Events : f # e => mailbox'[f] = mailbox[f]
      BY <1>1, <2>1, <2>3
    <2>5. \A f \in Events : mailbox'[f].content = mailbox[f].content
      BY <2>2, <2>4
    <2>6. Kept' = Kept
      BY <2>5 DEF Kept
    <2>7. Fate[e] = "open" /\ Kept[e] # NoContent
      BY <1>1, <2>1 DEF Fate, Kept, MailboxRowOK
    <2>8. row.state \in {"pending", "processed", "dead"}
      BY <2>2 DEF MailboxRow
    <2>9. CASE row.state = "pending"
      BY <1>2, <2>1, <2>4, <2>5, <2>9
    <2>10. CASE row.state = "processed"
      <3>1. Fate' = [Fate EXCEPT ![e] = "applied"]
        BY <2>4, <2>10 DEF Fate
      <3> QED
        BY <2>1, <2>6, <2>7, <3>1 DEF Decides
    <2>11. CASE row.state = "dead"
      <3>1. Fate' = [Fate EXCEPT ![e] = "dead"]
        BY <2>4, <2>11 DEF Fate
      <3> QED
        BY <2>1, <2>6, <2>7, <3>1 DEF Decides
    <2> QED
      BY <2>8, <2>9, <2>10, <2>11
  <1>5. ASSUME NEW f \in Events, RedeliveryDelayEnds(f)
        PROVE  Kept' = Kept /\ Fate' = Fate
    <2>1. /\ [mailbox[f] EXCEPT !.availableAt = "past"].content = mailbox[f].content
          /\ [mailbox[f] EXCEPT !.availableAt = "past"].state = mailbox[f].state
      BY <1>1 DEF MailboxRow
    <2>2. mailbox' = [mailbox EXCEPT ![f] = [mailbox[f] EXCEPT !.availableAt = "past"]]
      BY <1>5 DEF RedeliveryDelayEnds
    <2>3. \A e \in Events : /\ mailbox'[e].content = mailbox[e].content
                            /\ mailbox'[e].state = mailbox[e].state
      BY <1>1, <2>1, <2>2
    <2> QED
      BY <1>2, <2>3
  <1>6. CASE mailbox' = mailbox
    BY <1>2, <1>6
  <1> QED
    BY <1>3, <1>4, <1>5, <1>6 DEF MailboxNext, mailboxVars, Select, CallbackWrites,
       CallbackOk, CallbackFails, ConsumeAborts
=============================================================================
