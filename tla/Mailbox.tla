------------------------------ MODULE Mailbox ------------------------------
(***************************************************************************)
(* The durable mailbox: the table n2f_mailbox and the class Mailbox of     *)
(* events/postgres/store.ts.  publish() inserts an envelope in a           *)
(* transaction of its own; each consumer runs consume(), one transaction   *)
(* that locks a pending row, runs the callback inside a savepoint and      *)
(* settles the row.                                                        *)
(*                                                                         *)
(* A consumer holds the lock of its row from the SELECT to the end of the  *)
(* transaction: other consumers skip the row (SKIP LOCKED), and an insert  *)
(* of the same event ID waits for the lock.  The callback's local effects  *)
(* become visible with the commit, or not at all.                          *)
(***************************************************************************)
EXTENDS Envelopes

CONSTANTS Consumers

VARIABLES
    mailbox,   \* the table, one row per event ID
    effects,   \* committed effects of the callback, per event
    cons       \* the open transaction of each call of consume()

mailboxVars == <<mailbox, effects, cons>>

MailboxRow == [state : {"absent", "pending", "processed", "dead"},
               content : Contents \cup {NoContent},
               attempts : 0 .. MaxAttempts,
               availableAt : {"past", "future"}]

\* written: callback effects in the transaction that are not undone.
ConsumerTx == [pc : {"idle", "callback", "settle"},
               event : Events \cup {NoEvent},
               written : {0, 1},
               outcome : {"none", "ok", "rejected"}]

NoMailboxRow == [state |-> "absent", content |-> NoContent, attempts |-> 0,
                 availableAt |-> "past"]

FreshMailboxRow(c) == [state |-> "pending", content |-> c, attempts |-> 0,
                       availableAt |-> "past"]

NoTx == [pc |-> "idle", event |-> NoEvent, written |-> 0, outcome |-> "none"]

OpenTx(e) == [pc |-> "callback", event |-> e, written |-> 0, outcome |-> "none"]

MailboxTypeOK ==
    /\ mailbox \in [Events -> MailboxRow]
    /\ effects \in [Events -> Nat]
    /\ cons \in [Consumers -> ConsumerTx]

MailboxInit ==
    /\ mailbox = [e \in Events |-> NoMailboxRow]
    /\ effects = [e \in Events |-> 0]
    /\ cons = [k \in Consumers |-> NoTx]

Locked(e) == \E k \in Consumers : cons[k].event = e

-----------------------------------------------------------------------------
(***************************************************************************)
(* The committed insert of publish().  It waits for the lock of an         *)
(* existing row; when the ID carries another content nothing is committed. *)
(***************************************************************************)
MailboxInsert(e, c) ==
    /\ ~Locked(e)
    /\ InsertAccepts(mailbox[e], c)
    /\ mailbox' = [mailbox EXCEPT ![e] = InsertRow(@, FreshMailboxRow(c))]
    /\ UNCHANGED <<effects, cons>>

-----------------------------------------------------------------------------
\* Mutant: the SELECT does not lock the row.
Select_Unlocked(k, e) ==
    /\ cons[k].pc = "idle"
    /\ mailbox[e].state = "pending"
    /\ mailbox[e].attempts < MaxAttempts
    /\ mailbox[e].availableAt = "past"
    /\ cons' = [cons EXCEPT ![k] = OpenTx(e)]
    /\ UNCHANGED <<mailbox, effects>>

\* consume() begins its transaction and locks a row that is due.
Select(k, e) ==
    /\ cons[k].pc = "idle"
    /\ mailbox[e].state = "pending"
    /\ mailbox[e].attempts < MaxAttempts
    /\ mailbox[e].availableAt = "past"
    /\ ~Locked(e)
    /\ cons' = [cons EXCEPT ![k] = OpenTx(e)]
    /\ UNCHANGED <<mailbox, effects>>

\* The callback writes its local effect through the transaction.
CallbackWrites(k) ==
    /\ cons[k].pc = "callback"
    /\ cons[k].written = 0
    /\ cons' = [cons EXCEPT ![k].written = 1]
    /\ UNCHANGED <<mailbox, effects>>

\* The callback has done its work and returns ok.
CallbackOk(k) ==
    /\ cons[k].pc = "callback"
    /\ cons[k].written = 1
    /\ cons' = [cons EXCEPT ![k] = [@ EXCEPT !.pc = "settle", !.outcome = "ok"]]
    /\ UNCHANGED <<mailbox, effects>>

\* Mutant: no ROLLBACK TO SAVEPOINT.
CallbackFails_KeepsEffects(k) ==
    /\ cons[k].pc = "callback"
    /\ cons' = [cons EXCEPT ![k] = [@ EXCEPT !.pc = "settle",
                                             !.outcome = "rejected"]]
    /\ UNCHANGED <<mailbox, effects>>

\* The callback fails or throws, before or after its write: the effects are
\* undone by ROLLBACK TO SAVEPOINT.
CallbackFails(k) ==
    /\ cons[k].pc = "callback"
    /\ cons' = [cons EXCEPT ![k] = [@ EXCEPT !.pc = "settle", !.written = 0,
                                             !.outcome = "rejected"]]
    /\ UNCHANGED <<mailbox, effects>>

\* Mutant: the attempt under way is not counted against the limit.
SettleRow_OneMore(row, outcome) ==
    [row EXCEPT !.state = IF outcome = "ok" THEN "processed"
                          ELSE IF row.attempts >= MaxAttempts THEN "dead"
                          ELSE "pending",
                !.attempts = row.attempts + 1,
                !.availableAt = "future"]

SettleRow(row, outcome) ==
    [row EXCEPT !.state = IF outcome = "ok" THEN "processed"
                          ELSE IF row.attempts + 1 >= MaxAttempts THEN "dead"
                          ELSE "pending",
                !.attempts = row.attempts + 1,
                !.availableAt = "future"]

\* The row is settled and the transaction commits, effects included; the
\* caller may be told that the commit is uncertain.
ConsumeCommits(k) ==
    LET e == cons[k].event IN
    /\ cons[k].pc = "settle"
    /\ mailbox' = [mailbox EXCEPT ![e] = SettleRow(@, cons[k].outcome)]
    /\ effects' = [effects EXCEPT ![e] = @ + cons[k].written]
    /\ cons' = [cons EXCEPT ![k] = NoTx]

\* The transaction ends without a commit: its deadline, a database failure
\* or the death of the process.  Row, attempts and effects are as before.
ConsumeAborts(k) ==
    /\ cons[k].pc # "idle"
    /\ cons' = [cons EXCEPT ![k] = NoTx]
    /\ UNCHANGED <<mailbox, effects>>

\* One hundred milliseconds after an attempt that failed.
RedeliveryDelayEnds(e) ==
    /\ mailbox[e].state = "pending"
    /\ mailbox[e].availableAt = "future"
    /\ mailbox' = [mailbox EXCEPT ![e].availableAt = "past"]
    /\ UNCHANGED <<effects, cons>>

-----------------------------------------------------------------------------
(***************************************************************************)
(* Contract E06: the effects of the callback and the processed marker are  *)
(* one commit.  An event's effects are applied exactly once when its row   *)
(* is processed and never otherwise, whatever was redelivered, retried,    *)
(* rolled back or left uncertain.                                          *)
(***************************************************************************)
EffectsOnceIffProcessed ==
    \A e \in Events :
        effects[e] = IF mailbox[e].state = "processed" THEN 1 ELSE 0

(***************************************************************************)
(* Contract E06: at most MaxAttempts committed attempts, and a row is      *)
(* given up exactly when the last one failed; a pending row can still be   *)
(* consumed.                                                               *)
(***************************************************************************)
PoisonAfterLastAttempt ==
    \A e \in Events :
        /\ mailbox[e].state = "dead" => mailbox[e].attempts = MaxAttempts
        /\ mailbox[e].state = "pending" => mailbox[e].attempts < MaxAttempts
        /\ mailbox[e].state = "processed" => mailbox[e].attempts > 0

(***************************************************************************)
(* An event has at most one open consumer transaction, and only while its  *)
(* row is pending.                                                         *)
(***************************************************************************)
OneConsumerPerEvent ==
    \A k \in Consumers : cons[k].pc # "idle" =>
        /\ mailbox[cons[k].event].state = "pending"
        /\ \A j \in Consumers : cons[j].event = cons[k].event => j = k
=============================================================================
