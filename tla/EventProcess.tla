---------------------------- MODULE EventProcess ----------------------------
(***************************************************************************)
(* The event process: events-example.ts, runEvents of root/events.ts and   *)
(* the set-up of the Broker (open, provision, close).  Several processes   *)
(* run against one database and one NATS server.  Each reads its settings, *)
(* opens what it needs, migrates (module Migrations), records one event    *)
(* and then makes rounds of dispatch, transfer and consume until it has    *)
(* consumed its own event, a call fails, it is stopped or its budget is    *)
(* spent; it closes what it opened and leaves an exit status.              *)
(*                                                                         *)
(* The event of process p is called p.  A call of dispatch or transfer is  *)
(* one step here with every outcome it can have; what happens between its  *)
(* transactions is the subject of Outbox, Mailbox and JetStreamDelivery.   *)
(***************************************************************************)
EXTENDS Migrations, SequencesExt

CONSTANTS
    Jetstream,    \* the processes whose EVENTS_TRANSPORT is jetstream
    MaxRounds,    \* 32 in the code, or as many as fit in ten seconds
    MaxAttempts   \* 5 in the code

ASSUME EventProcessAssumption ==
    Jetstream \subseteq Runners /\ MaxRounds \in Nat \ {0} /\ MaxAttempts \in Nat \ {0}

VARIABLES
    proc,      \* each process: where it is, the row it has locked, its status
    outbox,    \* n2f_outbox, one row per event
    stream,    \* each event in the stream: "none", "stored" or "acked"
    mailbox,   \* each event in n2f_mailbox: "none", "pending" or "processed"
    nats       \* stream and durable consumer: "absent", "ours" or "other"

tables == <<outbox, stream, mailbox>>
processVars == <<migrationVars, proc, outbox, stream, mailbox, nats>>

NewProcess == [pc |-> "load", stop |-> FALSE, round |-> 0, held |-> NoRunner,
               status |-> "none"]

Exited(status) == [NewProcess EXCEPT !.pc = "exited", !.status = status]

ProcessInit ==
    /\ MigrationsInit
    /\ proc = [p \in Runners |-> NewProcess]
    /\ outbox = [e \in Runners |-> [state |-> "none", attempts |-> 0, hold |-> "no"]]
    /\ stream = [e \in Runners |-> "none"]
    /\ mailbox = [e \in Runners |-> "none"]
    /\ nats \in [{"stream", "consumer"} -> {"absent", "other"}]

At(p, pc) == proc[p].pc = pc
Goto(p, pc) == proc' = [proc EXCEPT ![p].pc = pc]

(***************************************************************************)
(* return 0, or the catch clause; then the finally clause begins.  The     *)
(* transaction of a consume under way has ended.                           *)
(***************************************************************************)
Leave(p, status) ==
    proc' = [proc EXCEPT ![p] = [NewProcess EXCEPT !.pc = "closing", !.status = status]]

-----------------------------------------------------------------------------
\* A setting or an ID is refused before the try block, or the transport is
\* unknown: status 2, and nothing was opened.
Refused(p) ==
    /\ At(p, "load")
    /\ proc' = [proc EXCEPT ![p] = Exited("2")]
    /\ UNCHANGED <<migrationVars, tables, nats>>

\* The settings are good: the log is opened.  The release has its list of
\* migrations.
Load(p, l) ==
    /\ At(p, "load")
    /\ Goto(p, IF p \in Jetstream THEN "connect" ELSE "open_database")
    /\ Restart(p, l)
    /\ UNCHANGED <<tables, nats>>

ConnectBroker(p) ==
    /\ At(p, "connect")
    /\ Goto(p, "stream_info")
    /\ UNCHANGED <<migrationVars, tables, nats>>

(***************************************************************************)
(* provision(), for the stream and then for its consumer: INFO; only an    *)
(* unknown name is created; a configuration that differs is refused        *)
(* (Throws).                                                               *)
(***************************************************************************)
Thing(pc) == IF pc \in {"stream_info", "stream_create"} THEN "stream" ELSE "consumer"
Creation(pc) == IF pc = "stream_info" THEN "stream_create" ELSE "consumer_create"
Provisioned(pc) ==
    IF pc \in {"stream_info", "stream_create"} THEN "consumer_info" ELSE "open_database"

\* Mutant: whatever has the name is taken.
Compatible_Name(got) == got # "absent"

Compatible(got) == got = "ours"

Info(p) ==
    /\ proc[p].pc \in {"stream_info", "consumer_info"}
    /\ ~proc[p].stop
    /\ LET pc == proc[p].pc IN
         \/ nats[Thing(pc)] = "absent" /\ Goto(p, Creation(pc))
         \/ Compatible(nats[Thing(pc)]) /\ Goto(p, Provisioned(pc))
    /\ UNCHANGED <<migrationVars, tables, nats>>

\* CREATE is answered with the configuration, perhaps another process's.
Create(p) ==
    /\ proc[p].pc \in {"stream_create", "consumer_create"}
    /\ ~proc[p].stop
    /\ LET thing == Thing(proc[p].pc) IN
         /\ nats' = [nats EXCEPT ![thing] = IF @ = "absent" THEN "ours" ELSE @]
         /\ Compatible(nats'[thing])
    /\ Goto(p, Provisioned(proc[p].pc))
    /\ UNCHANGED <<migrationVars, tables>>

\* The stream or the consumer is created, but the reply is lost.
CreateReplyLost(p) ==
    /\ proc[p].pc \in {"stream_create", "consumer_create"}
    /\ ~proc[p].stop
    /\ nats[Thing(proc[p].pc)] = "absent"
    /\ nats' = [nats EXCEPT ![Thing(proc[p].pc)] = "ours"]
    /\ Leave(p, "1")
    /\ UNCHANGED <<migrationVars, tables>>

\* Somebody else creates it with another configuration.
ForeignCreate(thing) ==
    /\ nats[thing] = "absent"
    /\ nats' = [nats EXCEPT ![thing] = "other"]
    /\ UNCHANGED <<migrationVars, proc, tables>>

OpenDatabase(p) ==
    /\ At(p, "open_database")
    /\ Goto(p, "migrate")
    /\ UNCHANGED <<migrationVars, tables, nats>>

\* database.migrate() is called without the signal.
Migrate(p) ==
    /\ At(p, "migrate")
    /\ MigrationStep(p)
    /\ UNCHANGED <<proc, tables, nats>>

Migrated(p) ==
    /\ At(p, "migrate")
    /\ run[p].pc = "ok"
    /\ Goto(p, "enqueue")
    /\ UNCHANGED <<migrationVars, tables, nats>>

-----------------------------------------------------------------------------
Pending == [state |-> "pending", attempts |-> 0, hold |-> "no"]

Enqueue(p) ==
    /\ At(p, "enqueue")
    /\ ~proc[p].stop
    /\ outbox' = [outbox EXCEPT ![p] = Pending]
    /\ Goto(p, "loop")
    /\ UNCHANGED <<migrationVars, stream, mailbox, nats>>

\* The event is recorded, but the process is told that it is uncertain.
EnqueueReplyLost(p) ==
    /\ At(p, "enqueue")
    /\ ~proc[p].stop
    /\ outbox' = [outbox EXCEPT ![p] = Pending]
    /\ Leave(p, "1")
    /\ UNCHANGED <<migrationVars, stream, mailbox, nats>>

\* Mutant: the budget and the signal are not looked at.
Round_Endless(p) ==
    /\ At(p, "loop")
    /\ Goto(p, "dispatch")
    /\ UNCHANGED <<migrationVars, tables, nats>>

\* The head of the loop; a spent budget and the signal are left to Throws.
Round(p) ==
    /\ At(p, "loop")
    /\ proc[p].round < MaxRounds
    /\ ~proc[p].stop
    /\ proc' = [proc EXCEPT ![p].pc = "dispatch", ![p].round = @ + 1]
    /\ UNCHANGED <<migrationVars, tables, nats>>

AfterDispatch(p) == IF p \in Jetstream THEN "transfer" ELSE "select"

\* What claim() makes of the table before it looks for a row.
Swept == [e \in Runners |->
            IF outbox[e].state = "pending" /\ outbox[e].attempts = MaxAttempts
                 /\ outbox[e].hold # "lease"
            THEN [outbox[e] EXCEPT !.state = "dead", !.hold = "no"]
            ELSE outbox[e]]

Claimable(e) ==
    outbox[e].state = "pending" /\ outbox[e].attempts < MaxAttempts
      /\ outbox[e].hold = "no"

\* dispatch() finds no row; the reply to that commit may be lost too.
DispatchNothing(p) ==
    /\ At(p, "dispatch")
    /\ ~proc[p].stop
    /\ \A e \in Runners : ~Claimable(e)
    /\ outbox' = Swept
    /\ Goto(p, AfterDispatch(p)) \/ Leave(p, "1")
    /\ UNCHANGED <<migrationVars, stream, mailbox, nats>>

\* The publisher stores the event, once.
Published(p, e) ==
    IF p \in Jetstream
    THEN /\ stream' = [stream EXCEPT ![e] = IF @ = "none" THEN "stored" ELSE @]
         /\ UNCHANGED mailbox
    ELSE /\ \A q \in Runners : proc[q].held # e
         /\ mailbox' = [mailbox EXCEPT ![e] = IF @ = "none" THEN "pending" ELSE @]
         /\ UNCHANGED stream

\* The row after ack() and after release(), with its attempt counted.
Acked(row) == [row EXCEPT !.state = "sent", !.attempts = @ + 1]

Released(row) ==
    [row EXCEPT !.state = IF row.attempts + 1 >= MaxAttempts THEN "dead" ELSE "pending",
                !.attempts = @ + 1,
                !.hold = IF row.attempts + 1 >= MaxAttempts THEN "no" ELSE "delay"]

Leased(row) == [row EXCEPT !.attempts = @ + 1, !.hold = "lease"]

\* dispatch() publishes the event and acknowledges its row.
DispatchSends(p, e) ==
    /\ At(p, "dispatch")
    /\ ~proc[p].stop
    /\ Claimable(e)
    /\ Published(p, e)
    /\ outbox' = [Swept EXCEPT ![e] = Acked(@)]
    /\ Goto(p, AfterDispatch(p))
    /\ UNCHANGED <<migrationVars, nats>>

\* Mutant: the row is acknowledged whatever the publisher said.
DispatchFails_Acks(p, e) ==
    /\ At(p, "dispatch")
    /\ ~proc[p].stop
    /\ Claimable(e)
    /\ Published(p, e) \/ UNCHANGED <<stream, mailbox>>
    /\ outbox' \in {[Swept EXCEPT ![e] = Acked(@)], [Swept EXCEPT ![e] = Leased(@)]}
    /\ Leave(p, "1")
    /\ UNCHANGED <<migrationVars, nats>>

(***************************************************************************)
(* dispatch() fails after the claim: published or not, the row is          *)
(* released, or it stays under its lease (finish() failed, or the reply to *)
(* the claim was lost), or it is acknowledged and that reply is lost.      *)
(***************************************************************************)
DispatchFails(p, e) ==
    /\ At(p, "dispatch")
    /\ ~proc[p].stop
    /\ Claimable(e)
    /\ \/ /\ Published(p, e)
          /\ outbox' \in {[Swept EXCEPT ![e] = after] :
                            after \in {Acked(outbox[e]), Released(outbox[e]), Leased(outbox[e])}}
       \/ /\ UNCHANGED <<stream, mailbox>>
          /\ outbox' \in {[Swept EXCEPT ![e] = after] :
                            after \in {Released(outbox[e]), Leased(outbox[e])}}
    /\ Leave(p, "1")
    /\ UNCHANGED <<migrationVars, nats>>

\* transfer() gets no message.
TransferNothing(p) ==
    /\ At(p, "transfer")
    /\ ~proc[p].stop
    /\ Goto(p, "select")
    /\ UNCHANGED <<migrationVars, tables, nats>>

\* transfer() puts a message into the mailbox; when its acknowledgement, or
\* the reply to it, is lost, the process leaves.
Transfer(p, e) ==
    /\ At(p, "transfer")
    /\ ~proc[p].stop
    /\ stream[e] = "stored"
    /\ \A q \in Runners : proc[q].held # e
    /\ mailbox' = [mailbox EXCEPT ![e] = IF @ = "none" THEN "pending" ELSE @]
    /\ \/ stream' = [stream EXCEPT ![e] = "acked"] /\ Goto(p, "select")
       \/ stream' = [stream EXCEPT ![e] = "acked"] /\ Leave(p, "1")
       \/ UNCHANGED stream /\ Leave(p, "1")
    /\ UNCHANGED <<migrationVars, outbox, nats>>

\* consume() selects and locks a row, whoever recorded the event; it is
\* called without the signal.
Select(p, e) ==
    /\ At(p, "select")
    /\ mailbox[e] = "pending"
    /\ \A q \in Runners : proc[q].held # e
    /\ proc' = [proc EXCEPT ![p].pc = "consume", ![p].held = e]
    /\ UNCHANGED <<migrationVars, tables, nats>>

\* Mutant: it dispatches again, in the same round.
SelectNothing_SameRound(p) ==
    /\ At(p, "select")
    /\ \A e \in Runners : mailbox[e] = "pending" => \E q \in Runners : proc[q].held = e
    /\ Goto(p, "dispatch")
    /\ UNCHANGED <<migrationVars, tables, nats>>

\* consume() finds no row; after 100 milliseconds comes the next round.
SelectNothing(p) ==
    /\ At(p, "select")
    /\ \A e \in Runners : mailbox[e] = "pending" => \E q \in Runners : proc[q].held = e
    /\ Goto(p, "loop")
    /\ UNCHANGED <<migrationVars, tables, nats>>

Processed(p) == mailbox' = [mailbox EXCEPT ![proc[p].held] = "processed"]

\* Mutant: any event ends the loop.
Consume_Any(p) ==
    /\ At(p, "consume")
    /\ Processed(p)
    /\ Leave(p, "0")
    /\ UNCHANGED <<migrationVars, outbox, stream, nats>>

\* The commit of consume(); the process's own event ends the loop.
Consume(p) ==
    /\ At(p, "consume")
    /\ Processed(p)
    /\ IF proc[p].held = p THEN Leave(p, "0")
       ELSE proc' = [proc EXCEPT ![p].pc = "loop", ![p].held = NoRunner]
    /\ UNCHANGED <<migrationVars, outbox, stream, nats>>

\* The transaction commits, but consume() is told that it is uncertain.
ConsumeReplyLost(p) ==
    /\ At(p, "consume")
    /\ Processed(p)
    /\ Leave(p, "1")
    /\ UNCHANGED <<migrationVars, outbox, stream, nats>>

-----------------------------------------------------------------------------
\* What may throw here without having changed anything: a failed call, a
\* refused configuration, the signal, the spent budget.
MayThrow(p) ==
    \/ proc[p].pc \in {"connect", "stream_info", "stream_create", "consumer_info",
                       "consumer_create", "open_database", "enqueue", "dispatch",
                       "transfer", "select", "consume"}
    \/ At(p, "migrate") /\ run[p].pc \in {"invalid", "drift", "failed", "uncertain"}
    \/ At(p, "loop") \* the round, the ten seconds or the signal

Throws(p) ==
    /\ MayThrow(p)
    /\ Leave(p, "1")
    /\ UNCHANGED <<migrationVars, tables, nats>>

\* The finally clause: broker, database and log are closed, in this order.
CloseAll(p) ==
    /\ At(p, "closing")
    /\ proc' = [proc EXCEPT ![p] = Exited(@.status)]
    /\ Restart(p, <<>>)
    /\ UNCHANGED <<tables, nats>>

ProcessStep(p) ==
    \/ Refused(p)
    \/ \E l \in Lists : Load(p, l)
    \/ ConnectBroker(p)
    \/ Info(p)
    \/ Create(p)
    \/ CreateReplyLost(p)
    \/ OpenDatabase(p)
    \/ Migrate(p)
    \/ Migrated(p)
    \/ Enqueue(p)
    \/ EnqueueReplyLost(p)
    \/ Round(p)
    \/ DispatchNothing(p)
    \/ \E e \in Runners : DispatchSends(p, e) \/ DispatchFails(p, e)
    \/ TransferNothing(p)
    \/ \E e \in Runners : Transfer(p, e) \/ Select(p, e)
    \/ SelectNothing(p)
    \/ Consume(p)
    \/ ConsumeReplyLost(p)
    \/ Throws(p)
    \/ CloseAll(p)

\* SIGTERM or SIGINT.
StopSignal(p) ==
    /\ proc[p].pc \notin {"closing", "exited"}
    /\ ~proc[p].stop
    /\ proc' = [proc EXCEPT ![p].stop = TRUE]
    /\ UNCHANGED <<migrationVars, tables, nats>>

\* The process dies: the server ends its transaction, the operating system
\* closes its connections.
Killed(p) ==
    /\ ~At(p, "exited")
    /\ proc' = [proc EXCEPT ![p] = Exited("killed")]
    /\ Die(p)
    /\ UNCHANGED <<tables, nats>>

\* A process that recorded nothing is started again.
Relaunch(p) ==
    /\ At(p, "exited")
    /\ outbox[p].state = "none"
    /\ proc' = [proc EXCEPT ![p] = NewProcess]
    /\ UNCHANGED <<migrationVars, tables, nats>>

\* A lease expires, or the delay after a release ends.
TimePasses(e) ==
    /\ outbox[e].hold # "no"
    /\ outbox' = [outbox EXCEPT ![e].hold = "no"]
    /\ UNCHANGED <<migrationVars, proc, stream, mailbox, nats>>

ProcessNext ==
    \/ \E p \in Runners :
         ProcessStep(p) \/ StopSignal(p) \/ Killed(p) \/ Relaunch(p) \/ TimePasses(p)
    \/ \E thing \in {"stream", "consumer"} : ForeignCreate(thing)

(***************************************************************************)
(* Every call of a process has a deadline, so it is answered.  The release *)
(* of the advisory lock by one process lets another one go on.             *)
(***************************************************************************)
ProcessSpec ==
    /\ ProcessInit
    /\ [][ProcessNext]_processVars
    /\ \A p \in Runners : WF_processVars(ProcessStep(p))

-----------------------------------------------------------------------------
Working == {"enqueue", "loop", "dispatch", "transfer", "select", "consume"}

(***************************************************************************)
(* The exit status is what verify_infrastructure.py and verify_jetstream.py*)
(* read.  Status 0 is only left by a process whose own event was consumed  *)
(* in a committed transaction, whoever else consumed, and 2 only by one    *)
(* that recorded nothing.                                                  *)
(***************************************************************************)
ExitStatusIsTrue ==
    \A p \in Runners :
        /\ proc[p].status = "0" => mailbox[p] = "processed"
        /\ proc[p].status = "2" => outbox[p].state = "none"

(***************************************************************************)
(* A recorded event is never lost between the tables, whichever process    *)
(* dispatches, transfers or consumes it, fails, is stopped or killed: sent *)
(* means stored by the transport, acknowledged to the stream means in the  *)
(* mailbox, dead means that every attempt was used.                        *)
(***************************************************************************)
RecordedIsKept ==
    \A e \in Runners :
        /\ outbox[e].state = "sent" => stream[e] # "none" \/ mailbox[e] # "none"
        /\ stream[e] = "acked" => mailbox[e] # "none"
        /\ outbox[e].state = "dead" => outbox[e].attempts = MaxAttempts
        /\ stream[e] # "none" \/ mailbox[e] # "none" => outbox[e].attempts > 0

(***************************************************************************)
(* "Explicit resource ownership" (events.ts:37).  A process works on the   *)
(* tables only over a history that begins with its own migrations and,     *)
(* with JetStream, over a stream and a consumer that have its              *)
(* configuration; a mailbox row is locked by one process, while it is      *)
(* pending; a process that leaves holds neither a row nor the lock.        *)
(***************************************************************************)
ResourcesAreOwned ==
    \A p \in Runners :
        /\ proc[p].pc \in Working =>
             /\ IsPrefix(run[p].list, ledger)
             /\ p \in Jetstream => nats["stream"] = "ours" /\ nats["consumer"] = "ours"
        /\ proc[p].held # NoRunner =>
             /\ mailbox[proc[p].held] = "pending"
             /\ \A q \in Runners : proc[q].held = proc[p].held => q = p
        /\ proc[p].held # NoRunner => At(p, "consume")
        /\ lock = p => At(p, "migrate")

(***************************************************************************)
(* The diagnostic is finite: every process exits, although transports      *)
(* fail, others consume its event, others hold the advisory lock and       *)
(* nobody is ever told.                                                    *)
(***************************************************************************)
EveryProcessExits == \A p \in Runners : ~At(p, "exited") ~> At(p, "exited")

\* Places on the way: up to the end of migrate, and then within one round.
Starting == {"connect", "stream_info", "stream_create", "consumer_info", "consumer_create",
             "open_database", "migrate"}

Order == [connect |-> 6, stream_info |-> 5, stream_create |-> 4, consumer_info |-> 3,
          consumer_create |-> 2, open_database |-> 1, migrate |-> 0,
          enqueue |-> 5, dispatch |-> 4, transfer |-> 3, select |-> 2, consume |-> 1,
          loop |-> 0]

\* How many steps a runner still has in migrate(), at most.
MigrationLeft(x) ==
    CASE x.pc = "start" -> 2 * Len(x.list) + 4
      [] x.pc = "locked" -> 2 * Len(x.list) + 3
      [] x.pc = "apply" -> 2 * (Len(x.list) - x.next) + 4
      [] x.pc = "record" -> 2 * (Len(x.list) - x.next) + 3
      [] OTHER -> 0

\* The part of its life a process x is in, and how many steps that has left,
\* when y is its runner.
Stage(x) ==
    CASE x.pc = "load" -> 3
      [] x.pc \in Starting -> 2
      [] x.pc \in Working -> 1
      [] OTHER -> 0

StepsLeft(x, y) ==
    CASE x.pc \in Starting -> Order[x.pc] + MigrationLeft(y)
      [] x.pc \in Working -> 5 * (MaxRounds - x.round) + Order[x.pc]
      [] x.pc = "closing" -> 1
      [] OTHER -> 0

\* Process p is closer to its exit after this step.
Closer(p) ==
    /\ 0 <= StepsLeft(proc'[p], run'[p])
    /\ \/ Stage(proc'[p]) < Stage(proc[p])
       \/ /\ Stage(proc'[p]) = Stage(proc[p])
          /\ StepsLeft(proc'[p], run'[p]) < StepsLeft(proc[p], run[p])

(***************************************************************************)
(* Why runEvents is finite, however its calls end and interleave: each     *)
(* step of a process brings it closer to its exit, and none, its own or    *)
(* another's, takes it back, whatever was lost, refused or consumed by     *)
(* others.  Only a process that recorded nothing is launched again.        *)
(***************************************************************************)
EveryStepIsProgress ==
    [][\A p \in Runners :
         \/ proc'[p].pc = proc[p].pc /\ run'[p] = run[p]
         \/ Closer(p)
         \/ proc[p].pc = "exited" /\ proc'[p].pc = "load" /\ outbox[p].state = "none"]_processVars
=============================================================================
