------------------------------ MODULE WsServer ------------------------------
(***************************************************************************)
(* The WebSocket endpoint of shared/socket/ws/server.ts: admission under a    *)
(* connection limit, one application message at a time, a heartbeat, a        *)
(* message deadline, cleanup after the pending message, and a shutdown that    *)
(* drains under a budget.  An action is one event callback or the code         *)
(* between two awaits; the ws library, the peer and the session handler act    *)
(* in any order.                                                              *)
(***************************************************************************)
EXTENDS Integers, FiniteSets

CONSTANTS
    Connections,       \* upgrade requests
    MaxConnections     \* 64 in the code

ASSUME MaxConnectionsAssumption == MaxConnections \in Nat \ {0}

VARIABLES
    conn,       \* per connection: the socket and the locals of accept
    handlers,   \* per connection: session.handle calls that have not settled
    active,     \* Server.#active
    closed,     \* Server.#closed
    shutdown,   \* Server.close: "none", "waiting", "drained" or "forced"
    entries     \* the snapshot of #active Server.close waits for

socketVars == <<conn, handlers, active, closed, shutdown, entries>>

(* ws: "new", "refused", "open", "closing" (close frame sent), "terminated"   *)
(*     (socket destroyed, close event to come) or "closed" (event delivered)   *)
(* pending: "none", "handling" (in session.handle) or "sending" (in ws.send)   *)
(* aborted: the message's operation signal; closes: calls of session.close     *)
Connection == [ws : {"new", "refused", "open", "closing", "terminated", "closed"},
               closing : BOOLEAN, pong : BOOLEAN, aborted : BOOLEAN,
               pending : {"none", "handling", "sending"},
               session : {"none", "open", "closed"}]

(* Sockets and sessions keep to their states, and the endpoint never holds   *)
(* more admitted connections than its limit, those still finishing included. *)
SocketTypeOK ==
    /\ conn \in [Connections -> Connection]
    /\ handlers \in [Connections -> Nat]
    /\ active \subseteq Connections /\ Cardinality(active) <= MaxConnections
    /\ closed \in BOOLEAN
    /\ shutdown \in {"none", "waiting", "drained", "forced"}
    /\ entries \subseteq Connections

SocketInit ==
    /\ conn = [c \in Connections |->
                 [ws |-> "new", closing |-> FALSE, pong |-> TRUE, aborted |-> FALSE,
                  pending |-> "none", session |-> "none"]]
    /\ handlers = [c \in Connections |-> 0]
    /\ active = {}
    /\ closed = FALSE
    /\ shutdown = "none"
    /\ entries = {}

----------------------------------------------------------------------------
Refuses == closed \/ Cardinality(active) >= MaxConnections

(* 403 for a wrong origin or protocol, 503 when closed or full, and a session *)
(* that does not open terminates the socket                                   *)
UpgradeRefused(c) ==
    /\ conn[c].ws = "new"
    /\ conn' = [conn EXCEPT ![c].ws = "refused"]
    /\ UNCHANGED <<handlers, active, closed, shutdown, entries>>

UpgradeAccepted(c) ==
    /\ conn[c].ws = "new"
    /\ ~Refuses
    /\ conn' = [conn EXCEPT ![c].ws = "open", ![c].session = "open"]
    /\ active' = active \cup {c}
    /\ UNCHANGED <<handlers, closed, shutdown, entries>>

----------------------------------------------------------------------------
(* ws.close(code): the close frame goes out once, the event comes later *)
SendClose(x) == [x EXCEPT !.ws = IF @ = "open" THEN "closing" ELSE @]
(* ws.terminate: the socket is destroyed *)
Terminate(x) == [x EXCEPT !.ws = IF @ \in {"open", "closing"} THEN "terminated" ELSE @]

CloseWith(x) == SendClose([x EXCEPT !.closing = TRUE])

(* ws delivers messages until the socket is gone, after our own close frame too *)
Receives(c) == conn[c].ws \in {"open", "closing"} /\ ~conn[c].closing

\* Mutant: pending is set only when the reply is sent.
Overlaps_OnlySending(c) == conn[c].pending = "sending"

Overlaps(c) == conn[c].pending # "none"

(* 1013 while a message runs; 1003 or 1008 for a frame that does not decode *)
MessageRefused(c) ==
    /\ Receives(c)
    /\ conn' = [conn EXCEPT ![c] = CloseWith(@)]
    /\ UNCHANGED <<handlers, active, closed, shutdown, entries>>

MessageAccepted(c) ==
    /\ Receives(c)
    /\ ~Overlaps(c)
    /\ conn' = [conn EXCEPT ![c].pending = "handling", ![c].aborted = FALSE]
    /\ handlers' = [handlers EXCEPT ![c] = @ + 1]
    /\ UNCHANGED <<active, closed, shutdown, entries>>

(* session.handle resolves: nothing is sent once aborted or closing, a       *)
(* failure or a reply that does not encode closes 1011, else ws.send starts  *)
MessageSettles(c) ==
    /\ handlers[c] > 0
    /\ handlers' = [handlers EXCEPT ![c] = @ - 1]
    /\ IF conn[c].aborted \/ conn[c].closing
       THEN conn' = [conn EXCEPT ![c].pending = "none"]
       ELSE \/ conn' = [conn EXCEPT ![c].pending = "sending"]
            \/ conn' = [conn EXCEPT ![c] = CloseWith([@ EXCEPT !.pending = "none"])]
    /\ UNCHANGED <<active, closed, shutdown, entries>>

(* session.handle throws: the catch block closes 1011 *)
HandlerThrows(c) ==
    /\ handlers[c] > 0
    /\ handlers' = [handlers EXCEPT ![c] = @ - 1]
    /\ conn' = [conn EXCEPT ![c] = CloseWith([@ EXCEPT !.pending = "none"])]
    /\ UNCHANGED <<active, closed, shutdown, entries>>

(* The callback of ws.send: a write already accepted may still complete after *)
(* our close frame, never on a destroyed socket                               *)
SendSettles(c, sent) ==
    /\ conn[c].pending = "sending"
    /\ sent => conn[c].ws \in {"open", "closing"}
    /\ conn' = [conn EXCEPT ![c] =
                  IF sent THEN [@ EXCEPT !.pending = "none"]
                  ELSE CloseWith([@ EXCEPT !.pending = "none"])]
    /\ UNCHANGED <<handlers, active, closed, shutdown, entries>>

(* The 1000 ms budget of handler and write *)
MessageTimer(c) ==
    /\ conn[c].pending # "none"
    /\ ~conn[c].aborted \/ conn[c].ws \in {"open", "closing"}
    /\ conn' = [conn EXCEPT ![c] = Terminate([@ EXCEPT !.aborted = TRUE])]
    /\ UNCHANGED <<handlers, active, closed, shutdown, entries>>

(* Every 15 s: no pong since the last ping terminates *)
Heartbeat(c) ==
    /\ conn[c].session = "open"
    /\ conn[c].ws \in {"open", "closing"}
    /\ conn' = [conn EXCEPT ![c] = IF @.pong THEN [@ EXCEPT !.pong = FALSE] ELSE Terminate(@)]
    /\ UNCHANGED <<handlers, active, closed, shutdown, entries>>

Pong(c) ==
    /\ conn[c].ws \in {"open", "closing"}
    /\ ~conn[c].pong
    /\ conn' = [conn EXCEPT ![c].pong = TRUE]
    /\ UNCHANGED <<handlers, active, closed, shutdown, entries>>

(* The close event, whoever ended the connection: the message is told to stop *)
SocketCloses(c) ==
    /\ conn[c].ws \in {"open", "closing", "terminated"}
    /\ conn' = [conn EXCEPT ![c].ws = "closed", ![c].closing = TRUE,
                            ![c].aborted = @ \/ conn[c].pending # "none"]
    /\ UNCHANGED <<handlers, active, closed, shutdown, entries>>

\* Mutant: cleanup does not await the pending message.
Cleanup_AtOnce(c) ==
    /\ conn[c].ws = "closed"
    /\ conn[c].session = "open"
    /\ conn' = [conn EXCEPT ![c].session = "closed"]
    /\ active' = active \ {c}
    /\ UNCHANGED <<handlers, closed, shutdown, entries>>

(* After the pending message: session.close, and the entry is released *)
Cleanup(c) ==
    /\ conn[c].ws = "closed"
    /\ conn[c].session = "open"
    /\ conn[c].pending = "none"
    /\ conn' = [conn EXCEPT ![c].session = "closed"]
    /\ active' = active \ {c}
    /\ UNCHANGED <<handlers, closed, shutdown, entries>>

----------------------------------------------------------------------------
(* Server.close: no more upgrades, and 1001 to every admitted connection *)
ServerClose ==
    /\ shutdown = "none"
    /\ shutdown' = "waiting"
    /\ closed' = TRUE
    /\ entries' = active
    /\ conn' = [c \in Connections |-> IF c \in active THEN SendClose(conn[c]) ELSE conn[c]]
    /\ UNCHANGED <<handlers, active>>

ServerDrained ==
    /\ shutdown = "waiting"
    /\ entries \cap active = {}
    /\ shutdown' = "drained"
    /\ UNCHANGED <<conn, handlers, active, closed, entries>>

\* Mutant: the sockets are not terminated.
ServerTimer_OnlyAborts ==
    /\ shutdown = "waiting"
    /\ shutdown' = "forced"
    /\ conn' = [c \in Connections |->
         IF c \in entries
         THEN [conn[c] EXCEPT !.aborted = @ \/ conn[c].pending # "none"]
         ELSE conn[c]]
    /\ UNCHANGED <<handlers, active, closed, entries>>

(* The budget ran out: the remaining sockets are destroyed *)
ServerTimer ==
    /\ shutdown = "waiting"
    /\ shutdown' = "forced"
    /\ conn' = [c \in Connections |->
         IF c \in entries
         THEN Terminate([conn[c] EXCEPT !.aborted = @ \/ conn[c].pending # "none"])
         ELSE conn[c]]
    /\ UNCHANGED <<handlers, active, closed, entries>>

SocketNext ==
    \/ \E c \in Connections :
         \/ UpgradeRefused(c) \/ UpgradeAccepted(c)
         \/ MessageRefused(c) \/ MessageAccepted(c)
         \/ MessageSettles(c) \/ HandlerThrows(c)
         \/ \E sent \in BOOLEAN : SendSettles(c, sent)
         \/ MessageTimer(c) \/ Heartbeat(c) \/ Pong(c)
         \/ SocketCloses(c) \/ Cleanup(c)
    \/ ServerClose \/ ServerDrained \/ ServerTimer

SocketSpec == SocketInit /\ [][SocketNext]_socketVars

(* Timers fire, a destroyed socket delivers its close event and fails its     *)
(* writes, continuations run, and a handler settles once its signal is        *)
(* aborted (CONTRACT.md W03).  Nothing is assumed of the peer.                *)
SocketFairness ==
    /\ \A c \in Connections :
         /\ WF_socketVars(MessageTimer(c))
         /\ WF_socketVars(conn[c].ws = "terminated" /\ SocketCloses(c))
         /\ WF_socketVars(conn[c].aborted /\ (MessageSettles(c) \/ HandlerThrows(c)))
         /\ WF_socketVars(conn[c].ws \in {"terminated", "closed"} /\ SendSettles(c, FALSE))
         /\ WF_socketVars(Cleanup(c))
    /\ WF_socketVars(ServerDrained \/ ServerTimer)

SocketFairSpec == SocketSpec /\ SocketFairness

----------------------------------------------------------------------------
(* Each connection runs at most one session.handle at a time, and the pending *)
(* promise is what says so: a second message is refused, not queued (W03).    *)
OneMessageAtATime == \A c \in Connections :
    handlers[c] = IF conn[c].pending = "handling" THEN 1 ELSE 0

(* Connections keep to their states whatever frames, timers and answers meet, *)
(* and none of them has two messages in hand.                                 *)
MessagesAreSound == SocketTypeOK /\ OneMessageAtATime

(* session.close runs after the last handler of the connection settled, and a *)
(* connection gives up its place only then: #active is the sessions that are   *)
(* open, work still finishing included (W01).                                 *)
CleanupIsLast == \A c \in Connections :
    /\ conn[c].session = "closed" => handlers[c] = 0 /\ conn[c].pending = "none"
    /\ c \in active <=> conn[c].session = "open"

(* close() answers true only when every session that was ever opened is       *)
(* closed: no upgrade slipped in behind the snapshot of #active.              *)
DrainedMeansNoSession ==
    shutdown = "drained" => \A c \in Connections : conn[c].session # "open"

(* Sessions are cleaned up once, behind their work, and counted until then,   *)
(* also by the shutdown that waits for them.                                  *)
SessionsAreSound == CleanupIsLast /\ DrainedMeansNoSession

(* Shutdown ends every session, although the peers may ignore close frames.  *)
ShutdownEndsSessions == closed ~> \A c \in Connections : conn[c].session # "open"
============================================================================
