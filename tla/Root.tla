-------------------------------- MODULE Root --------------------------------
(***************************************************************************)
(* The HTTP process of root/http.ts: startHTTP opens the resources one by   *)
(* one and listens, close() takes them down in order under one budget that   *)
(* all its steps share.  Requests, their handlers and WebSocket sessions are  *)
(* the users of the resources (modules HttpServer and WsServer have their      *)
(* inside); here only whether they are still there counts.  The handler of     *)
(* /readyz asks the readiness gate (module Gate), whose only check pings the    *)
(* database.  The budget may run out during any step of the shutdown; peers,    *)
(* handlers and pings may hang.                                                *)
(***************************************************************************)
EXTENDS Gate, Telemetry

CONSTANTS
    Requests,    \* HTTP requests, one connection each
    Sessions,    \* WebSocket connections
    Callers      \* callers of close()

ASSUME ProbesAssumption == Probes \subseteq Requests /\ MaxChecks > 0

VARIABLES
    settings,    \* what the environment says of telemetry, database, outbound
    stage,       \* how far startHTTP or close() has come
    open,        \* the resources that are open
    conns,       \* requests and sessions whose connection is open
    handlers,    \* requests whose handler promise is in Server.#workers
    served,      \* requests and sessions that have connected
    forced,      \* whose connection was destroyed when the budget ran out
    budget,      \* "left" or "spent": remaining() of close()
    caller       \* each caller of close(): "new", "waiting" or "done"

vars == <<settings, stage, open, conns, handlers, served, forced, budget, caller,
          gate, checks, busy, probe, work, providers, failed, flushed>>

Resources == {"log", "telemetry", "database", "outbound", "app", "listener"}

Undoing == {"undo_database", "undo_telemetry", "undo_log", "undo_app"}

Stages == {"config", "database", "outbound", "app", "listen", "serving",
           "sockets", "http", "drain", "close_database", "close_telemetry",
           "close_log", "close_app", "closed", "failed", "threw"} \cup Undoing

Shutdown == {"sockets", "http", "drain", "close_database", "close_telemetry",
             "close_log", "close_app"}

(* The process is at one of its stages with known resources, and only what  *)
(* has connected can have a connection or a handler.                        *)
TypeOK ==
    /\ GateTypeOK
    /\ TelemetryTypeOK
    /\ settings \in [config : {"good", "bad"}, telemetry : {"none", "otlp"}, database : {"none", "good", "bad"},
                     outbound : {"none", "good", "bad"}]
    /\ stage \in Stages
    /\ open \subseteq Resources
    /\ served \subseteq Requests \cup Sessions
    /\ conns \subseteq served
    /\ handlers \subseteq served \cap Requests
    /\ forced \subseteq served
    /\ budget \in {"left", "spent"}
    /\ caller \in [Callers -> {"new", "waiting", "done"}]

Init ==
    /\ GateInit
    /\ TelemetryInit
    /\ settings \in [config : {"good", "bad"}, telemetry : {"none", "otlp"}, database : {"none", "good", "bad"},
                     outbound : {"none", "good", "bad"}]
    /\ stage = "config"
    /\ open = {}
    /\ conns = {} /\ handlers = {} /\ served = {} /\ forced = {}
    /\ budget = "left"
    /\ caller = [c \in Callers |-> "new"]

traffic == <<conns, handlers, served, forced>>

----------------------------------------------------------------------------
(* A step of startHTTP: the next stage and what is open then *)
Reach(s, resources) ==
    /\ stage' = s
    /\ open' = resources
    /\ UNCHANGED <<settings, budget, caller>> /\ UNCHANGED traffic

(* loadHTTPConfig, then logger, telemetry and observer; a context manager    *)
(* that somebody else owns ends the start                                    *)
Configure ==
    /\ stage = "config"
    /\ \/ /\ settings.config = "bad"
          /\ Reach("failed", {}) /\ UNCHANGED telemetryVars
       \/ /\ settings.config = "good"
          /\ Reach("database", {"log", "telemetry"}) /\ NewRuntime(settings.telemetry)
       \/ /\ settings.config = "good" /\ settings.telemetry = "otlp"
          /\ Reach("threw", {"log", "telemetry"}) /\ NewRuntime("otlp")
    /\ UNCHANGED gateVars

(* Database.open validates its settings and pings; when it fails observer,   *)
(* telemetry and log are closed.  The gate is given a ping as its only check *)
OpenDatabase ==
    /\ stage = "database"
    /\ \/ settings.database = "none" /\ Reach("outbound", open) /\ Construct(0)
       \/ settings.database = "good" /\ Reach("outbound", open \cup {"database"}) /\ Construct(1)
       \/ settings.database # "none" /\ Reach("undo_telemetry", open) /\ UNCHANGED gateVars
    /\ UNCHANGED telemetryVars

(* NativeClient.create validates OUTBOUND_ORIGIN; value() throws its refusal *)
CreateOutbound ==
    /\ stage = "outbound"
    /\ CASE settings.outbound = "none" -> Reach("app", open)
         [] settings.outbound = "good" -> Reach("app", open \cup {"outbound"})
         [] settings.outbound = "bad"  -> Reach("threw", open)
    /\ UNCHANGED <<gateVars, telemetryVars>>

(* The Nest application is created and initialised, or throws *)
CreateApp ==
    /\ stage = "app"
    /\ Reach("listen", open \cup {"app"}) \/ Reach("threw", open)
    /\ UNCHANGED <<gateVars, telemetryVars>>

(* server.listen: the gate starts once it is bound *)
Listen ==
    /\ stage = "listen"
    /\ Reach("serving", open \cup {"listener"})
    /\ StartGate
    /\ UNCHANGED telemetryVars

(* server.listen fails: what was opened is closed step by step *)
ListenFails ==
    /\ stage = "listen"
    /\ Reach("undo_database", open)
    /\ UNCHANGED <<gateVars, telemetryVars>>

\* Mutant: the outbound client is forgotten.
UndoDatabase_OnlyDatabase ==
    /\ stage = "undo_database"
    /\ Reach("undo_telemetry", open \ {"database"})
    /\ UNCHANGED <<gateVars, telemetryVars>>

UndoDatabase ==
    /\ stage = "undo_database"
    /\ Reach("undo_telemetry", open \ {"database", "outbound"})
    /\ UNCHANGED <<gateVars, telemetryVars>>

UndoTelemetry ==
    /\ stage = "undo_telemetry"
    /\ flushed \notin {"none", "waiting"}
    /\ Reach("undo_log", open \ {"telemetry"})
    /\ UNCHANGED <<gateVars, telemetryVars>>

UndoLog ==
    /\ stage = "undo_log"
    /\ Reach(IF "app" \in open THEN "undo_app" ELSE "failed", open \ {"log"})
    /\ UNCHANGED <<gateVars, telemetryVars>>

UndoApp ==
    /\ stage = "undo_app"
    /\ Reach("failed", open \ {"app"})
    /\ UNCHANGED <<gateVars, telemetryVars>>

(* telemetry.close(), called by close() and by a start that is undone: its   *)
(* timer is the rest of the budget, or the whole of it                       *)
TelemetryStep ==
    /\ stage \in {"close_telemetry", "undo_telemetry"}
    /\ \/ CloseRuntime
       \/ ShutdownsSettled
       \/ (stage = "undo_telemetry" \/ budget = "spent") /\ FlushTimesOut
    /\ UNCHANGED <<settings, stage, open, budget, caller, gateVars, traffic>>

(* What the SDK does *)
ProviderStep(x) ==
    /\ \/ ExportFails(x)
       \/ \E how \in {"down", "rejected"} : ShutdownSettles(x, how)
    /\ UNCHANGED <<settings, stage, open, budget, caller, gateVars, traffic>>

----------------------------------------------------------------------------
(* Requests come over new connections while the server listens, and over the *)
(* kept-alive connection of another request until that is gone or destroyed  *)
Reachable ==
    \/ "listener" \in open
    \/ stage \in {"sockets", "http"} /\ ~(conns \cap Requests \subseteq forced)

(* A request arrives; its handler runs until it settles, which may be after  *)
(* its connection is gone                                                    *)
RequestArrives(r) ==
    /\ Reachable
    /\ r \notin served
    /\ served' = served \cup {r}
    /\ conns' = conns \cup {r}
    /\ handlers' = handlers \cup {r}
    /\ UNCHANGED <<settings, stage, open, forced, budget, caller, gateVars, telemetryVars>>

(* server.on('upgrade') hands the connection to the socket server *)
SessionOpens(s) ==
    /\ "listener" \in open
    /\ s \notin served
    /\ served' = served \cup {s}
    /\ conns' = conns \cup {s}
    /\ UNCHANGED <<settings, stage, open, handlers, forced, budget, caller, gateVars, telemetryVars>>

(* The caller's signal of a probe, if it still matters *)
SignalAborts(p) ==
    IF probe[p].pc \in {"new", "waiting"} /\ ~probe[p].canceled
    THEN CallerCancels(p)
    ELSE UNCHANGED gateVars

(* The response was sent, the peer left, or a socket was destroyed; a        *)
(* handler that still runs has its signal aborted                            *)
ConnectionEnds(x) ==
    /\ x \in conns
    /\ conns' = conns \ {x}
    /\ IF x \in handlers \cap Probes THEN SignalAborts(x) ELSE UNCHANGED gateVars
    /\ UNCHANGED <<settings, stage, open, handlers, served, forced, budget, caller, telemetryVars>>

(* Any handler may hang; that of /readyz settles when the gate has answered *)
HandlerSettles(r) ==
    /\ r \in handlers
    /\ r \in Probes => probe[r].pc \in {"ready", "not_ready"}
    /\ handlers' = handlers \ {r}
    /\ UNCHANGED <<settings, stage, open, conns, served, forced, budget, caller,
                   gateVars, telemetryVars>>

(* The handler of /readyz in the gate *)
ReadyzStep(p) ==
    /\ p \in handlers
    /\ ProbeRefused(p) \/ Evaluate(p) \/ ProbeTimesOut(p) \/ Answer(p)
    /\ UNCHANGED <<settings, stage, open, budget, caller, traffic, telemetryVars>>

(* The deadline of the request aborts the signal of its handler *)
RequestDeadline(p) ==
    /\ p \in handlers
    /\ CallerCancels(p)
    /\ UNCHANGED <<settings, stage, open, budget, caller, traffic, telemetryVars>>

(* The ping of an evaluation, which may outlive the handler it was started   *)
(* for; only an open database answers it                                     *)
PingSettles(p) ==
    /\ \/ CheckPasses(p) /\ "database" \in open
       \/ CheckRefuses(p)
    /\ UNCHANGED <<settings, stage, open, budget, caller, traffic, telemetryVars>>

----------------------------------------------------------------------------
\* Mutant: close() forgets that it was called.
CloseCalled_Again(c) ==
    /\ caller[c] = "new"
    /\ stage \in {"serving", "closed"} \cup Shutdown
    /\ caller' = [caller EXCEPT ![c] = "waiting"]
    /\ stage' = "sockets"
    /\ DrainGate
    /\ open' = open \ {"listener"}
    /\ UNCHANGED <<settings, budget, traffic, telemetryVars>>

(* close(): the first call drains the gate, stops accepting connections and  *)
(* begins to close the sockets; later calls get the same promise             *)
CloseCalled(c) ==
    /\ caller[c] = "new"
    /\ stage \in {"serving", "closed"} \cup Shutdown
    /\ caller' = [caller EXCEPT ![c] = IF stage = "closed" THEN "done" ELSE "waiting"]
    /\ IF stage = "serving"
       THEN /\ stage' = "sockets"
            /\ DrainGate
            /\ open' = open \ {"listener"}
       ELSE UNCHANGED <<stage, open, gateVars>>
    /\ UNCHANGED <<settings, budget, traffic, telemetryVars>>

(* The budget of close() runs out; all its steps share it *)
BudgetEnds ==
    /\ stage \in Shutdown
    /\ budget = "left"
    /\ budget' = "spent"
    /\ UNCHANGED <<settings, stage, open, caller, traffic, gateVars, telemetryVars>>

(* A step of close(): the next stage, what it closed, what it forced *)
Advance(from, to, resources) ==
    /\ stage = from
    /\ stage' = to
    /\ open' = open \ resources
    /\ UNCHANGED <<settings, conns, handlers, served, budget, gateVars, telemetryVars>>

(* sockets.close(remaining()): every session ended, or the rest is terminated *)
SocketsClosed ==
    /\ conns \cap Sessions = {} \/ budget = "spent"
    /\ forced' = conns \cap Sessions
    /\ Advance("sockets", "http", {})
    /\ UNCHANGED caller


(* The timer: closeAllConnections destroys the connections of requests *)
CloseAllConnections ==
    /\ stage = "http"
    /\ budget = "spent"
    /\ ~(conns \cap Requests \subseteq forced)
    /\ forced' = forced \cup (conns \cap Requests)
    /\ UNCHANGED <<settings, stage, open, conns, handlers, served, budget, caller,
                   gateVars, telemetryVars>>

(* server.close() calls back when the last connection has ended *)
HttpClosed ==
    /\ conns = {}
    /\ Advance("http", "drain", {})
    /\ UNCHANGED <<forced, caller>>

\* Mutant: the handlers are not waited for.
Drained_AtOnce ==
    /\ Advance("drain", IF "database" \in open THEN "close_database" ELSE "close_telemetry",
               {"outbound"})
    /\ UNCHANGED <<forced, caller>>

(* adapter.drain(remaining()), then the outbound client closes *)
Drained ==
    /\ handlers = {} \/ budget = "spent"
    /\ Advance("drain", IF "database" \in open THEN "close_database" ELSE "close_telemetry",
               {"outbound"})
    /\ UNCHANGED <<forced, caller>>

(* Each of these is bounded by remaining() and goes on whatever its result *)
DatabaseClosed == Advance("close_database", "close_telemetry", {"database"}) /\ UNCHANGED <<forced, caller>>
TelemetryClosed ==
    /\ flushed \notin {"none", "waiting"}
    /\ Advance("close_telemetry", "close_log", {"telemetry"})
    /\ UNCHANGED <<forced, caller>>
LogClosed == Advance("close_log", "close_app", {"log"}) /\ UNCHANGED <<forced, caller>>

(* app.close(), and the promise all callers hold resolves *)
AppClosed ==
    /\ Advance("close_app", "closed", {"app"})
    /\ caller' = [c \in Callers |-> IF caller[c] = "waiting" THEN "done" ELSE caller[c]]
    /\ UNCHANGED forced

Start == Configure \/ OpenDatabase \/ CreateOutbound \/ CreateApp \/ Listen \/ ListenFails

Undo == UndoDatabase \/ UndoTelemetry \/ UndoLog \/ UndoApp

Stop == \/ SocketsClosed \/ CloseAllConnections \/ HttpClosed \/ Drained
        \/ DatabaseClosed \/ TelemetryClosed \/ LogClosed \/ AppClosed

Next ==
    \/ Start
    \/ Undo
    \/ TelemetryStep
    \/ \E x \in Providers : ProviderStep(x)
    \/ \E r \in Requests : RequestArrives(r) \/ HandlerSettles(r)
    \/ \E s \in Sessions : SessionOpens(s)
    \/ \E x \in Requests \cup Sessions : ConnectionEnds(x)
    \/ \E p \in Probes : ReadyzStep(p) \/ RequestDeadline(p) \/ PingSettles(p)
    \/ \E c \in Callers : CloseCalled(c)
    \/ BudgetEnds
    \/ Stop

Spec == Init /\ [][Next]_vars

(* The timers of the gate, of the telemetry runtime and of close() fire,     *)
(* continuations run and a destroyed connection ends.  Nothing is assumed of  *)
(* peers, handlers, pings, exporters and the deadlines of requests.           *)
FairSpec ==
    /\ Spec
    /\ WF_vars(BudgetEnds)
    /\ WF_vars(Stop)
    /\ WF_vars(Undo)
    /\ WF_vars(TelemetryStep)
    /\ \A x \in Requests \cup Sessions : WF_vars(x \in forced /\ ConnectionEnds(x))
    /\ \A p \in Probes : WF_vars(ReadyzStep(p))

----------------------------------------------------------------------------
(* Contracts D02 and T11: the owners are drained before what they use is     *)
(* closed.  While a request, a session or a handler is still there, the       *)
(* database, the telemetry and the log are open, unless the shutdown budget   *)
(* is spent; and even then no connection is left when they close.  (Of every   *)
(* well-typed state.)                                                         *)
UsersBeforeResources ==
    /\ TypeOK
    /\ stage \in {"serving"} \cup Shutdown =>
        /\ conns # {} => {"log", "telemetry"} \subseteq open /\ stage \in {"serving", "sockets", "http"}
        /\ handlers # {} /\ budget = "left" =>
             /\ {"log", "telemetry"} \subseteq open
             /\ settings.database = "good" => "database" \in open

(* /readyz says ready only in a process that serves: the listener and what    *)
(* the routes need are open, close() was not called while the ping was under   *)
(* way, and the probe's own check passed within its budget (health contract     *)
(* H01, H02).                                                                  *)
ReadyIsTrue ==
    [][\A p \in Probes : probe[p].pc # "ready" /\ probe'[p].pc = "ready" =>
         /\ stage = "serving"
         /\ {"log", "telemetry", "app", "listener"} \subseteq open
         /\ settings.database = "good" => "database" \in open /\ work[p].passed = 1
         /\ ~probe[p].stopped]_vars

(* close() runs once, however many callers it has: no step is repeated or    *)
(* skipped, so what is closed stays closed, and its callers are told done     *)
(* when everything is closed, and not before.                                 *)
CloseRunsOnce ==
    [][/\ stage \in Shutdown \cup {"closed"} => open' \subseteq open /\ gate' = "draining"
       /\ stage = "closed" => stage' = "closed"
       /\ \A c \in Callers :
            /\ caller'[c] = "done" => open' = {}
            /\ stage' = "closed" => caller'[c] # "waiting"]_vars

(* A start that fails in a way startHTTP handles (settings, a database that  *)
(* does not answer, a port that is taken) leaves nothing open, the telemetry  *)
(* flushed or timed out.  A start that throws past its cleanup (a refused      *)
(* OUTBOUND_ORIGIN, a context manager owned by somebody else, Nest) at least    *)
(* never listens and is never ready; nothing refused is ever served with.      *)
StartIsUndone ==
    /\ stage = "failed" =>
         /\ open = {} /\ gate = "starting"
         /\ settings.config = "good" => flushed \notin {"none", "waiting"}
    /\ stage = "threw" => "listener" \notin open /\ gate = "starting"
    /\ stage \in {"serving", "closed"} \cup Shutdown =>
         "bad" \notin {settings.config, settings.database, settings.outbound}

============================================================================
