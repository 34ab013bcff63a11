----------------------------- MODULE RootProofs -----------------------------
(***************************************************************************)
(* The HTTP process with its readiness gate and its telemetry, for any     *)
(* number of requests, probes, sessions, callers and providers.            *)
(***************************************************************************)
EXTENDS Root, TLAPS

\* At most one evaluation runs; it has a check to wait for; one that passed
\* has passed all of them; and nobody is asked before the gate starts.
GateOK ==
    /\ GateTypeOK
    /\ \A p, q \in Probes : work[p].pc = "running" /\ work[q].pc = "running" => p = q
    /\ \A p \in Probes : work[p].pc = "running" => work[p].passed < checks
    /\ \A p \in Probes : work[p].pc = "passed" => work[p].passed = checks
    /\ gate = "starting" => \A p \in Probes : probe[p].pc = "new" /\ work[p].pc = "none"

ItsDatabase == IF settings.database = "good" THEN {"database"} ELSE {}
ItsOutbound == IF settings.outbound = "good" THEN {"outbound"} ELSE {}

\* What is open at each stage.
Opened ==
    /\ stage = "config" => open = {}
    /\ stage = "database" => open = {"log", "telemetry"}
    /\ stage = "outbound" => open = {"log", "telemetry"} \cup ItsDatabase
    /\ stage = "app" => open = {"log", "telemetry"} \cup ItsDatabase \cup ItsOutbound
    /\ stage \in {"listen", "undo_database", "sockets", "http", "drain"} =>
          open = {"log", "telemetry", "app"} \cup ItsDatabase \cup ItsOutbound
    /\ stage = "serving" =>
          open = {"log", "telemetry", "app", "listener"} \cup ItsDatabase \cup ItsOutbound
    /\ stage = "close_database" => open = {"log", "telemetry", "app", "database"}
    /\ stage = "close_telemetry" => open = {"log", "telemetry", "app"}
    /\ stage = "close_log" => open = {"log", "app"}
    /\ stage = "close_app" => open = {"app"}
    /\ stage = "undo_telemetry" =>
          open \in {{"log", "telemetry"}, {"log", "telemetry", "app"}}
    /\ stage = "undo_log" => open \in {{"log"}, {"log", "app"}}
    /\ stage = "undo_app" => open = {"app"}
    /\ stage \in {"failed", "closed"} => open = {}
    /\ stage = "threw" => "listener" \notin open

Running == {"serving", "closed"} \cup Shutdown

\* Where the gate and the telemetry are, and what the settings were, at each
\* stage.
Staged ==
    /\ gate = (IF stage = "serving" THEN "serving"
               ELSE IF stage \in Running THEN "draining" ELSE "starting")
    /\ stage \notin {"config", "failed"} => settings.config = "good"
    /\ stage \in {"outbound", "app", "listen"} \cup Running =>
          /\ settings.database # "bad"
          /\ checks = IF settings.database = "good" THEN 1 ELSE 0
    /\ stage \in {"app", "listen"} \cup Running => settings.outbound # "bad"
    /\ stage \in {"undo_log", "undo_app", "close_log", "close_app", "closed"} =>
          flushed \notin {"none", "waiting"}
    /\ stage = "failed" /\ settings.config = "good" => flushed \notin {"none", "waiting"}

\* Who is still there at each stage.
Present ==
    /\ conns # {} => stage \in {"serving", "sockets", "http"}
    /\ handlers # {} => stage \in Running
    /\ handlers # {} /\ budget = "left" => stage \in {"serving", "sockets", "http", "drain"}
    /\ \A c \in Callers : /\ caller[c] = "done" => stage = "closed"
                          /\ stage = "closed" => caller[c] # "waiting"

RootInv == TypeOK /\ GateOK /\ Opened /\ Staged /\ Present

-----------------------------------------------------------------------------
(***************************************************************************)
(* An evaluation that moves to another point of its loop keeps the gate in *)
(* order, when no other one runs.                                          *)
(***************************************************************************)
LEMMA WorkKeeps ==
    ASSUME GateOK, NEW p \in Probes, NEW pc \in {"running", "passed", "refused"}, NEW n \in Nat,
           gate # "starting", UNCHANGED <<gate, checks>>,
           probe' \in [Probes -> Caller],
           \A q \in Probes : q # p => work[q].pc # "running",
           n <= checks, pc = "running" => n < checks, pc = "passed" => n = checks,
           WorkAt(p, pc, n)
    PROVE  GateOK'
<1>0. GateTypeOK /\ checks \in 0..MaxChecks /\ MaxChecks \in Nat
  BY MaxChecksAssumption DEF GateOK, GateTypeOK
<1> DEFINE e == [pc |-> pc, passed |-> n]
<1>1. e \in Evaluation /\ e.pc = pc /\ e.passed = n
  BY <1>0 DEF Evaluation
<1>2. work' = [work EXCEPT ![p] = e] /\ busy' = (pc = "running")
  BY DEF WorkAt
<1> HIDE DEF e
<1>3. /\ work' \in [Probes -> Evaluation]
      /\ work'[p] = e
      /\ \A q \in Probes : q # p => work'[q] = work[q]
  BY <1>0, <1>1, <1>2 DEF GateTypeOK
<1>4. busy' <=> \E q \in Probes : work'[q].pc = "running"
  BY <1>1, <1>2, <1>3
<1>5. GateTypeOK'
  BY <1>0, <1>2, <1>3, <1>4 DEF GateTypeOK
<1>6. \A q, s \in Probes : work'[q].pc = "running" /\ work'[s].pc = "running" => q = s
  BY <1>3
<1>7. \A q \in Probes : work'[q].pc = "running" => work'[q].passed < checks
  BY <1>1, <1>3 DEF GateOK
<1>8. \A q \in Probes : work'[q].pc = "passed" => work'[q].passed = checks
  BY <1>1, <1>3 DEF GateOK
<1> QED
  BY <1>5, <1>6, <1>7, <1>8 DEF GateOK

(***************************************************************************)
(* Every step of a probe and of its evaluation keeps the gate in order,    *)
(* and leaves its state and its checks alone.                              *)
(***************************************************************************)
LEMMA ProbeStep ==
    ASSUME GateOK, NEW p \in Probes, gate # "starting",
           \/ ProbeRefused(p) \/ Evaluate(p) \/ ProbeTimesOut(p) \/ Answer(p)
           \/ CheckPasses(p) \/ CheckRefuses(p) \/ CallerCancels(p)
    PROVE  GateOK' /\ UNCHANGED <<gate, checks>>
<1>0. /\ GateTypeOK /\ probe \in [Probes -> Caller] /\ work \in [Probes -> Evaluation]
      /\ checks \in Nat /\ MaxChecks \in Nat /\ checks <= MaxChecks
  BY MaxChecksAssumption DEF GateOK, GateTypeOK
<1>1. UNCHANGED <<gate, checks>>
  BY DEF ProbeRefused, Evaluate, ProbeTimesOut, Answer, CheckPasses, CheckRefuses, CallerCancels
<1>2. ASSUME UNCHANGED <<busy, work>>, probe' \in [Probes -> Caller] PROVE GateOK'
  BY <1>0, <1>1, <1>2 DEF GateOK, GateTypeOK
<1>3. probe[p] \in Caller /\ work[p] \in Evaluation /\ work[p].passed \in Nat
  BY <1>0 DEF Evaluation
<1>4. CASE ProbeRefused(p)
  BY <1>0, <1>2, <1>4 DEF ProbeRefused, Caller
<1>5. CASE ProbeTimesOut(p)
  BY <1>0, <1>2, <1>5 DEF ProbeTimesOut, Caller
<1>6. CASE Answer(p)
  BY <1>0, <1>2, <1>6 DEF Answer, Caller
<1>7. CASE CallerCancels(p)
  BY <1>0, <1>2, <1>7 DEF CallerCancels, Caller
<1>8. CASE Evaluate(p)
  <2>1. probe' \in [Probes -> Caller] /\ ~busy /\ WorkAt(p, Loop(0, FALSE), 0)
    BY <1>0, <1>8 DEF Evaluate, Caller
  <2>2. \A q \in Probes : work[q].pc # "running"
    BY <1>0, <2>1 DEF GateTypeOK
  <2>3. /\ Loop(0, FALSE) \in {"running", "passed", "refused"}
        /\ Loop(0, FALSE) = "running" => 0 < checks
        /\ Loop(0, FALSE) = "passed" => 0 = checks
    BY <1>0 DEF Loop
  <2>4. PICK pc \in {"running", "passed", "refused"} : pc = Loop(0, FALSE)
    BY <2>3
  <2>5. WorkAt(p, pc, 0) /\ 0 <= checks /\ 0 \in Nat
    BY <1>0, <2>1, <2>4 DEF WorkAt
  <2>6. (pc = "running" => 0 < checks) /\ (pc = "passed" => 0 = checks)
    BY <2>3, <2>4
  <2>7. GateOK'
    BY <1>1, <2>1, <2>2, <2>5, <2>6, WorkKeeps
  <2> QED
    BY <1>1, <2>7
<1>9. ASSUME work[p].pc = "running"
      PROVE  /\ \A q \in Probes : q # p => work[q].pc # "running"
             /\ work[p].passed < checks
  BY <1>9 DEF GateOK
<1>10. CASE CheckPasses(p)
  <2>1. PICK n \in Nat, pc \in {"running", "passed", "refused"} :
           /\ n = work[p].passed + 1
           /\ pc = Loop(work[p].passed + 1, probe[p].stopped)
    BY <1>3 DEF Loop
  <2>2. work[p].pc = "running" /\ WorkAt(p, pc, n) /\ probe' = probe
    BY <1>10, <2>1 DEF CheckPasses
  <2>3. n <= checks
    BY <1>0, <1>3, <1>9, <2>1, <2>2
  <2>4. (pc = "running" => n # checks) /\ (pc = "passed" => n = checks)
    BY <2>1 DEF Loop
  <2>5. pc = "running" => n < checks
    BY <1>0, <2>3, <2>4
  <2> QED
    BY <1>0, <1>1, <1>9, <2>2, <2>3, <2>4, <2>5, WorkKeeps
<1>11. CASE CheckRefuses(p)
  <2>1. PICK n \in Nat : n = work[p].passed
    BY <1>3
  <2>2. work[p].pc = "running" /\ WorkAt(p, "refused", n) /\ probe' = probe
    BY <1>11, <2>1 DEF CheckRefuses
  <2>3. n <= checks
    BY <1>0, <1>9, <2>1, <2>2
  <2> QED
    BY <1>0, <1>1, <1>9, <2>2, <2>3, WorkKeeps
<1> QED
  BY <1>1, <1>4, <1>5, <1>6, <1>7, <1>8, <1>10, <1>11

(***************************************************************************)
(* The process constructs the gate, starts it and drains it.               *)
(***************************************************************************)
LEMMA GateControl ==
    ASSUME GateOK,
           \/ gate = "starting" /\ \E n \in {0, 1} : Construct(n)
           \/ StartGate
           \/ DrainGate
           \/ UNCHANGED gateVars
    PROVE  GateOK'
<1>0. MaxChecks \in Nat
  BY MaxChecksAssumption
<1>1. CASE gate = "starting" /\ \E n \in {0, 1} : Construct(n)
  <2>1. /\ UNCHANGED <<gate, busy, probe, work>> /\ checks' \in 0..MaxChecks
        /\ \A p \in Probes : probe[p].pc = "new" /\ work[p].pc = "none"
    BY <1>0, <1>1 DEF Construct, GateOK
  <2> QED
    BY <2>1 DEF GateOK, GateTypeOK
<1>2. CASE StartGate \/ DrainGate \/ UNCHANGED gateVars
  <2>1. /\ UNCHANGED <<checks, busy, probe, work>>
        /\ gate' \in {"starting", "serving", "draining"}
        /\ gate' = "starting" => gate = "starting"
    BY <1>2 DEF StartGate, DrainGate, gateVars, GateOK, GateTypeOK
  <2> QED
    BY <2>1 DEF GateOK, GateTypeOK
<1> QED
  BY <1>1, <1>2

-----------------------------------------------------------------------------
Starting == {"config", "database", "outbound", "app", "listen"}

\* What the telemetry runtime may do.
TelemetryActs ==
    \/ UNCHANGED telemetryVars
    \/ \E mode \in {"none", "otlp"} : NewRuntime(mode)
    \/ CloseRuntime \/ ShutdownsSettled \/ FlushTimesOut
    \/ \E x \in Providers : \/ ExportFails(x)
                            \/ \E how \in {"down", "rejected"} : ShutdownSettles(x, how)

(***************************************************************************)
(* The runtime keeps to its states, and a result, once given, stays.       *)
(***************************************************************************)
LEMMA TelemetryKeeps ==
    ASSUME TelemetryTypeOK, TelemetryActs
    PROVE  /\ TelemetryTypeOK'
           /\ flushed \notin {"none", "waiting"} => UNCHANGED flushed
<1>1. CASE UNCHANGED telemetryVars
  BY <1>1 DEF telemetryVars, TelemetryTypeOK
<1>2. CASE \E mode \in {"none", "otlp"} : NewRuntime(mode)
  BY <1>2 DEF NewRuntime, TelemetryTypeOK
<1>3. CASE CloseRuntime
  BY <1>3 DEF CloseRuntime, TelemetryTypeOK
<1>4. CASE ShutdownsSettled
  BY <1>4 DEF ShutdownsSettled, Flush, Resolve, TelemetryTypeOK
<1>5. CASE FlushTimesOut
  BY <1>5 DEF FlushTimesOut, Resolve, TelemetryTypeOK
<1>6. ASSUME NEW x \in Providers, ExportFails(x)
      PROVE  TelemetryTypeOK' /\ UNCHANGED flushed
  BY <1>6 DEF ExportFails, TelemetryTypeOK
<1>7. ASSUME NEW x \in Providers, NEW how \in {"down", "rejected"}, ShutdownSettles(x, how)
      PROVE  TelemetryTypeOK' /\ UNCHANGED flushed
  BY <1>7 DEF ShutdownSettles, TelemetryTypeOK
<1> QED
  BY <1>1, <1>2, <1>3, <1>4, <1>5, <1>6, <1>7 DEF TelemetryActs

(***************************************************************************)
(* Only a serving process listens, and only one that served has handlers.  *)
(***************************************************************************)
LEMMA ListensOnlyServing ==
    ASSUME RootInv
    PROVE  /\ "listener" \in open => stage = "serving"
           /\ handlers # {} => gate # "starting"
           /\ TypeOK /\ GateOK /\ Opened /\ Staged /\ Present /\ TelemetryTypeOK /\ GateTypeOK
<1>1. TypeOK /\ GateOK /\ Opened /\ Staged /\ Present /\ TelemetryTypeOK /\ GateTypeOK
  BY DEF RootInv, TypeOK
<1>2. "listener" \in open => stage = "serving"
  BY <1>1 DEF TypeOK, Opened, Stages, Undoing, ItsDatabase, ItsOutbound
<1>3. handlers # {} => gate # "starting"
  BY <1>1 DEF Present, Staged
<1> QED
  BY <1>1, <1>2, <1>3

(***************************************************************************)
(* Requests, sessions, probes and the SDK come and go while the process    *)
(* stays where it is: new ones only while it serves or its listener closes. *)
(***************************************************************************)
LEMMA TrafficKeeps ==
    ASSUME RootInv, UNCHANGED <<settings, stage, open, budget, caller, gate, checks>>,
           GateOK', TelemetryActs,
           served' \subseteq Requests \cup Sessions, conns' \subseteq served',
           handlers' \subseteq served' \cap Requests, forced' \subseteq served',
           conns' \subseteq conns \/ stage \in {"serving", "sockets", "http"},
           handlers' \subseteq handlers \/ stage \in {"serving", "sockets", "http"}
    PROVE  RootInv'
<1>0. TypeOK /\ Opened /\ Staged /\ Present /\ TelemetryTypeOK
  BY ListensOnlyServing
<1>1. TelemetryTypeOK' /\ (flushed \notin {"none", "waiting"} => UNCHANGED flushed)
  BY <1>0, TelemetryKeeps
<1>2. GateTypeOK'
  BY DEF GateOK
<1>3. TypeOK'
  BY <1>0, <1>1, <1>2 DEF TypeOK
<1>4. Opened'
  BY <1>0 DEF Opened, ItsDatabase, ItsOutbound
<1>5. Staged'
  BY <1>0, <1>1 DEF Staged
<1>6. Present'
  <2>1. conns' # {} => stage \in {"serving", "sockets", "http"}
    BY <1>0 DEF Present
  <2>2. handlers' # {} => stage \in Running
    BY <1>0 DEF Present, Running, Shutdown
  <2>3. handlers' # {} /\ budget = "left" => stage \in {"serving", "sockets", "http", "drain"}
    BY <1>0 DEF Present
  <2> QED
    BY <1>0, <2>1, <2>2, <2>3 DEF Present
<1> QED
  BY <1>3, <1>4, <1>5, <1>6 DEF RootInv

(***************************************************************************)
(* A request arrives or settles, a session opens, a connection ends.       *)
(***************************************************************************)
LEMMA TrafficStep ==
    ASSUME RootInv,
           \/ \E r \in Requests : RequestArrives(r) \/ HandlerSettles(r)
           \/ \E s \in Sessions : SessionOpens(s)
           \/ \E x \in Requests \cup Sessions : ConnectionEnds(x)
    PROVE  RootInv'
<1>0. TypeOK /\ GateOK /\ UNCHANGED telemetryVars
  BY ListensOnlyServing DEF RequestArrives, HandlerSettles, SessionOpens, ConnectionEnds
<1>1. TelemetryActs
  BY <1>0 DEF TelemetryActs
<1>2. /\ served \subseteq Requests \cup Sessions /\ conns \subseteq served
      /\ handlers \subseteq served \cap Requests /\ forced \subseteq served
  BY <1>0 DEF TypeOK
<1>3. UNCHANGED gateVars => GateOK' /\ UNCHANGED <<gate, checks>>
  BY <1>0, GateControl DEF gateVars
<1>4. ASSUME NEW r \in Requests, RequestArrives(r) PROVE RootInv'
  <2>1. stage \in {"serving", "sockets", "http"}
    BY <1>4, ListensOnlyServing DEF RequestArrives, Reachable
  <2> QED
    BY <1>1, <1>2, <1>3, <1>4, <2>1, TrafficKeeps DEF RequestArrives
<1>5. ASSUME NEW r \in Requests, HandlerSettles(r) PROVE RootInv'
  BY <1>1, <1>2, <1>3, <1>5, TrafficKeeps DEF HandlerSettles
<1>6. ASSUME NEW s \in Sessions, SessionOpens(s) PROVE RootInv'
  <2>1. stage = "serving"
    BY <1>6, ListensOnlyServing DEF SessionOpens
  <2> QED
    BY <1>1, <1>2, <1>3, <1>6, <2>1, TrafficKeeps DEF SessionOpens
<1>7. ASSUME NEW x \in Requests \cup Sessions, ConnectionEnds(x) PROVE RootInv'
  <2>1. GateOK' /\ UNCHANGED <<gate, checks>>
    <3>1. CASE x \in handlers \cap Probes /\ CallerCancels(x)
      BY <1>0, <3>1, ListensOnlyServing, ProbeStep
    <3>2. CASE UNCHANGED gateVars
      BY <1>3, <3>2
    <3> QED
      BY <1>7, <3>1, <3>2 DEF ConnectionEnds, SignalAborts
  <2> QED
    BY <1>1, <1>2, <1>7, <2>1, TrafficKeeps DEF ConnectionEnds
<1> QED
  BY <1>4, <1>5, <1>6, <1>7

(***************************************************************************)
(* The handler of /readyz, its deadline, the ping of an evaluation, which  *)
(* may outlive that handler, the SDK and the close of the runtime leave    *)
(* the process where it is.                                                *)
(***************************************************************************)
LEMMA ProbeAndSdkStep ==
    ASSUME RootInv,
           \/ TelemetryStep
           \/ \E x \in Providers : ProviderStep(x)
           \/ \E p \in Probes : ReadyzStep(p) \/ RequestDeadline(p) \/ PingSettles(p)
    PROVE  RootInv'
<1>0. TypeOK /\ GateOK
  BY ListensOnlyServing
<1>1. /\ served \subseteq Requests \cup Sessions /\ conns \subseteq served
      /\ handlers \subseteq served \cap Requests /\ forced \subseteq served
  BY <1>0 DEF TypeOK
<1>2. UNCHANGED gateVars => GateOK' /\ UNCHANGED <<gate, checks>>
  BY <1>0, GateControl DEF gateVars
<1>3. CASE TelemetryStep
  <2>1. TelemetryActs
    BY <1>3 DEF TelemetryStep, TelemetryActs
  <2> QED
    BY <1>1, <1>2, <1>3, <2>1, TrafficKeeps DEF TelemetryStep, traffic
<1>4. ASSUME NEW x \in Providers, ProviderStep(x) PROVE RootInv'
  <2>1. TelemetryActs
    BY <1>4 DEF ProviderStep, TelemetryActs
  <2> QED
    BY <1>1, <1>2, <1>4, <2>1, TrafficKeeps DEF ProviderStep, traffic
<1>5. ASSUME NEW p \in Probes, ReadyzStep(p) \/ RequestDeadline(p) \/ PingSettles(p)
      PROVE  RootInv'
  <2>1. UNCHANGED <<settings, stage, open, budget, caller, traffic, telemetryVars>>
    BY <1>5 DEF ReadyzStep, RequestDeadline, PingSettles
  <2>2. TelemetryActs
    BY <2>1 DEF TelemetryActs
  <2>3. gate # "starting"
    <3>1. CASE ReadyzStep(p) \/ RequestDeadline(p)
      BY <3>1, ListensOnlyServing DEF ReadyzStep, RequestDeadline
    <3>2. CASE PingSettles(p)
      <4>1. work[p].pc = "running"
        BY <3>2 DEF PingSettles, CheckPasses, CheckRefuses
      <4> QED
        BY <1>0, <4>1 DEF GateOK
    <3> QED
      BY <1>5, <3>1, <3>2
  <2>4. \/ ProbeRefused(p) \/ Evaluate(p) \/ ProbeTimesOut(p) \/ Answer(p)
        \/ CheckPasses(p) \/ CheckRefuses(p) \/ CallerCancels(p)
    BY <1>5 DEF ReadyzStep, RequestDeadline, PingSettles
  <2>5. GateOK' /\ UNCHANGED <<gate, checks>>
    BY <1>0, <2>3, <2>4, ProbeStep
  <2> QED
    BY <1>1, <2>1, <2>2, <2>5, TrafficKeeps DEF traffic
<1> QED
  BY <1>3, <1>4, <1>5

(***************************************************************************)
(* Before it listens, and while a start is undone, the process has no      *)
(* connection, no handler and no caller of close() that was told done.     *)
(***************************************************************************)
LEMMA NobodyYet ==
    ASSUME RootInv, stage \in Starting \cup Undoing
    PROVE  /\ conns = {} /\ handlers = {} /\ gate = "starting"
           /\ \A c \in Callers : caller[c] # "done"
BY ListensOnlyServing DEF Present, Staged, Running, Starting, Undoing, Shutdown

(***************************************************************************)
(* A step of startHTTP that leads to a stage other than closed keeps the   *)
(* types and who is there.                                                 *)
(***************************************************************************)
LEMMA ReachKeeps ==
    ASSUME RootInv, NEW s \in Stages, NEW resources \in SUBSET Resources, s # "closed",
           stage \in Starting \cup Undoing, Reach(s, resources), TelemetryActs, GateOK',
           Opened', Staged'
    PROVE  RootInv'
<1>0. TypeOK /\ TelemetryTypeOK
  BY ListensOnlyServing
<1>1. TelemetryTypeOK'
  BY <1>0, TelemetryKeeps
<1>2. GateTypeOK'
  BY DEF GateOK
<1>3. UNCHANGED <<settings, budget, caller, conns, handlers, served, forced>> /\ stage' = s /\ open' = resources
  BY DEF Reach, traffic
<1>4. TypeOK'
  BY <1>0, <1>1, <1>2, <1>3 DEF TypeOK
<1>5. Present'
  BY <1>3, NobodyYet DEF Present
<1> QED
  BY <1>4, <1>5 DEF RootInv

(***************************************************************************)
(* The steps of startHTTP, the ones that fail or throw included.           *)
(***************************************************************************)
LEMMA StartStep ==
    ASSUME RootInv, Start
    PROVE  RootInv'
<1>0. TypeOK /\ GateOK /\ Opened /\ Staged /\ stage \in Starting
  BY ListensOnlyServing DEF Start, Configure, OpenDatabase, CreateOutbound, CreateApp,
     Listen, ListenFails, Starting
<1>1. gate = "starting"
  BY <1>0, NobodyYet
<1>2. UNCHANGED gateVars => GateOK' /\ UNCHANGED <<gate, checks>>
  BY <1>0, GateControl DEF gateVars
<1>3. UNCHANGED telemetryVars => TelemetryActs /\ UNCHANGED flushed
  BY DEF TelemetryActs, telemetryVars
<1>4. /\ settings.config \in {"good", "bad"} /\ settings.telemetry \in {"none", "otlp"}
      /\ settings.database \in {"none", "good", "bad"}
      /\ settings.outbound \in {"none", "good", "bad"} /\ open \subseteq Resources
  BY <1>0 DEF TypeOK
<1>5. CASE Configure
  <2>0. GateOK' /\ UNCHANGED <<gate, checks>> /\ stage = "config" /\ open = {}
    BY <1>0, <1>2, <1>5 DEF Configure, Opened
  <2>1. CASE settings.config = "bad" /\ Reach("failed", {}) /\ UNCHANGED telemetryVars
    <3>1. stage' = "failed" /\ open' = {} /\ UNCHANGED settings
      BY <2>1 DEF Reach
    <3>2. Opened'
      BY <3>1 DEF Opened
    <3>3. Staged'
      BY <1>1, <2>0, <2>1, <3>1 DEF Staged, Running, Shutdown
    <3> QED
      BY <1>0, <1>3, <2>0, <2>1, <3>2, <3>3, ReachKeeps DEF Stages
  <2>2. ASSUME NEW s \in {"database", "threw"}, NEW mode \in {"none", "otlp"},
               settings.config = "good", Reach(s, {"log", "telemetry"}), NewRuntime(mode)
        PROVE  RootInv'
    <3>1. stage' = s /\ open' = {"log", "telemetry"} /\ UNCHANGED <<settings, flushed>>
      BY <2>2 DEF Reach, NewRuntime
    <3>2. Opened'
      BY <3>1 DEF Opened
    <3>3. Staged'
      BY <1>1, <2>0, <2>2, <3>1 DEF Staged, Running, Shutdown
    <3>4. TelemetryActs
      BY <2>2 DEF TelemetryActs
    <3> QED
      BY <1>0, <2>0, <2>2, <3>2, <3>3, <3>4, ReachKeeps DEF Stages, Resources
  <2> QED
    BY <1>4, <1>5, <2>1, <2>2 DEF Configure
<1>6. CASE OpenDatabase
  <2>0. /\ stage = "database" /\ open = {"log", "telemetry"} /\ settings.config = "good"
        /\ TelemetryActs /\ UNCHANGED flushed
    BY <1>0, <1>3, <1>6 DEF OpenDatabase, Opened, Staged
  <2>1. ASSUME NEW n \in {0, 1}, Construct(n), settings.database # "bad",
               n = (IF settings.database = "good" THEN 1 ELSE 0),
               Reach("outbound", open \cup ItsDatabase)
        PROVE  RootInv'
    <3>1. /\ stage' = "outbound" /\ open' = {"log", "telemetry"} \cup ItsDatabase
          /\ UNCHANGED <<settings, gate>> /\ checks' = n
      BY <2>0, <2>1 DEF Reach, Construct
    <3>2. Opened'
      BY <3>1 DEF Opened, ItsDatabase
    <3>3. Staged'
      BY <1>1, <2>0, <2>1, <3>1 DEF Staged, Running, Shutdown
    <3>4. GateOK'
      BY <1>0, <1>1, <2>1, GateControl
    <3>5. open \cup ItsDatabase \in SUBSET Resources
      BY <1>4 DEF ItsDatabase, Resources
    <3> QED
      BY <1>0, <2>0, <2>1, <3>2, <3>3, <3>4, <3>5, ReachKeeps DEF Stages
  <2>2. CASE settings.database = "none" /\ Reach("outbound", open) /\ Construct(0)
    <3>1. open = open \cup ItsDatabase
      BY <2>2 DEF ItsDatabase
    <3> QED
      BY <2>1, <2>2, <3>1
  <2>3. CASE settings.database = "good" /\ Reach("outbound", open \cup {"database"}) /\ Construct(1)
    BY <2>1, <2>3 DEF ItsDatabase
  <2>4. CASE Reach("undo_telemetry", open) /\ UNCHANGED gateVars
    <3>1. stage' = "undo_telemetry" /\ open' = {"log", "telemetry"} /\ UNCHANGED <<settings, gate>>
      BY <2>0, <2>4 DEF Reach, gateVars
    <3>2. Opened'
      BY <3>1 DEF Opened
    <3>3. Staged'
      BY <1>1, <2>0, <3>1 DEF Staged, Running, Shutdown
    <3> QED
      BY <1>0, <1>2, <1>4, <2>0, <2>4, <3>2, <3>3, ReachKeeps DEF Stages, Undoing
  <2> QED
    BY <1>6, <2>2, <2>3, <2>4 DEF OpenDatabase
<1>7. CASE CreateOutbound
  <2>0. /\ stage = "outbound" /\ open = {"log", "telemetry"} \cup ItsDatabase
        /\ GateOK' /\ TelemetryActs /\ UNCHANGED <<gate, checks, flushed>>
    BY <1>0, <1>2, <1>3, <1>7 DEF CreateOutbound, Opened
  <2>1. CASE settings.outbound # "bad" /\ Reach("app", open \cup ItsOutbound)
    <3>1. /\ stage' = "app" /\ open' = {"log", "telemetry"} \cup ItsDatabase \cup ItsOutbound
          /\ UNCHANGED settings
      BY <2>0, <2>1 DEF Reach
    <3>2. Opened'
      BY <3>1 DEF Opened, ItsDatabase, ItsOutbound
    <3>3. Staged'
      BY <1>0, <1>1, <2>0, <2>1, <3>1 DEF Staged, Running, Shutdown
    <3>4. open \cup ItsOutbound \in SUBSET Resources
      BY <1>4 DEF ItsOutbound, Resources
    <3> QED
      BY <1>0, <2>0, <2>1, <3>2, <3>3, <3>4, ReachKeeps DEF Stages
  <2>2. CASE Reach("threw", open)
    <3>1. stage' = "threw" /\ open' = open /\ UNCHANGED settings /\ "listener" \notin open
      BY <2>0, <2>2, ListensOnlyServing DEF Reach
    <3>2. Opened'
      BY <3>1 DEF Opened
    <3>3. Staged'
      BY <1>0, <1>1, <2>0, <3>1 DEF Staged, Running, Shutdown
    <3> QED
      BY <1>0, <1>4, <2>0, <2>2, <3>2, <3>3, ReachKeeps DEF Stages
  <2>3. settings.outbound = "none" => ItsOutbound = {}
    BY DEF ItsOutbound
  <2>4. settings.outbound = "good" => ItsOutbound = {"outbound"}
    BY DEF ItsOutbound
  <2>5. CASE settings.outbound = "none"
    <3>1. Reach("app", open) /\ open = open \cup ItsOutbound
      BY <1>7, <2>3, <2>5 DEF CreateOutbound
    <3> QED
      BY <2>1, <2>5, <3>1
  <2>6. CASE settings.outbound = "good"
    BY <1>7, <2>1, <2>4, <2>6 DEF CreateOutbound
  <2>7. CASE settings.outbound = "bad"
    BY <1>7, <2>2, <2>7 DEF CreateOutbound
  <2> QED
    BY <1>4, <2>5, <2>6, <2>7
<1>8. CASE CreateApp
  <2>0. /\ stage = "app" /\ open = {"log", "telemetry"} \cup ItsDatabase \cup ItsOutbound
        /\ GateOK' /\ TelemetryActs /\ UNCHANGED <<gate, checks, flushed>>
    BY <1>0, <1>2, <1>3, <1>8 DEF CreateApp, Opened
  <2>1. CASE Reach("listen", open \cup {"app"})
    <3>1. /\ stage' = "listen" /\ UNCHANGED settings
          /\ open' = {"log", "telemetry", "app"} \cup ItsDatabase \cup ItsOutbound
      BY <2>0, <2>1 DEF Reach
    <3>2. Opened'
      BY <3>1 DEF Opened, ItsDatabase, ItsOutbound
    <3>3. Staged'
      BY <1>0, <1>1, <2>0, <3>1 DEF Staged, Running, Shutdown
    <3>4. open \cup {"app"} \in SUBSET Resources
      BY <1>4 DEF Resources
    <3> QED
      BY <1>0, <2>0, <2>1, <3>2, <3>3, <3>4, ReachKeeps DEF Stages
  <2>2. CASE Reach("threw", open)
    <3>1. stage' = "threw" /\ open' = open /\ UNCHANGED settings /\ "listener" \notin open
      BY <2>0, <2>2, ListensOnlyServing DEF Reach
    <3>2. Opened'
      BY <3>1 DEF Opened
    <3>3. Staged'
      BY <1>0, <1>1, <2>0, <3>1 DEF Staged, Running, Shutdown
    <3> QED
      BY <1>0, <1>4, <2>0, <2>2, <3>2, <3>3, ReachKeeps DEF Stages
  <2> QED
    BY <1>8, <2>1, <2>2 DEF CreateApp
<1>9. CASE Listen
  <2>0. /\ stage = "listen" /\ open = {"log", "telemetry", "app"} \cup ItsDatabase \cup ItsOutbound
        /\ TelemetryActs /\ UNCHANGED <<checks, flushed>> /\ gate' = "serving" /\ GateOK'
    BY <1>0, <1>1, <1>3, <1>9, GateControl DEF Listen, Opened, StartGate
  <2>1. /\ stage' = "serving" /\ UNCHANGED settings
        /\ open' = {"log", "telemetry", "app", "listener"} \cup ItsDatabase \cup ItsOutbound
    BY <1>9, <2>0 DEF Listen, Reach
  <2>2. Opened'
    BY <2>1 DEF Opened, ItsDatabase, ItsOutbound
  <2>3. Staged'
    BY <1>0, <2>0, <2>1 DEF Staged, Running, Shutdown
  <2>4. open \cup {"listener"} \in SUBSET Resources
    BY <1>4 DEF Resources
  <2> QED
    BY <1>0, <1>9, <2>0, <2>2, <2>3, <2>4, ReachKeeps DEF Stages, Listen
<1>10. CASE ListenFails
  <2>0. /\ stage = "listen" /\ open = {"log", "telemetry", "app"} \cup ItsDatabase \cup ItsOutbound
        /\ GateOK' /\ TelemetryActs /\ UNCHANGED <<gate, checks, flushed>>
    BY <1>0, <1>2, <1>3, <1>10 DEF ListenFails, Opened
  <2>1. stage' = "undo_database" /\ UNCHANGED <<settings, open>>
    BY <1>10 DEF ListenFails, Reach
  <2>2. Opened'
    BY <2>0, <2>1 DEF Opened, ItsDatabase, ItsOutbound
  <2>3. Staged'
    BY <1>0, <1>1, <2>0, <2>1 DEF Staged, Running, Shutdown
  <2> QED
    BY <1>0, <1>4, <1>10, <2>0, <2>2, <2>3, ReachKeeps DEF Stages, Undoing, ListenFails
<1> QED
  BY <1>5, <1>6, <1>7, <1>8, <1>9, <1>10 DEF Start

(***************************************************************************)
(* A start that fails is undone stage by stage.                            *)
(***************************************************************************)
LEMMA UndoStep ==
    ASSUME RootInv, Undo
    PROVE  RootInv'
<1>0. /\ TypeOK /\ Opened /\ Staged /\ GateOK /\ UNCHANGED <<gateVars, telemetryVars>>
      /\ stage \in Undoing
  BY ListensOnlyServing DEF Undo, UndoDatabase, UndoTelemetry, UndoLog, UndoApp, Undoing
<1>1. GateOK' /\ gate' = "starting" /\ TelemetryActs /\ UNCHANGED flushed
  BY <1>0, NobodyYet, GateControl DEF gateVars, telemetryVars, TelemetryActs
<1>2. settings.config = "good" /\ open \subseteq Resources
  BY <1>0 DEF Staged, Undoing, TypeOK
<1>3. CASE UndoDatabase
  <2>1. open = {"log", "telemetry", "app"} \cup ItsDatabase \cup ItsOutbound
    BY <1>0, <1>3 DEF UndoDatabase, Opened
  <2>2. /\ stage' = "undo_telemetry" /\ open' = {"log", "telemetry", "app"} /\ UNCHANGED settings
    BY <1>3, <2>1 DEF UndoDatabase, Reach, ItsDatabase, ItsOutbound
  <2>3. Opened'
    BY <2>2 DEF Opened
  <2>4. Staged'
    BY <1>1, <1>2, <2>2 DEF Staged, Running, Shutdown
  <2>5. open \ {"database", "outbound"} \in SUBSET Resources
    BY <1>2
  <2> QED
    BY <1>0, <1>1, <1>3, <2>3, <2>4, <2>5, ReachKeeps DEF UndoDatabase, Stages, Undoing
<1>4. CASE UndoTelemetry
  <2>1. open \in {{"log", "telemetry"}, {"log", "telemetry", "app"}}
    BY <1>0, <1>4 DEF UndoTelemetry, Opened
  <2>2. /\ stage' = "undo_log" /\ open' \in {{"log"}, {"log", "app"}} /\ UNCHANGED settings
        /\ flushed' \notin {"none", "waiting"}
    BY <1>1, <1>4, <2>1 DEF UndoTelemetry, Reach
  <2>3. Opened'
    BY <2>2 DEF Opened
  <2>4. Staged'
    BY <1>1, <1>2, <2>2 DEF Staged, Running, Shutdown
  <2>5. open \ {"telemetry"} \in SUBSET Resources
    BY <1>2
  <2> QED
    BY <1>0, <1>1, <1>4, <2>3, <2>4, <2>5, ReachKeeps DEF UndoTelemetry, Stages, Undoing
<1>5. CASE UndoLog
  <2>1. open \in {{"log"}, {"log", "app"}} /\ flushed' \notin {"none", "waiting"}
    BY <1>0, <1>1, <1>5 DEF UndoLog, Opened, Staged
  <2>2. /\ UNCHANGED settings
        /\ \/ stage' = "undo_app" /\ open' = {"app"}
           \/ stage' = "failed" /\ open' = {}
    BY <1>5, <2>1 DEF UndoLog, Reach
  <2>3. Opened'
    BY <2>2 DEF Opened
  <2>4. Staged'
    BY <1>1, <1>2, <2>1, <2>2 DEF Staged, Running, Shutdown
  <2>5. open \ {"log"} \in SUBSET Resources
    BY <1>2
  <2>6. CASE "app" \in open
    BY <1>0, <1>1, <1>5, <2>3, <2>4, <2>5, <2>6, ReachKeeps DEF UndoLog, Stages, Undoing
  <2>7. CASE "app" \notin open
    BY <1>0, <1>1, <1>5, <2>3, <2>4, <2>5, <2>7, ReachKeeps DEF UndoLog, Stages, Undoing
  <2> QED
    BY <2>6, <2>7
<1>6. CASE UndoApp
  <2>1. open = {"app"} /\ flushed' \notin {"none", "waiting"}
    BY <1>0, <1>1, <1>6 DEF UndoApp, Opened, Staged
  <2>2. UNCHANGED settings /\ stage' = "failed" /\ open' = {}
    BY <1>6, <2>1 DEF UndoApp, Reach
  <2>3. Opened'
    BY <2>2 DEF Opened
  <2>4. Staged'
    BY <1>1, <1>2, <2>1, <2>2 DEF Staged, Running, Shutdown
  <2>5. open \ {"app"} \in SUBSET Resources
    BY <1>2
  <2> QED
    BY <1>0, <1>1, <1>6, <2>3, <2>4, <2>5, ReachKeeps DEF UndoApp, Stages, Undoing
<1> QED
  BY <1>3, <1>4, <1>5, <1>6 DEF Undo

-----------------------------------------------------------------------------
(***************************************************************************)
(* A call of close(): the first one drains the gate and stops listening.   *)
(***************************************************************************)
LEMMA CloseStep ==
    ASSUME RootInv, NEW c \in Callers, CloseCalled(c)
    PROVE  RootInv'
<1>0. /\ TypeOK /\ Opened /\ Staged /\ GateOK /\ Present
      /\ UNCHANGED <<settings, budget, conns, handlers, served, forced, telemetryVars>>
  BY ListensOnlyServing DEF CloseCalled, traffic
<1>1. UNCHANGED flushed /\ TelemetryTypeOK'
  BY <1>0 DEF telemetryVars, TypeOK, TelemetryTypeOK
<1>2. GateOK' /\ UNCHANGED checks
  BY <1>0, GateControl DEF CloseCalled, DrainGate, gateVars
<1>3. /\ caller' \in [Callers -> {"new", "waiting", "done"}]
      /\ caller'[c] = (IF stage = "closed" THEN "done" ELSE "waiting")
      /\ \A d \in Callers : d # c => caller'[d] = caller[d]
  BY <1>0 DEF CloseCalled, TypeOK
<1>4. stage \in Running /\ caller[c] = "new"
  BY DEF CloseCalled, Running
<1>5. CASE stage = "serving"
  <2>1. stage' = "sockets" /\ gate' = "draining" /\ open' = open \ {"listener"}
    BY <1>5 DEF CloseCalled, DrainGate
  <2>2. open' = {"log", "telemetry", "app"} \cup ItsDatabase \cup ItsOutbound
    BY <1>0, <1>5, <2>1 DEF Opened, ItsDatabase, ItsOutbound
  <2>3. Opened'
    BY <1>0, <2>1, <2>2 DEF Opened, ItsDatabase, ItsOutbound
  <2>4. Staged'
    BY <1>0, <1>1, <1>2, <1>5, <2>1 DEF Staged, Running, Shutdown
  <2>5. Present'
    BY <1>0, <1>3, <1>5, <2>1 DEF Present, Running, Shutdown
  <2>6. TypeOK'
    BY <1>0, <1>1, <1>2, <1>3, <2>1 DEF TypeOK, GateOK, Stages
  <2> QED
    BY <1>2, <2>3, <2>4, <2>5, <2>6 DEF RootInv
<1>6. CASE stage # "serving"
  <2>1. UNCHANGED <<stage, open, gate>>
    BY <1>6 DEF CloseCalled, gateVars
  <2>2. Opened'
    BY <1>0, <2>1 DEF Opened, ItsDatabase, ItsOutbound
  <2>3. Staged'
    BY <1>0, <1>1, <1>2, <2>1 DEF Staged
  <2>4. Present'
    BY <1>0, <1>3, <2>1 DEF Present
  <2>5. TypeOK'
    BY <1>0, <1>1, <1>2, <1>3, <2>1 DEF TypeOK, GateOK
  <2> QED
    BY <1>2, <2>2, <2>3, <2>4, <2>5 DEF RootInv
<1> QED
  BY <1>5, <1>6

(***************************************************************************)
(* The budget of close() runs out.                                         *)
(***************************************************************************)
LEMMA BudgetStep ==
    ASSUME RootInv, BudgetEnds
    PROVE  RootInv'
<1>0. /\ TypeOK /\ Opened /\ Staged /\ GateOK /\ Present /\ budget' = "spent"
      /\ UNCHANGED <<settings, stage, open, caller, conns, handlers, served, forced,
                     gateVars, telemetryVars>>
  BY ListensOnlyServing DEF BudgetEnds, traffic
<1>1. UNCHANGED <<flushed, gate, checks>> /\ TelemetryTypeOK'
  BY <1>0 DEF telemetryVars, TypeOK, TelemetryTypeOK, gateVars
<1>2. GateOK'
  BY <1>0, GateControl
<1>3. Opened'
  BY <1>0 DEF Opened, ItsDatabase, ItsOutbound
<1>4. Staged'
  BY <1>0, <1>1 DEF Staged
<1>5. Present'
  BY <1>0 DEF Present
<1>6. TypeOK'
  BY <1>0, <1>1, <1>2 DEF TypeOK, GateOK
<1> QED
  BY <1>2, <1>3, <1>4, <1>5, <1>6 DEF RootInv

(***************************************************************************)
(* A step of close() that leads to a stage keeps what the gate and the     *)
(* telemetry are, given who is there and what is open then.                *)
(***************************************************************************)
LEMMA AdvanceKeeps ==
    ASSUME RootInv, NEW from \in Shutdown, NEW to \in Shutdown \cup {"closed"},
           NEW resources \in SUBSET Resources, Advance(from, to, resources),
           forced' \subseteq served,
           caller' \in [Callers -> {"new", "waiting", "done"}],
           to \in {"close_log", "close_app", "closed"} => flushed \notin {"none", "waiting"},
           Opened', Present'
    PROVE  RootInv'
<1>0. /\ TypeOK /\ Staged /\ GateOK /\ stage = from /\ stage' = to
      /\ open' \subseteq open
      /\ UNCHANGED <<settings, conns, handlers, served, budget, gateVars, telemetryVars>>
  BY ListensOnlyServing DEF Advance
<1>1. UNCHANGED <<flushed, gate, checks>> /\ TelemetryTypeOK'
  BY <1>0 DEF telemetryVars, TypeOK, TelemetryTypeOK, gateVars
<1>2. GateOK'
  BY <1>0, GateControl
<1>3. gate = "draining" /\ settings.config = "good" /\ settings.outbound # "bad"
      /\ settings.database # "bad" /\ checks = (IF settings.database = "good" THEN 1 ELSE 0)
  BY <1>0 DEF Staged, Running, Shutdown
<1>4. Staged'
  BY <1>0, <1>1, <1>3 DEF Staged, Running, Shutdown
<1>5. TypeOK'
  BY <1>0, <1>1, <1>2 DEF TypeOK, GateOK, Stages, Shutdown
<1> QED
  BY <1>2, <1>4, <1>5 DEF RootInv

(***************************************************************************)
(* Every step of close(), the ones that the timer cuts short included.     *)
(***************************************************************************)
LEMMA StopStep ==
    ASSUME RootInv, Stop
    PROVE  RootInv'
<1>0. TypeOK /\ Opened /\ Staged /\ GateOK /\ Present
  BY ListensOnlyServing
<1>1. /\ caller \in [Callers -> {"new", "waiting", "done"}]
      /\ conns \subseteq served /\ forced \subseteq served
  BY <1>0 DEF TypeOK
<1>3. ASSUME stage \in Shutdown PROVE \A c \in Callers : caller[c] # "done"
  BY <1>0, <1>3 DEF Present, Shutdown
<1>4. CASE SocketsClosed
  <2>1. /\ stage = "sockets" /\ stage' = "http" /\ open' = open /\ forced' \subseteq served
        /\ UNCHANGED <<settings, conns, handlers, budget, caller>>
    BY <1>1, <1>4 DEF SocketsClosed, Advance
  <2>2. Opened'
    BY <1>0, <2>1 DEF Opened, ItsDatabase, ItsOutbound
  <2>3. Present'
    BY <1>0, <1>3, <2>1 DEF Present, Running, Shutdown
  <2> QED
    BY <1>1, <1>4, <2>1, <2>2, <2>3, AdvanceKeeps DEF SocketsClosed, Shutdown
<1>5. CASE CloseAllConnections
  <2>1. /\ UNCHANGED <<settings, stage, open, conns, handlers, served, budget, caller,
                       gateVars, telemetryVars>>
        /\ forced' \subseteq served
    BY <1>1, <1>5 DEF CloseAllConnections
  <2>2. GateOK' /\ UNCHANGED <<gate, checks>> /\ TelemetryActs
    BY <1>0, <2>1, GateControl DEF gateVars, TelemetryActs
  <2>3. served \subseteq Requests \cup Sessions /\ handlers \subseteq served \cap Requests
    BY <1>0 DEF TypeOK
  <2> QED
    BY <1>1, <2>1, <2>2, <2>3, TrafficKeeps
<1>6. CASE HttpClosed
  <2>1. /\ stage = "http" /\ stage' = "drain" /\ open' = open /\ conns' = {}
        /\ UNCHANGED <<settings, handlers, budget, caller, forced>>
    BY <1>6 DEF HttpClosed, Advance
  <2>2. Opened'
    BY <1>0, <2>1 DEF Opened, ItsDatabase, ItsOutbound
  <2>3. Present'
    BY <1>0, <1>3, <2>1 DEF Present, Running, Shutdown
  <2> QED
    BY <1>1, <1>6, <2>1, <2>2, <2>3, AdvanceKeeps DEF HttpClosed, Shutdown
<1>7. CASE Drained
  <2>0. /\ stage = "drain" /\ open' = open \ {"outbound"} /\ (handlers = {} \/ budget = "spent")
        /\ stage' = (IF "database" \in open THEN "close_database" ELSE "close_telemetry")
        /\ UNCHANGED <<settings, conns, handlers, budget, caller, forced>>
    BY <1>7 DEF Drained, Advance
  <2>1. open = {"log", "telemetry", "app"} \cup ItsDatabase \cup ItsOutbound /\ conns = {}
    BY <1>0, <2>0 DEF Opened, Present
  <2>2. Opened'
    BY <2>0, <2>1 DEF Opened, ItsDatabase, ItsOutbound
  <2>3. budget \in {"left", "spent"} /\ stage \in Shutdown
    BY <1>0, <2>0 DEF TypeOK, Shutdown
  <2>4. Present'
    BY <1>0, <1>3, <2>0, <2>1, <2>3 DEF Present, Running, Shutdown
  <2>5. PICK to \in {"close_database", "close_telemetry"} :
           to = (IF "database" \in open THEN "close_database" ELSE "close_telemetry")
    OBVIOUS
  <2>6. Advance("drain", to, {"outbound"})
    BY <1>7, <2>5 DEF Drained
  <2> QED
    BY <1>1, <2>0, <2>2, <2>4, <2>6, AdvanceKeeps DEF Shutdown, Resources
<1>8. ASSUME stage \in {"close_database", "close_telemetry", "close_log", "close_app"}
      PROVE  conns = {} /\ (handlers = {} \/ budget # "left")
  BY <1>0, <1>8 DEF Present
<1>9. CASE DatabaseClosed
  <2>1. /\ stage = "close_database" /\ stage' = "close_telemetry" /\ open' = open \ {"database"}
        /\ UNCHANGED <<settings, conns, handlers, budget, caller, forced>>
    BY <1>9 DEF DatabaseClosed, Advance
  <2>2. Opened'
    BY <1>0, <2>1 DEF Opened
  <2>3. Present'
    BY <1>3, <1>8, <2>1 DEF Present, Running, Shutdown
  <2> QED
    BY <1>1, <1>9, <2>1, <2>2, <2>3, AdvanceKeeps DEF DatabaseClosed, Shutdown, Resources
<1>10. CASE TelemetryClosed
  <2>1. /\ stage = "close_telemetry" /\ stage' = "close_log" /\ open' = open \ {"telemetry"}
        /\ UNCHANGED <<settings, conns, handlers, budget, caller, forced>>
    BY <1>10 DEF TelemetryClosed, Advance
  <2>2. Opened'
    BY <1>0, <2>1 DEF Opened
  <2>3. Present'
    BY <1>3, <1>8, <2>1 DEF Present, Running, Shutdown
  <2> QED
    BY <1>1, <1>10, <2>1, <2>2, <2>3, AdvanceKeeps DEF TelemetryClosed, Shutdown, Resources
<1>11. CASE LogClosed
  <2>1. /\ stage = "close_log" /\ stage' = "close_app" /\ open' = open \ {"log"}
        /\ UNCHANGED <<settings, conns, handlers, budget, caller, forced>>
        /\ flushed \notin {"none", "waiting"}
    BY <1>0, <1>11 DEF LogClosed, Advance, Staged
  <2>2. Opened'
    BY <1>0, <2>1 DEF Opened
  <2>3. Present'
    BY <1>3, <1>8, <2>1 DEF Present, Running, Shutdown
  <2> QED
    BY <1>1, <1>11, <2>1, <2>2, <2>3, AdvanceKeeps DEF LogClosed, Shutdown, Resources
<1>12. CASE AppClosed
  <2>1. /\ stage = "close_app" /\ stage' = "closed" /\ open' = open \ {"app"}
        /\ UNCHANGED <<settings, conns, handlers, budget, forced>>
        /\ flushed \notin {"none", "waiting"}
        /\ caller' = [c \in Callers |-> IF caller[c] = "waiting" THEN "done" ELSE caller[c]]
    BY <1>0, <1>12 DEF AppClosed, Advance, Staged
  <2>2. Opened'
    BY <1>0, <2>1 DEF Opened
  <2>3. Present'
    BY <1>1, <1>8, <2>1 DEF Present, Running, Shutdown
  <2>4. caller' \in [Callers -> {"new", "waiting", "done"}]
    BY <1>1, <2>1
  <2> QED
    BY <1>1, <1>12, <2>1, <2>2, <2>3, <2>4, AdvanceKeeps DEF AppClosed, Shutdown, Resources
<1> QED
  BY <1>4, <1>5, <1>6, <1>7, <1>9, <1>10, <1>11, <1>12 DEF Stop

-----------------------------------------------------------------------------
(***************************************************************************)
(* The initial states satisfy the invariant.                               *)
(***************************************************************************)
LEMMA InitKeeps == Init => RootInv
<1> SUFFICES ASSUME Init PROVE RootInv
  OBVIOUS
<1>1. MaxChecks \in Nat
  BY MaxChecksAssumption
<1>2. GateTypeOK /\ GateOK
  <2>1. probe \in [Probes -> Caller] /\ \A p \in Probes : probe[p].pc = "new"
    BY DEF Init, GateInit, Caller
  <2>2. work \in [Probes -> Evaluation] /\ \A p \in Probes : work[p].pc = "none"
    BY <1>1 DEF Init, GateInit, Evaluation
  <2>3. ~busy /\ busy \in BOOLEAN
    BY DEF Init, GateInit
  <2>4. gate = "starting" /\ checks \in 0..MaxChecks
    BY <1>1 DEF Init, GateInit
  <2>5. GateTypeOK
    BY <2>1, <2>2, <2>3, <2>4 DEF GateTypeOK
  <2> QED
    BY <2>1, <2>2, <2>5 DEF GateOK
<1>3. TelemetryTypeOK
  BY DEF Init, TelemetryInit, TelemetryTypeOK
<1>4. TypeOK
  BY <1>2, <1>3 DEF Init, TypeOK, Stages
<1>5. Opened
  BY DEF Init, Opened
<1>6. Staged
  BY DEF Init, GateInit, Staged, Running, Shutdown
<1>7. Present
  BY DEF Init, Present
<1> QED
  BY <1>2, <1>4, <1>5, <1>6, <1>7 DEF RootInv

(***************************************************************************)
(* The inductive invariant: at every stage of startHTTP and close() the    *)
(* open resources, the gate, the telemetry, the settings and the users     *)
(* that are left are the ones that stage allows.                           *)
(***************************************************************************)
THEOREM RootInvariant == Spec => []RootInv
<1>1. Init => RootInv
  BY InitKeeps
<1>2. RootInv /\ [Next]_vars => RootInv'
  <2> SUFFICES ASSUME RootInv, [Next]_vars PROVE RootInv'
    OBVIOUS
  <2>1. CASE Next
    BY <2>1, StartStep, UndoStep, ProbeAndSdkStep, TrafficStep, CloseStep, BudgetStep,
       StopStep DEF Next
  <2>2. CASE UNCHANGED vars
    BY <2>2 DEF vars, RootInv, TypeOK, GateTypeOK, TelemetryTypeOK, GateOK, Opened, Staged,
       Present, ItsDatabase, ItsOutbound
  <2> QED
    BY <2>1, <2>2
<1> QED
  BY <1>1, <1>2, PTL DEF Spec

(***************************************************************************)
(* Contracts D02 and T11: the users of the database, the telemetry and     *)
(* the log are gone before close() takes them down, or its budget is spent. *)
(***************************************************************************)
THEOREM UsersFirst == Spec => []UsersBeforeResources
<1>1. RootInv => UsersBeforeResources
  <2> SUFFICES ASSUME RootInv PROVE UsersBeforeResources
    OBVIOUS
  <2>1. TypeOK /\ Opened /\ Present
    BY DEF RootInv
  <2>2. stage \in {"serving", "sockets", "http", "drain"} =>
          /\ {"log", "telemetry"} \subseteq open
          /\ settings.database = "good" => "database" \in open
    BY <2>1 DEF Opened, ItsDatabase
  <2>3. conns # {} => stage \in {"serving", "sockets", "http"}
    BY <2>1 DEF Present
  <2>4. handlers # {} /\ budget = "left" => stage \in {"serving", "sockets", "http", "drain"}
    BY <2>1 DEF Present
  <2> QED
    BY <2>1, <2>2, <2>3, <2>4 DEF UsersBeforeResources
<1> QED
  BY <1>1, RootInvariant, PTL

(***************************************************************************)
(* A start that fails leaves nothing open, one that throws never listens,  *)
(* and no refused setting is ever served with.                             *)
(***************************************************************************)
THEOREM FailedStartsAreUndone == Spec => []StartIsUndone
<1>1. RootInv => StartIsUndone
  BY DEF RootInv, Opened, Staged, Running, Shutdown, StartIsUndone
<1> QED
  BY <1>1, RootInvariant, PTL

(***************************************************************************)
(* close() runs once: no step is repeated, a closed process stays closed,  *)
(* and its callers are told so when everything is closed.                  *)
(***************************************************************************)
THEOREM OneClose == Spec => CloseRunsOnce
<1> DEFINE A == /\ stage \in Shutdown \cup {"closed"} => open' \subseteq open /\ gate' = "draining"
                /\ stage = "closed" => stage' = "closed"
                /\ \A c \in Callers :
                     /\ caller'[c] = "done" => open' = {}
                     /\ stage' = "closed" => caller'[c] # "waiting"
<1>1. RootInv /\ RootInv' /\ [Next]_vars => [A]_vars
  <2> SUFFICES ASSUME RootInv, RootInv', Next PROVE A
    OBVIOUS
  <2>1. /\ Opened' /\ Staged' /\ Present'
        /\ stage \in Stages
    BY DEF RootInv, TypeOK
  <2>2. \A c \in Callers : /\ caller'[c] = "done" => open' = {}
                           /\ stage' = "closed" => caller'[c] # "waiting"
    BY <2>1 DEF Opened, Present
  <2>3. ASSUME stage \in Shutdown \cup {"closed"}
        PROVE  /\ stage' \in Shutdown \cup {"closed"} /\ open' \subseteq open
               /\ stage = "closed" => stage' = "closed"
    <3>1. ~Start /\ ~Undo
      BY <2>3 DEF Shutdown, Start, Undo, Configure, OpenDatabase, CreateOutbound, CreateApp,
         Listen, ListenFails, UndoDatabase, UndoTelemetry, UndoLog, UndoApp
    <3>2. CASE Stop
      BY <2>3, <3>2 DEF Stop, SocketsClosed, CloseAllConnections, HttpClosed, Drained,
         DatabaseClosed, TelemetryClosed, LogClosed, AppClosed, Advance, Shutdown
    <3>3. ASSUME NEW c \in Callers, CloseCalled(c) PROVE UNCHANGED <<stage, open>>
      BY <2>3, <3>3 DEF CloseCalled, Shutdown
    <3>4. CASE UNCHANGED <<stage, open>>
      BY <2>3, <3>4
    <3> QED
      BY <3>1, <3>2, <3>3, <3>4 DEF Next, TelemetryStep, ProviderStep, RequestArrives,
         HandlerSettles, SessionOpens, ConnectionEnds, ReadyzStep, RequestDeadline,
         PingSettles, BudgetEnds
  <2>4. stage' \in Shutdown \cup {"closed"} => gate' = "draining"
    BY <2>1 DEF Staged, Running, Shutdown
  <2> QED
    BY <2>2, <2>3, <2>4
<1> QED
  BY <1>1, RootInvariant, PTL DEF Spec, CloseRunsOnce

(***************************************************************************)
(* Health contract H01 and H02: a probe is told ready only by a process    *)
(* that serves, with its own check passed, its budget left and the         *)
(* database it pinged open.                                                *)
(***************************************************************************)
THEOREM ReadyCorrect == Spec => ReadyIsTrue
<1> DEFINE Sound(p) == /\ stage = "serving"
                       /\ {"log", "telemetry", "app", "listener"} \subseteq open
                       /\ settings.database = "good" => "database" \in open /\ work[p].passed = 1
                       /\ ~probe[p].stopped
           A == \A p \in Probes : probe[p].pc # "ready" /\ probe'[p].pc = "ready" => Sound(p)
<1>1. RootInv /\ [Next]_vars => [A]_vars
  <2> SUFFICES ASSUME RootInv, Next, NEW p \in Probes,
                      probe[p].pc # "ready", probe'[p].pc = "ready"
               PROVE  Sound(p)
    OBVIOUS
  <2>0. TypeOK /\ GateOK /\ Opened /\ Staged /\ probe \in [Probes -> Caller]
    BY DEF RootInv, TypeOK, GateTypeOK
  <2>1. ~(UNCHANGED probe)
    OBVIOUS
  <2>2. \A q \in Probes : CallerCancels(q) => probe'[p].pc = probe[p].pc
    BY <2>0 DEF CallerCancels, Caller
  <2>3. \A q \in Probes : ProbeTimesOut(q) => probe'[p].pc = probe[p].pc
    BY <2>0 DEF ProbeTimesOut, Caller
  <2>4. \A q \in Probes : ProbeRefused(q) => probe'[p].pc \in {probe[p].pc, "not_ready"}
    BY <2>0 DEF ProbeRefused, Caller
  <2>5. \A q \in Probes : Evaluate(q) => probe'[p].pc \in {probe[p].pc, "waiting"}
    BY <2>0 DEF Evaluate, Caller
  <2>6. PICK q \in Probes : Answer(q)
    <3>1. UNCHANGED probe \/ \E q \in Probes : ReadyzStep(q) \/ RequestDeadline(q) \/ CallerCancels(q)
      <4>1. CASE Start \/ Undo \/ Stop \/ BudgetEnds \/ TelemetryStep
        BY <4>1 DEF Start, Undo, Stop, BudgetEnds, TelemetryStep, Configure, OpenDatabase,
           CreateOutbound, CreateApp, Listen, ListenFails, UndoDatabase, UndoTelemetry, UndoLog,
           UndoApp, SocketsClosed, CloseAllConnections, HttpClosed, Drained, DatabaseClosed,
           TelemetryClosed, LogClosed, AppClosed, Advance, Construct, StartGate, gateVars
      <4>2. CASE \E x \in Requests \cup Sessions : ConnectionEnds(x)
        BY <4>2 DEF ConnectionEnds, SignalAborts, gateVars
      <4> QED
        BY <4>1, <4>2 DEF Next, ProviderStep, RequestArrives, HandlerSettles, SessionOpens,
           CloseCalled, DrainGate, PingSettles, CheckPasses, CheckRefuses, gateVars
    <3> QED
      BY <2>1, <2>2, <2>3, <2>4, <2>5, <3>1 DEF ReadyzStep, RequestDeadline
  <2>7. q = p /\ ~probe[p].stopped /\ StillReady(p)
    BY <2>0, <2>6 DEF Answer, Caller
  <2>8. stage = "serving" /\ work[p].passed = checks
    BY <2>0, <2>7 DEF StillReady, GateOK, Staged
  <2>9. /\ {"log", "telemetry", "app", "listener"} \subseteq open
        /\ settings.database = "good" => "database" \in open /\ checks = 1
    BY <2>0, <2>8 DEF Opened, Staged, Running, ItsDatabase
  <2> QED
    BY <2>7, <2>8, <2>9
<1> QED
  BY <1>1, RootInvariant, PTL DEF Spec, ReadyIsTrue

(***************************************************************************)
(* Contract T11: the telemetry runtime says ok, or export, only when that  *)
(* is what happened to its providers, and never changes its answer.        *)
(***************************************************************************)
THEOREM FlushCorrect == Spec => FlushIsTrue
<1> DEFINE A == /\ flushed = "waiting" /\ flushed' = "ok" =>
                     ~failed /\ \A x \in Providers : providers[x] \in {"off", "down"}
                /\ flushed = "waiting" /\ flushed' = "export" =>
                     failed \/ \E x \in Providers : providers[x] = "rejected"
                /\ flushed \notin {"none", "waiting"} => flushed' = flushed
<1>1. RootInv /\ [Next]_vars => [A]_telemetryVars
  <2> SUFFICES ASSUME RootInv, [Next]_vars PROVE [A]_telemetryVars
    OBVIOUS
  <2>0. TelemetryTypeOK
    BY DEF RootInv, TypeOK
  <2>1. UNCHANGED telemetryVars => A
    BY DEF telemetryVars
  <2>2. TelemetryActs
    <3>1. CASE Start \/ Undo
      <4>1. settings.telemetry \in {"none", "otlp"}
        BY DEF RootInv, TypeOK
      <4> QED
        BY <3>1, <4>1 DEF Start, Undo, Configure, OpenDatabase, CreateOutbound, CreateApp, Listen,
           ListenFails, UndoDatabase, UndoTelemetry, UndoLog, UndoApp, TelemetryActs, telemetryVars
    <3>2. CASE Stop
      BY <3>2 DEF Stop, SocketsClosed, CloseAllConnections, HttpClosed, Drained, DatabaseClosed,
         TelemetryClosed, LogClosed, AppClosed, Advance, TelemetryActs, telemetryVars
    <3>3. CASE UNCHANGED vars
      BY <3>3 DEF vars, TelemetryActs, telemetryVars
    <3>4. CASE TelemetryStep \/ \E x \in Providers : ProviderStep(x)
      BY <3>4 DEF TelemetryStep, ProviderStep, TelemetryActs
    <3>5. CASE UNCHANGED telemetryVars
      BY <3>5 DEF TelemetryActs
    <3> QED
      BY <3>1, <3>2, <3>3, <3>4, <3>5 DEF Next, RequestArrives, HandlerSettles, SessionOpens,
         ConnectionEnds, ReadyzStep, RequestDeadline, PingSettles, CloseCalled, BudgetEnds
  <2>3. flushed \notin {"none", "waiting"} => flushed' = flushed
    BY <2>0, <2>2, TelemetryKeeps
  <2>4. CASE ShutdownsSettled
    BY <2>0, <2>3, <2>4 DEF ShutdownsSettled, Resolve, Flush
  <2>5. CASE flushed' \notin {"ok", "export"} \/ flushed # "waiting"
    BY <2>3, <2>5
  <2>6. \/ UNCHANGED flushed \/ flushed' \in {"waiting", "flush_timeout"} \/ ShutdownsSettled
    BY <2>2 DEF TelemetryActs, NewRuntime, CloseRuntime, FlushTimesOut, ExportFails,
       ShutdownSettles, Resolve, telemetryVars
  <2> QED
    BY <2>4, <2>5, <2>6
<1> QED
  BY <1>1, RootInvariant, PTL DEF Spec, FlushIsTrue
=============================================================================
