----------------------------- MODULE Telemetry -----------------------------
(***************************************************************************)
(* The telemetry runtime of shared/telemetry/otel/runtime.ts: providers    *)
(* whose exporters report failed exports to one counter, and a close()     *)
(* that races the shutdown of all providers against a timer.  Its promise  *)
(* is made once.  What providers and exporters do is the SDK's business:   *)
(* an export may fail at any time, a shutdown may resolve, reject or hang. *)
(* Module Root composes the runtime with the process that owns it.         *)
(***************************************************************************)
CONSTANTS Providers    \* traces, metrics and logs

VARIABLES
    providers,    \* each: "off" (mode none), "up", "closing", "down", "rejected"
    failed,       \* #failedExports > 0
    flushed       \* #closing: "none", "waiting", or the result it resolved to

telemetryVars == <<providers, failed, flushed>>

TelemetryTypeOK ==
    /\ providers \in [Providers -> {"off", "up", "closing", "down", "rejected"}]
    /\ failed \in BOOLEAN
    /\ flushed \in {"none", "waiting", "ok", "export", "flush_timeout"}

TelemetryInit ==
    /\ providers = [x \in Providers |-> "off"]
    /\ failed = FALSE
    /\ flushed = "none"

\* new Runtime(c): mode none starts nothing.
NewRuntime(mode) ==
    /\ providers' = [x \in Providers |-> IF mode = "otlp" THEN "up" ELSE "off"]
    /\ UNCHANGED <<failed, flushed>>

\* An export fails.  The counter is only read when close() resolves: an
\* earlier failure is the same to it, and a later one is not seen.
ExportFails(x) ==
    /\ providers[x] = "closing"
    /\ ~failed
    /\ failed' = TRUE
    /\ UNCHANGED <<providers, flushed>>

\* The first close(): every provider is told to shut down.
CloseRuntime ==
    /\ flushed = "none"
    /\ flushed' = "waiting"
    /\ providers' = [x \in Providers |->
                       IF providers[x] = "up" THEN "closing" ELSE providers[x]]
    /\ UNCHANGED failed

ShutdownSettles(x, how) ==
    /\ providers[x] = "closing"
    /\ how \in {"down", "rejected"}
    /\ providers' = [providers EXCEPT ![x] = how]
    /\ UNCHANGED <<failed, flushed>>

\* The promise resolves; nobody looks at providers and counter again.
Resolve(result) ==
    /\ flushed' = result
    /\ providers' = [x \in Providers |-> "off"]
    /\ failed' = FALSE

\* Mutant: only rejected shutdowns count.
Flush_Optimistic ==
    IF \E x \in Providers : providers[x] = "rejected" THEN "export" ELSE "ok"

Flush ==
    IF failed \/ \E x \in Providers : providers[x] = "rejected" THEN "export" ELSE "ok"

\* allSettled: the timer is cleared and the promise resolves, unless the
\* timer was first.
ShutdownsSettled ==
    /\ flushed = "waiting"
    /\ \A x \in Providers : providers[x] \in {"off", "down", "rejected"}
    /\ Resolve(Flush)

FlushTimesOut ==
    /\ flushed = "waiting"
    /\ Resolve("flush_timeout")

-----------------------------------------------------------------------------
(***************************************************************************)
(* Contract T11: close() says ok only when every provider has shut down    *)
(* and no export failed before, and export only when something did; a      *)
(* result, once given, is what every later caller gets.                    *)
(***************************************************************************)
FlushIsTrue ==
    [][/\ flushed = "waiting" /\ flushed' = "ok" =>
            ~failed /\ \A x \in Providers : providers[x] \in {"off", "down"}
       /\ flushed = "waiting" /\ flushed' = "export" =>
            failed \/ \E x \in Providers : providers[x] = "rejected"
       /\ flushed \notin {"none", "waiting"} => flushed' = flushed]_telemetryVars
=============================================================================
