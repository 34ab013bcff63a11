-------------------------------- MODULE Gate --------------------------------
(***************************************************************************)
(* The readiness gate of shared/health/index.ts: one evaluation at a time     *)
(* runs the required checks in order, racing a budget timer and the caller's   *)
(* signal; draining is irreversible.  The evaluation is detached from the      *)
(* caller it was started for: a check that ignores its signal keeps running    *)
(* after the caller was answered.  Module Root composes the gate with the     *)
(* process that owns it.                                                      *)
(***************************************************************************)
EXTENDS Integers, FiniteSets

CONSTANTS
    Probes,       \* calls of ready(signal)
    MaxChecks     \* 16, the constructor's limit

ASSUME MaxChecksAssumption == MaxChecks \in Nat

VARIABLES
    gate,       \* Gate.#state
    checks,     \* how many required checks the constructor was given
    busy,       \* Gate.#busy
    probe,      \* the caller's side of each ready()
    work        \* the evaluation each ready() started

gateVars == <<gate, checks, busy, probe, work>>

(* A caller: "new", "waiting" (in the race), then "ready" or "not_ready".     *)
(* stopped: the stopped promise resolved and the controller aborted;           *)
(* canceled: the caller's own signal aborted.                                  *)
Caller == [pc : {"new", "waiting", "ready", "not_ready"},
           stopped : BOOLEAN, canceled : BOOLEAN]

(* An evaluation: "none", "running" with the number of checks that passed, or *)
(* ended with its verdict.                                                     *)
Evaluation == [pc : {"none", "running", "passed", "refused"}, passed : 0..MaxChecks]

(* The gate, its callers and its evaluations keep to their states, and #busy *)
(* is exactly whether an evaluation runs, a hanging one included: timed-out    *)
(* probes do not pile up detached checks (CONTRACT.md H03).                    *)
GateTypeOK ==
    /\ gate \in {"starting", "serving", "draining"}
    /\ checks \in 0..MaxChecks
    /\ busy \in BOOLEAN
    /\ probe \in [Probes -> Caller]
    /\ work \in [Probes -> Evaluation]
    /\ busy <=> \E p \in Probes : work[p].pc = "running"

GateInit ==
    /\ gate = "starting"
    /\ checks = 0
    /\ busy = FALSE
    /\ probe = [p \in Probes |-> [pc |-> "new", stopped |-> FALSE, canceled |-> FALSE]]
    /\ work = [p \in Probes |-> [pc |-> "none", passed |-> 0]]

----------------------------------------------------------------------------
(* new Gate(budget, checks): a list that is too long throws *)
Construct(n) ==
    /\ n <= MaxChecks
    /\ checks' = n
    /\ UNCHANGED <<gate, busy, probe, work>>

(* start() of a gate that is no longer starting returns false *)
StartGate ==
    /\ gate' = IF gate = "starting" THEN "serving" ELSE gate
    /\ UNCHANGED <<checks, busy, probe, work>>

DrainGate ==
    /\ gate' = "draining"
    /\ UNCHANGED <<checks, busy, probe, work>>

(* ready(): refused unless serving, idle and not canceled *)
ProbeRefused(p) ==
    /\ probe[p].pc = "new"
    /\ gate # "serving" \/ busy \/ probe[p].canceled
    /\ probe' = [probe EXCEPT ![p].pc = "not_ready"]
    /\ UNCHANGED <<gate, checks, busy, work>>

(* The loop over the checks once n have passed: all passed, or the aborted   *)
(* signal is seen before the next one starts, or the next one is awaited      *)
Loop(n, stopped) ==
    IF n = checks THEN "passed" ELSE IF stopped THEN "refused" ELSE "running"

(* The evaluation is at pc; its finally block frees the gate when it ends *)
WorkAt(p, pc, n) ==
    /\ work' = [work EXCEPT ![p] = [pc |-> pc, passed |-> n]]
    /\ busy' = (pc = "running")

Evaluate(p) ==
    /\ probe[p].pc = "new"
    /\ gate = "serving" /\ ~busy /\ ~probe[p].canceled
    /\ probe' = [probe EXCEPT ![p].pc = "waiting"]
    /\ WorkAt(p, Loop(0, FALSE), 0)
    /\ UNCHANGED <<gate, checks>>

CheckPasses(p) ==
    /\ work[p].pc = "running"
    /\ WorkAt(p, Loop(work[p].passed + 1, probe[p].stopped), work[p].passed + 1)
    /\ UNCHANGED <<gate, checks, probe>>

(* A check answers not ok or throws *)
CheckRefuses(p) ==
    /\ work[p].pc = "running"
    /\ WorkAt(p, "refused", work[p].passed)
    /\ UNCHANGED <<gate, checks, probe>>

----------------------------------------------------------------------------
(* The budget timer.  Once the evaluation has ended the caller's continuation *)
(* runs, and clears the timer, before any timer can fire                      *)
ProbeTimesOut(p) ==
    /\ probe[p].pc = "waiting"
    /\ work[p].pc = "running"
    /\ ~probe[p].stopped
    /\ probe' = [probe EXCEPT ![p].stopped = TRUE]
    /\ UNCHANGED <<gate, checks, busy, work>>

CallerCancels(p) ==
    /\ probe[p].pc \in {"new", "waiting"}
    /\ ~probe[p].canceled
    /\ probe' = [probe EXCEPT ![p].canceled = TRUE, ![p].stopped = @ \/ probe[p].pc = "waiting"]
    /\ UNCHANGED <<gate, checks, busy, work>>

\* Mutant: the state is not rechecked after the checks.
StillReady_Stale(p) == work[p].pc = "passed" /\ ~probe[p].canceled

(* The race is over: stopped won, or the evaluation did and the answer is    *)
(* ready only if it passed, the gate still serves and the caller did not      *)
(* cancel.  Whatever comes between the end of the race and this continuation   *)
(* is another microtask                                                        *)
StillReady(p) == work[p].pc = "passed" /\ gate = "serving" /\ ~probe[p].canceled

Answer(p) ==
    /\ probe[p].pc = "waiting"
    /\ \/ /\ ~probe[p].stopped /\ work[p].pc # "running"
          /\ probe' = [probe EXCEPT ![p].pc = IF StillReady(p) THEN "ready" ELSE "not_ready"]
       \/ /\ probe[p].stopped
          /\ probe' = [probe EXCEPT ![p].pc = "not_ready"]
    /\ UNCHANGED <<gate, checks, busy, work>>

============================================================================
