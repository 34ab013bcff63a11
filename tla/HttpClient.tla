----------------------------- MODULE HttpClient -----------------------------
(***************************************************************************)
(* The outbound client of shared/httpclient/index.ts: one attempt per call,   *)
(* under a timer, the caller's signal and close(), with a bounded response     *)
(* body and a bounded number of calls.  The promise of a call is settled by    *)
(* the first of the response's data, end and error events and the request's     *)
(* error event; later ones find it settled.                                    *)
(***************************************************************************)
EXTENDS Integers, FiniteSets

CONSTANTS
    Calls,
    MaxCalls,       \* 64 in the code
    MaxResponse,    \* config.maxResponse, in chunks
    MaxSent         \* bound: chunks a server sends

ASSUME MaxCallsAssumption == MaxCalls \in Nat \ {0}
ASSUME SizesAssumption == MaxResponse \in Nat \ {0} /\ MaxSent \in Nat

VARIABLES
    call,      \* the locals of each do()
    activeCalls,   \* Client.#active: the calls whose controller it holds
    clientClosed   \* Client.#closed

clientVars == <<call, activeCalls, clientClosed>>

Results == {"ok", "closed", "busy", "canceled", "request", "timeout", "network",
            "protocol", "response_too_large"}

(* pc: "new", "pending" or "settled"; net: what the transport has in store,    *)
(* "live" or "dead" (destroyed: only its error event is left)                  *)
Call == [pc : {"new", "pending", "settled"}, result : Results \cup {"none"},
         size : 0..MaxSent, net : {"none", "live", "dead"},
         signal : BOOLEAN, aborted : BOOLEAN, timedOut : BOOLEAN]

(* Calls keep to their states, and no more than the limit hold a controller. *)
ClientTypeOK ==
    /\ call \in [Calls -> Call]
    /\ activeCalls \subseteq Calls /\ Cardinality(activeCalls) <= MaxCalls
    /\ clientClosed \in BOOLEAN

ClientInit ==
    /\ call = [c \in Calls |-> [pc |-> "new", result |-> "none", size |-> 0, net |-> "none",
                                signal |-> FALSE, aborted |-> FALSE, timedOut |-> FALSE]]
    /\ activeCalls = {}
    /\ clientClosed = FALSE

----------------------------------------------------------------------------
(* The early returns of do(), in the order of the code *)
Refusal(c) ==
    IF clientClosed THEN {"closed"}
    ELSE IF Cardinality(activeCalls) >= MaxCalls THEN {"busy"}
    ELSE IF call[c].signal THEN {"canceled"}
    ELSE {"request", "none"}      \* an invalid request, or an admitted one

Do(c) ==
    /\ call[c].pc = "new"
    /\ \E refusal \in Refusal(c) :
         IF refusal # "none"
         THEN /\ call' = [call EXCEPT ![c].pc = "settled", ![c].result = refusal]
              /\ UNCHANGED activeCalls
         ELSE /\ call' = [call EXCEPT ![c].pc = "pending", ![c].net = "live"]
              /\ activeCalls' = activeCalls \cup {c}
    /\ UNCHANGED clientClosed

(* The promise settles and the finally block releases timer, listener and slot *)
Settle(c, x, result) ==
    /\ call' = [call EXCEPT ![c] = [x EXCEPT !.pc = "settled", !.result = result,
                                             !.net = "dead"]]
    /\ activeCalls' = activeCalls \ {c}
    /\ UNCHANGED clientClosed

\* Mutant: the abort hides the timeout that caused it.
Cause_AbortFirst(x) == IF x.aborted THEN "canceled" ELSE IF x.timedOut THEN "timeout" ELSE "network"

(* What an error event means *)
Cause(x) == IF x.timedOut THEN "timeout" ELSE IF x.aborted THEN "canceled" ELSE "network"

Fits(size) == size <= MaxResponse

(* response 'data': past the limit the call fails and the sockets are destroyed *)
Data(c) ==
    /\ call[c].pc = "pending" /\ call[c].net = "live"
    /\ call[c].size < MaxSent
    /\ LET x == [call[c] EXCEPT !.size = @ + 1] IN
         IF Fits(x.size)
         THEN call' = [call EXCEPT ![c] = x] /\ UNCHANGED <<activeCalls, clientClosed>>
         ELSE Settle(c, x, "response_too_large")

(* response 'end', which may have been on its way when the timer or an abort  *)
(* came; an incomplete message or a status out of range is a protocol failure *)
End(c) ==
    /\ call[c].pc = "pending"
    /\ \E result \in {"ok", "protocol"} : Settle(c, call[c], result)

(* request or response 'error': the network's own, or the one a destroyed     *)
(* request always emits                                                        *)
NetworkFails(c) ==
    /\ call[c].pc = "pending"
    /\ Settle(c, call[c], Cause(call[c]))

(* controller.abort(): node destroys the request *)
Abort(x) == [x EXCEPT !.aborted = TRUE, !.net = "dead"]

\* Mutant: the timer only sets its flag.
TimesOut_NoAbort(c) ==
    /\ call[c].pc = "pending"
    /\ ~call[c].timedOut
    /\ call' = [call EXCEPT ![c].timedOut = TRUE]
    /\ UNCHANGED <<activeCalls, clientClosed>>

(* The timer of the call *)
TimesOut(c) ==
    /\ call[c].pc = "pending"
    /\ ~call[c].timedOut
    /\ call' = [call EXCEPT ![c] = Abort([@ EXCEPT !.timedOut = TRUE])]
    /\ UNCHANGED <<activeCalls, clientClosed>>

(* The caller's signal, before or during the call *)
CallerAborts(c) ==
    /\ call[c].pc # "settled"
    /\ ~call[c].signal
    /\ call' = [call EXCEPT ![c] = LET x == [@ EXCEPT !.signal = TRUE] IN
                                   IF @.pc = "pending" THEN Abort(x) ELSE x]
    /\ UNCHANGED <<activeCalls, clientClosed>>

Close ==
    /\ ~clientClosed
    /\ clientClosed' = TRUE
    /\ call' = [c \in Calls |-> IF c \in activeCalls THEN Abort(call[c]) ELSE call[c]]
    /\ UNCHANGED activeCalls

ClientNext ==
    \/ \E c \in Calls :
         Do(c) \/ Data(c) \/ End(c) \/ NetworkFails(c) \/ TimesOut(c) \/ CallerAborts(c)
    \/ Close

ClientSpec == ClientInit /\ [][ClientNext]_clientVars

(* The timer fires, and a destroyed request emits its error; the server and   *)
(* the network owe nothing.                                                    *)
ClientFairSpec == ClientSpec /\ \A c \in Calls :
    WF_clientVars(TimesOut(c)) /\ WF_clientVars(call[c].net = "dead" /\ NetworkFails(c))

----------------------------------------------------------------------------
(* The controllers held are those of the pending calls, and once the client   *)
(* is closed every one of them is aborted: close() misses no call, not one     *)
(* admitted just before and not one admitted after.                            *)
ClosedLeavesNoLiveCall ==
    /\ activeCalls = {c \in Calls : call[c].pc = "pending"}
    /\ clientClosed => \A c \in activeCalls : call[c].aborted

(* The reported cause is what happened: "timeout" only after the call's timer *)
(* fired and never hidden behind the abort it caused, "canceled" only after    *)
(* the caller's signal or close(), "network" never after an abort of ours, and *)
(* an ok body is within config.maxResponse.                                    *)
ResultIsTrue == \A c \in Calls :
    /\ call[c].result = "timeout" => call[c].timedOut
    /\ call[c].result = "canceled" => ~call[c].timedOut /\ (call[c].signal \/ clientClosed)
    /\ call[c].result = "network" => ~call[c].aborted
    /\ call[c].result = "ok" => call[c].size <= MaxResponse

(* In a well-typed state, no call escapes close() and no result is untrue,    *)
(* whichever of timer, signals, body and network came first.                   *)
CallsAreSound == ClientTypeOK /\ ClosedLeavesNoLiveCall /\ ResultIsTrue

(* A call is settled although the server may never answer. *)
EveryCallSettles == \A c \in Calls : call[c].pc = "pending" ~> call[c].pc = "settled"
============================================================================
