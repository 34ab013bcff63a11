----------------------------- MODULE HttpPolicy -----------------------------
(***************************************************************************)
(* The pure part of shared/http: the status a failure kind is answered with *)
(* (problem.ts) and the classification of a finished exchange (policy.ts).  *)
(***************************************************************************)
EXTENDS Integers

Kinds == {"invalid", "not_found", "conflict", "unauthenticated", "forbidden",
          "rate_limited", "unavailable", "timeout", "canceled", "internal"}

NoKind == "none"      \* facts.failureKind is undefined
NoStatus == 0         \* facts.status is undefined: no final status was committed

Terminations == {"response_completed", "peer_closed", "deadline",
                 "handler_error", "write_error", "abandoned"}

(* problemOf: a value nobody classified is public as internal *)
problemStatus(kind) ==
    CASE kind = "invalid"         -> 400
      [] kind = "unauthenticated" -> 401
      [] kind = "forbidden"       -> 403
      [] kind = "not_found"       -> 404
      [] kind = "conflict"        -> 409
      [] kind = "rate_limited"    -> 429
      [] kind \in {"unavailable", "timeout", "canceled"} -> 503
      [] kind = "internal"        -> 500

Statuses == {NoStatus, 200, 405, 408, 413, 415} \cup {problemStatus(k) : k \in Kinds}

(* The facts classifyCompletion refuses: a completed response has a status *)
ValidFacts(f) ==
    /\ f.status = NoStatus \/ f.status \in 200..599
    /\ f.failureKind \in Kinds \cup {NoKind}
    /\ f.termination \in Terminations
    /\ f.termination = "response_completed" => f.status # NoStatus

Outcome(f) ==
    CASE f.termination = "peer_closed" -> "canceled"
      [] f.termination = "deadline"    -> "timed_out"
      [] f.termination \in {"handler_error", "write_error", "abandoned"} -> "failed"
      [] f.failureKind = "timeout"     -> "timed_out"
      [] f.failureKind = "canceled"    -> "canceled"
      [] f.failureKind \in {"internal", "unavailable"} -> "failed"
      [] f.failureKind # NoKind        -> "refused"
      [] f.status >= 500 -> "failed"
      [] f.status >= 400 -> "refused"
      [] OTHER           -> "success"

SpanError(f) ==
    \/ f.termination # "response_completed"
    \/ f.status >= 500
    \/ Outcome(f) \in {"failed", "canceled", "timed_out"}

Completion(f) == [facts |-> f, outcome |-> Outcome(f), spanError |-> SpanError(f)]
============================================================================
