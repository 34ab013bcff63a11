------------------------------- MODULE Logger -------------------------------
(***************************************************************************)
(* shared/logger/runtime.ts above its delivery: loggers are derived from     *)
(* loggers with fields, a scope, a trace or an error, and emit builds a      *)
(* record of what was bound.  What is bound is snapshot (fields.ts) or       *)
(* projected (projection.ts, errors/failure.ts) at once, so that nothing      *)
(* private is in a record, whoever derived the logger.                       *)
(***************************************************************************)
EXTENDS LogDelivery, SequencesExt

CONSTANTS
    Threshold,        \* config.level
    Severities,       \* bound: the levels the program emits at
    MaxDerivations    \* bound: derivations between the root logger and an emission

VARIABLES
    log,       \* the logger at hand: the root logger, or one derived from it
    chain,     \* ghost: the derivations that led to log
    record     \* what this step handed to Delivery.write, none if nothing

vars == <<deliveryVars, log, chain, record>>

----------------------------------------------------------------------------
(* rank of config.ts *)
rank == [debug |-> 10, info |-> 20, warn |-> 30, error |-> 40]

ASSUME ThresholdAssumption == Threshold \in DOMAIN rank /\ Severities \subseteq DOMAIN rank

(* A field's value is what it holds, at the top or inside arrays and records. *)
(* "foreign" is whatever snapshot refuses: functions, getters, instances of   *)
(* classes, cycles, sparse arrays, undefined and numbers that are not finite. *)
Holding(nested, leaves) == [nested |-> nested, holds |-> leaves]

Plain   == Holding(FALSE, {"plain"})
Wrapped == Holding(TRUE, {"plain", "secret"})
Foreign == Holding(TRUE, {"plain", "foreign"})

NoFields == [k \in {} |-> Plain]

Bindings == {[key |-> v] : v \in {Plain, Wrapped, Foreign}}

(* Values of which private parts must never show up in a record *)
Private == {"secret", "stack", "internal message", "foreign message", "cause", "details"}

Supported(fields) == \A k \in DOMAIN fields : "foreign" \notin fields[k].holds

\* Mutant: only secrets that are not inside an array or a record are masked.
snapshot_TopLevel(fields) ==
    [k \in DOMAIN fields |->
        IF fields[k].nested THEN fields[k]
        ELSE [fields[k] EXCEPT !.holds = {IF x = "secret" THEN "[REDACTED]" ELSE x : x \in @}]]

(* snapshot of supported fields: a deep copy with every SecretString masked *)
snapshot(fields) ==
    [k \in DOMAIN fields |->
        [fields[k] EXCEPT !.holds = {IF x = "secret" THEN "[REDACTED]" ELSE x : x \in @}]]

Merge(bound, fields) ==
    [k \in DOMAIN fields \cup DOMAIN bound |->
        IF k \in DOMAIN fields THEN snapshot(fields)[k] ELSE bound[k]]

----------------------------------------------------------------------------
(* What withError may get: nothing, a foreign value, or a Failure (or the     *)
(* AppError that carries it).  Only Failures made by failure() are trusted.   *)
Error(trusted, kind, message, public, private) ==
    [trusted |-> trusted, kind |-> kind, message |-> message,
     public |-> public, private |-> private]

Undefined == Error(FALSE, "none", "", {}, {})

Errors ==
    {Undefined,
     Error(FALSE, "foreign", "foreign message", {}, {"cause"}),
     Error(TRUE, "internal", "internal message", {"type"}, {"cause", "details"}),
     Error(TRUE, "conflict", "public message", {"type", "fields"}, {"cause"})}

publicInfo(e) ==
    IF ~e.trusted \/ e.kind = "internal"
    THEN [kind |-> "internal", message |-> "internal error", shown |-> {}]
    ELSE [kind    |-> e.kind,
          message |-> IF e.message = "" THEN "request failed" ELSE e.message,
          shown   |-> e.public]

(* {} when there is no error, else the one projection *)
errorProjection(e) ==
    IF e = Undefined THEN {}
    ELSE {[classified |-> e.trusted,
           kind       |-> IF e.trusted THEN e.kind ELSE "internal",
           type       |-> e.public \cap {"type"},
           public     |-> publicInfo(e),
           has_cause  |-> e.trusted /\ "cause" \in e.private]}

----------------------------------------------------------------------------
RootLogger ==
    [fields |-> NoFields, scope |-> {}, error |-> {}, trace |-> {}, bad |-> FALSE]

Init ==
    /\ DeliveryInit
    /\ log = RootLogger
    /\ chain = <<>>
    /\ record = {}

(* A derivation, named by the method and what it was given *)
Op(op, fields, error) == [op |-> op, fields |-> fields, error |-> error]

Derived(logger, op) ==
    /\ Len(chain) < MaxDerivations
    /\ emitted < MaxRecords
    /\ log' = logger
    /\ chain' = Append(chain, op)
    /\ UNCHANGED <<deliveryVars, record>>

With(fields) ==
    Derived(IF Supported(fields)
            THEN [log EXCEPT !.fields = Merge(@, fields)]
            ELSE [log EXCEPT !.bad = TRUE],
            Op("with", fields, Undefined))

(* A scope or a trace that is not valid gives a Failure and no logger, and the *)
(* caller keeps the one it has                                                *)
WithScope == Derived([log EXCEPT !.scope = {"scope"}], Op("withScope", NoFields, Undefined))
WithTrace == Derived([log EXCEPT !.trace = {"trace"}], Op("withTrace", NoFields, Undefined))

WithError(e) ==
    Derived([log EXCEPT !.error = errorProjection(e)], Op("withError", NoFields, e))

----------------------------------------------------------------------------
Record(logger, severity, extra, from) ==
    [level  |-> severity,
     fields |-> Merge(logger.fields, extra),
     scope  |-> logger.scope,
     error  |-> logger.error,
     trace  |-> logger.trace,
     from   |-> Append(from, Op("with", extra, Undefined))]

(* emit on an enabled level, in the order of its tests; the clock may give an *)
(* unusable time on any call                                                  *)
EmitRecord(logger, severity, extra, from) ==
    \/ EmitClosed /\ record' = {}
    \/ EmitFails /\ record' = {}
    \/ /\ ~logger.bad
       /\ Supported(extra)
       /\ \/ EmitDropped /\ record' = {}
          \/ EmitAccepted /\ record' = {Record(logger, severity, extra, from)}

Filtered(severity) == noop \/ rank[severity] < rank[Threshold]

emit(logger, severity, extra, from) ==
    \/ /\ Filtered(severity)
       /\ record' = {}
       /\ UNCHANGED deliveryVars
    \/ /\ ~Filtered(severity)
       /\ EmitRecord(logger, severity, extra, from)

(* debug, info, warn and error; afterwards the program starts from the root logger *)
Emits(severity, extra) ==
    /\ emit(log, severity, extra, chain)
    /\ log' = RootLogger
    /\ chain' = <<>>

----------------------------------------------------------------------------
(* NestLogger (root/logger.adapter.ts) over the root logger.  Nest passes the  *)
(* context last, and to error a stack before it or alone.                      *)
Context(params) ==
    IF params = <<>> THEN NoFields ELSE [context |-> Holding(FALSE, {Last(params)})]

NestWrite(severity, error, params) ==
    LET logger == [RootLogger EXCEPT !.error = errorProjection(error)] IN
    /\ emit(logger, severity, Context(params),
            IF error = Undefined THEN <<>> ELSE <<Op("withError", NoFields, error)>>)
    /\ log = RootLogger
    /\ UNCHANGED <<log, chain>>

(* A message that is a string is written as it is, anything else is an error *)
NestLogs ==
    \E error \in Errors :
        \/ \E severity \in Severities, params \in {<<>>, <<"context">>} :
              NestWrite(severity, error, params)
        \/ \E params \in {<<"stack">>, <<"stack", "context">>} :
              NestWrite("error", error, IF Len(params) > 1 THEN <<Last(params)>> ELSE <<>>)

----------------------------------------------------------------------------
Derive ==
    \/ \E fields \in Bindings : With(fields)
    \/ WithScope
    \/ WithTrace
    \/ \E e \in Errors : WithError(e)

Deliver ==
    /\ DeliveryStep
    /\ UNCHANGED <<log, chain, record>>

(* The synchronous call that handed a record over returns before anything else *)
Return ==
    /\ record # {}
    /\ record' = {}
    /\ UNCHANGED <<deliveryVars, log, chain>>

Running ==
    \/ Derive
    \/ \E severity \in Severities, extra \in {NoFields} \cup Bindings : Emits(severity, extra)
    \/ NestLogs
    \/ Deliver

Next == Return \/ (record = {} /\ Running)

(* setTimeout fires and a resolved promise runs its continuation, whatever  *)
(* the sink does                                                            *)
Spec ==
    /\ Init
    /\ [][Next]_vars
    /\ WF_vars(Return)
    /\ \A c \in Closers : WF_vars(record = {} /\ Deliver /\ Answers(c))

----------------------------------------------------------------------------
(* Everything of a record that is text *)
Leaves(r) ==
    (UNION {r.fields[k].holds : k \in DOMAIN r.fields}) \cup
    (UNION {{e.kind, e.public.kind, e.public.message} \cup e.type \cup e.public.shown
                : e \in r.error})

(* The last derivation of the chain that satisfies Test, as a set *)
LastOf(from, Test(_)) ==
    {from[i] : i \in {j \in DOMAIN from :
                        /\ Test(from[j])
                        /\ \A k \in DOMAIN from : Test(from[k]) => k <= j}}

(* What a record shows of the derivations it came from, and nothing else *)
IsSafe(r) ==
    /\ Leaves(r) \cap Private = {}
    /\ rank[r.level] >= rank[Threshold]
    /\ \A i \in DOMAIN r.from : Supported(r.from[i].fields)
    /\ DOMAIN r.fields = UNION {DOMAIN r.from[i].fields : i \in DOMAIN r.from}
    /\ \A k \in DOMAIN r.fields :
          \A op \in LastOf(r.from, LAMBDA o : k \in DOMAIN o.fields) :
              /\ r.fields[k].nested = op.fields[k].nested
              /\ r.fields[k].holds \ {"[REDACTED]"} = op.fields[k].holds \ {"secret"}
    /\ LET last == LastOf(r.from, LAMBDA o : o.op = "withError") IN
          r.error = UNION {errorProjection(o.error) : o \in last}
    /\ (r.scope # {}) <=> \E i \in DOMAIN r.from : r.from[i].op = "withScope"
    /\ (r.trace # {}) <=> \E i \in DOMAIN r.from : r.from[i].op = "withTrace"

(* A record that reaches the queue shows no secret, no stack and nothing of an *)
(* error but its public part, at whatever depth and derivation it was bound;   *)
(* no unsupported value is anywhere in its chain; and it shows, for every key, *)
(* scope, trace and error, the last binding of the chain and nothing else.     *)
RecordsAreSafe == \A r \in record : IsSafe(r)

============================================================================
