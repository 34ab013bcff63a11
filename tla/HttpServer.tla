----------------------------- MODULE HttpServer -----------------------------
(***************************************************************************)
(* The request boundary of shared/http/nest/server.ts with Active of         *)
(* shared/http/lifecycle.ts: a request is observed by the middleware, handled *)
(* (routing, body, admission to the worker set, the handler racing its        *)
(* deadline, the response), and finished once by whichever of the response's   *)
(* finish, close and error events comes first.  Each action is the code        *)
(* between two awaits or one event callback; the handler, the peer and the     *)
(* timers act in any order.                                                    *)
(***************************************************************************)
EXTENDS HttpPolicy, Sequences, FiniteSets

CONSTANTS
    Requests,
    MaxActive,      \* config.maxActive
    HandlerKinds    \* failure kinds the route handlers return

ASSUME MaxActiveAssumption == MaxActive \in Nat \ {0}
ASSUME HandlerKindsAssumption == HandlerKinds \subseteq Kinds

VARIABLES
    req,         \* the State of each request and its response
    handler,     \* its handler promise: "none", "running" or "settled"
    workers,     \* Server.#workers
    completed    \* the completions Active.finish gave its outputs, per request

vars == <<req, handler, workers, completed>>

(* pc: "new", "observed" (middleware ran), "body" (in readBody), "racing"     *)
(*     (awaiting handler or deadline), "answered" (handle returned)            *)
(* res: "open", "sent" (headers committed), "finished", "destroyed", "closed"  *)
Exchange == [pc : {"new", "observed", "body", "racing", "answered"},
             selected : Kinds \cup {NoKind}, termination : Terminations,
             aborted : BOOLEAN,
             res : {"open", "sent", "finished", "destroyed", "closed"},
             status : Statuses]

Facts == [status : Statuses, failureKind : Kinds \cup {NoKind}, termination : Terminations]

(* Each exchange keeps to the statuses the boundary can commit and to the    *)
(* terminations policy.ts lists.                                             *)
TypeOK ==
    /\ req \in [Requests -> Exchange]
    /\ handler \in [Requests -> {"none", "running", "settled"}]
    /\ workers \subseteq Requests
    /\ completed \in [Requests -> Seq([facts : Facts, spanError : BOOLEAN,
          outcome : {"success", "refused", "failed", "canceled", "timed_out"}])]

Init ==
    /\ req = [r \in Requests |->
                [pc |-> "new", selected |-> NoKind, termination |-> "response_completed",
                 aborted |-> FALSE, res |-> "open", status |-> NoStatus]]
    /\ handler = [r \in Requests |-> "none"]
    /\ workers = {}
    /\ completed = [r \in Requests |-> <<>>]

----------------------------------------------------------------------------
(* Active.finish: invalid facts change nothing, the first valid ones win.    *)
(* Its clock is monotonic (the owner's duty), so that no duration is refused *)
ActiveFinish(r, facts) ==
    completed' = IF ValidFacts(facts) /\ completed[r] = <<>>
                 THEN [completed EXCEPT ![r] = Append(@, Completion(facts))]
                 ELSE completed

\* Mutant: the termination is not passed on.
FactsOf_StatusOnly(x) ==
    [status |-> x.status, failureKind |-> x.selected, termination |-> "response_completed"]

FactsOf(x) == [status |-> x.status, failureKind |-> x.selected, termination |-> x.termination]

(* The middleware: observation starts, the scope opens or the failure of its *)
(* clock, its generator or its ID is selected, and the response's events are  *)
(* subscribed to                                                             *)
Middleware(r) ==
    /\ req[r].pc = "new"
    /\ \E selected \in {NoKind, "invalid", "internal", "unavailable"} :
         req' = [req EXCEPT ![r].pc = "observed", ![r].selected = selected]
    /\ UNCHANGED <<handler, workers, completed>>

----------------------------------------------------------------------------
(* The end of handle: a destroyed response is left alone, else one is sent.  *)
(* handle catches a throw of send after the headers were committed: the      *)
(* error is selected and the response destroyed, whose close event follows.  *)
(* Whether Express's send can throw there is not known from this code; the   *)
(* path is modelled since handle has it                                      *)
Responses(x, status) ==
    LET sent == [x EXCEPT !.pc = "answered", !.res = "sent", !.status = status] IN
    IF x.res # "open" THEN {[x EXCEPT !.pc = "answered"]}
    ELSE {sent, [sent EXCEPT !.selected = "internal", !.termination = "handler_error",
                             !.res = "destroyed"]}

Respond(r, x, status) == \E y \in Responses(x, status) : req' = [req EXCEPT ![r] = y]

Refuse(r, x, kind, status) == Respond(r, [x EXCEPT !.selected = kind], status)

Busy == Cardinality(workers) >= MaxActive

(* Admission: a full worker set answers 503, else the handler starts *)
Admit(r, x) ==
    IF Busy
    THEN /\ Refuse(r, x, "unavailable", 503)
         /\ UNCHANGED <<handler, workers>>
    ELSE /\ req' = [req EXCEPT ![r] = [x EXCEPT !.pc = "racing"]]
         /\ handler' = [handler EXCEPT ![r] = "running"]
         /\ workers' = workers \cup {r}

(* handle up to its first await.  Without a scope, a route, an allowed method *)
(* or the JSON media type it answers at once; a declared body is read first   *)
Handle(r) ==
    /\ req[r].pc = "observed"
    /\ LET x == req[r] IN
         IF x.selected # NoKind
         THEN Respond(r, x, problemStatus(x.selected)) /\ UNCHANGED <<handler, workers>>
         ELSE \/ /\ \/ Refuse(r, x, "not_found", 404)
                    \/ Refuse(r, x, "invalid", 405)
                    \/ Refuse(r, x, "invalid", 415)
                    \/ req' = [req EXCEPT ![r].pc = "body"]
                 /\ UNCHANGED <<handler, workers>>
              \/ Admit(r, x)
    /\ UNCHANGED completed

(* readBody resolved without a status: the whole body arrived *)
BodyEnds(r) ==
    /\ req[r].pc = "body"
    /\ Admit(r, req[r])
    /\ UNCHANGED completed

(* readBody's own timer, the size limit, or an aborted request *)
BodyRejected(r, status) ==
    /\ req[r].pc = "body"
    /\ Refuse(r, [req[r] EXCEPT !.termination = IF status = 408 THEN "deadline" ELSE @],
              "invalid", status)
    /\ UNCHANGED <<handler, workers, completed>>

(* The handler settles.  Its promise leaves the worker set whenever that is; *)
(* only a race it won is answered.  A value JSON cannot encode is caught and *)
(* answered 500                                                              *)
HandlerSettles(r) ==
    /\ handler[r] = "running"
    /\ handler' = [handler EXCEPT ![r] = "settled"]
    /\ workers' = workers \ {r}
    /\ IF req[r].pc = "racing"
       THEN \/ Respond(r, req[r], 200)
            \/ \E kind \in HandlerKinds : Refuse(r, req[r], kind, problemStatus(kind))
            \/ req[r].res = "open" /\ Refuse(r, req[r], "internal", 500)
       ELSE UNCHANGED req
    /\ UNCHANGED completed

\* Mutant: the handler is not told.
Deadline_NoAbort(r) ==
    /\ req[r].pc = "racing"
    /\ Refuse(r, [req[r] EXCEPT !.termination = "deadline"], "timeout", problemStatus("timeout"))
    /\ UNCHANGED <<handler, workers, completed>>

\* Mutant: the handler is awaited before the timeout is answered.
Deadline_OnlyCooperative(r) ==
    /\ req[r].pc = "racing"
    /\ handler[r] = "settled"
    /\ Refuse(r, [req[r] EXCEPT !.termination = "deadline", !.aborted = TRUE],
              "timeout", problemStatus("timeout"))
    /\ UNCHANGED <<handler, workers, completed>>

(* The deadline timer: the handler is told to stop, its worker stays counted *)
Deadline(r) ==
    /\ req[r].pc = "racing"
    /\ Refuse(r, [req[r] EXCEPT !.termination = "deadline", !.aborted = TRUE],
              "timeout", problemStatus("timeout"))
    /\ UNCHANGED <<handler, workers, completed>>

----------------------------------------------------------------------------
(* res 'finish': the response was handed to the runtime *)
ResponseFinishes(r) ==
    /\ req[r].res = "sent"
    /\ req' = [req EXCEPT ![r].res = "finished"]
    /\ ActiveFinish(r, FactsOf(req[r]))
    /\ UNCHANGED <<handler, workers>>

(* res 'error': a write failed *)
WriteFails(r) ==
    /\ req[r].pc # "new"
    /\ req[r].res = "sent"
    /\ LET x == [req[r] EXCEPT !.termination = "write_error", !.res = "destroyed"] IN
         /\ req' = [req EXCEPT ![r] = x]
         /\ ActiveFinish(r, FactsOf(x))
    /\ UNCHANGED <<handler, workers>>

(* What finish(closed) makes of an exchange whose response was not finished *)
PeerClosed(x) ==
    IF x.res = "finished" THEN x
    ELSE [x EXCEPT !.termination = "peer_closed", !.aborted = TRUE]

(* res 'close', with the peer gone at any moment or after finish or destroy *)
ResponseCloses(r) ==
    /\ req[r].pc # "new"
    /\ req[r].res # "closed"
    /\ LET x == PeerClosed(req[r]) IN
         /\ req' = [req EXCEPT ![r] = [x EXCEPT !.res = "closed"]]
         /\ ActiveFinish(r, FactsOf(x))
    /\ UNCHANGED <<handler, workers>>

Next == \E r \in Requests :
    \/ Middleware(r)
    \/ Handle(r)
    \/ BodyEnds(r)
    \/ \E status \in {400, 408, 413} : BodyRejected(r, status)
    \/ HandlerSettles(r)
    \/ Deadline(r)
    \/ ResponseFinishes(r)
    \/ WriteFails(r)
    \/ ResponseCloses(r)

Spec == Init /\ [][Next]_vars

(* Express calls handle, timers fire, and the runtime either flushes a sent   *)
(* response or closes its socket.  Handlers and bodies may never end.         *)
Fairness == \A r \in Requests :
    /\ WF_vars(Handle(r))
    /\ WF_vars(BodyRejected(r, 408))
    /\ WF_vars(Deadline(r))
    /\ WF_vars(ResponseFinishes(r) \/ (req[r].res \in {"sent", "destroyed"} /\ ResponseCloses(r)))

FairSpec == Spec /\ Fairness

----------------------------------------------------------------------------
(* An exchange that ended, by whatever mix of finish, error and close events, *)
(* has exactly one completion: the events are not double counted and no       *)
(* ending leaves facts that Active.finish refuses (CONTRACT.md H06).          *)
CompletedExactlyOnce == \A r \in Requests :
    /\ Len(completed[r]) <= 1
    /\ req[r].res \in {"finished", "closed"} => Len(completed[r]) = 1

(* Every handler that still runs is in the worker set, and the set is within  *)
(* config.maxActive: a handler that ignores its deadline keeps its slot.      *)
WorkersAreBounded ==
    /\ workers = {r \in Requests : handler[r] = "running"}
    /\ Cardinality(workers) <= MaxActive

(* Only an exchange whose handler settled ok in time and whose 200 was handed  *)
(* to the runtime is counted a success; a deadline, a peer close, a refusal   *)
(* or a write error never is.                                                 *)
SuccessIsReal == \A r \in Requests : \A i \in 1..Len(completed[r]) :
    completed[r][i].outcome = "success" =>
        /\ handler[r] = "settled"
        /\ req[r].selected = NoKind
        /\ req[r].status = 200
        /\ req[r].termination = "response_completed"
        /\ req[r].res \in {"finished", "closed"}

(* What the observer is told of an exchange is told once and is true, whatever *)
(* the order of its response events, its deadline and its handler's result.    *)
CompletionIsTrue == CompletedExactlyOnce /\ SuccessIsReal

(* A handler that outlives its exchange has been told: once its request was  *)
(* answered or its response closed, the abort signal is set.                 *)
OrphansAreAborted == \A r \in Requests :
    handler[r] = "running" /\ (req[r].pc = "answered" \/ req[r].res = "closed")
        => req[r].aborted

(* No handler is forgotten, in a well-typed state: it holds a worker slot for  *)
(* as long as it runs, and it is told when its exchange is over.               *)
HandlersAreAccounted == TypeOK /\ WorkersAreBounded /\ OrphansAreAborted

(* Every request the middleware observed is completed, although its handler   *)
(* may hang and its body may never arrive: the timers and the response events *)
(* see to it.                                                                 *)
EventuallyCompleted ==
    \A r \in Requests : req[r].pc # "new" ~> completed[r] # <<>>

(* What CONTRACT.md H06 says of an exchange whose deadline has struck, and    *)
(* which is being answered with the timeout problem: "the server-owned        *)
(* deadline gives timed_out" (nest/server.ts, the timer of handle, against the *)
(* close event of the response).  H06 lets a failed write count as failed.    *)
OwnTerminationIsRecorded ==
    [][\A r \in Requests :
          /\ completed[r] = <<>> /\ completed'[r] # <<>>
          /\ req[r].termination = "deadline" /\ req[r].selected = "timeout"
          => completed'[r][1].outcome = "timed_out" \/ req'[r].termination = "write_error"]_vars
============================================================================
