--------------------------- MODULE TransportProofs ---------------------------
(***************************************************************************)
(* The three transport adapters, for any limits and any number of clients: *)
(* the request boundary (module HttpServer), with any failures its         *)
(* handlers return, the outbound client (module HttpClient) and the        *)
(* WebSocket endpoint (module WsServer).                                   *)
(***************************************************************************)
EXTENDS HttpServer, HttpClient, WsServer, FiniteSetTheorems, TLAPS

\* The outcome "success" is earned: the handler settled in time and its 200
\* was handed to the runtime.
Earned(x, h) ==
    /\ h = "settled"
    /\ x.pc = "answered"
    /\ x.selected = NoKind
    /\ x.status = 200
    /\ x.termination = "response_completed"
    /\ x.res \in {"finished", "closed"}

\* An exchange x, its handler h and its completions k agree: a response is
\* answered once, its handler runs from the admission on and is told when it
\* is left behind, and the first event that ends the response completes it.
Agree(x, h, k) ==
    /\ x.pc \in {"new", "observed", "body"} => h = "none"
    /\ x.pc = "racing" => h = "running"
    /\ x.pc = "new" => x.res = "open"
    /\ x.pc # "answered" => x.res \in {"open", "closed"} /\ x.status = NoStatus
    /\ x.pc = "answered" => x.res # "open"
    /\ x.pc \in {"new", "body", "racing"} => x.selected = NoKind
    /\ x.pc = "answered" /\ x.selected = NoKind => h = "settled"
    /\ x.pc = "answered" /\ h = "running" => x.aborted
    /\ x.pc # "answered" /\ x.res = "closed" => x.aborted
    /\ x.res \in {"sent", "finished"} => x.status # NoStatus
    /\ x.res \in {"open", "sent"} => k = <<>>
    /\ x.res \in {"finished", "closed"} => Len(k) = 1
    /\ Len(k) <= 1
    /\ Len(k) = 1 /\ k[1].outcome = "success" => Earned(x, h)

WorkersOK == WorkersAreBounded /\ IsFiniteSet(workers)

ServerInv ==
    /\ TypeOK
    /\ \A r \in Requests : Agree(req[r], handler[r], completed[r])
    /\ WorkersOK

-----------------------------------------------------------------------------
(***************************************************************************)
(* The statuses the boundary commits are final ones, and 200 is the only   *)
(* one of them below 400; no kind is answered without a status.            *)
(***************************************************************************)
LEMMA StatusRange ==
    /\ \A kind \in Kinds : problemStatus(kind) \in 400..599
    /\ \A status \in Statuses : status = NoStatus \/ status = 200 \/ status \in 400..599
    /\ \A kind \in Kinds : problemStatus(kind) \in Statuses \ {NoStatus}
    /\ {NoStatus, 200, 400, 404, 405, 408, 413, 415, 500, 503} \subseteq Statuses
    /\ NoKind \notin Kinds
<1>1. ASSUME NEW kind \in Kinds
      PROVE  problemStatus(kind) \in {400, 401, 403, 404, 409, 429, 500, 503}
  <2>1. CASE kind \in {"invalid", "unauthenticated", "forbidden", "not_found", "conflict"}
    BY <2>1 DEF problemStatus
  <2>2. CASE kind \in {"rate_limited", "unavailable", "timeout", "canceled", "internal"}
    BY <2>2 DEF problemStatus
  <2> QED
    BY <2>1, <2>2 DEF Kinds
<1>2. \A kind \in Kinds : problemStatus(kind) \in 400..599
  <2> SUFFICES ASSUME NEW kind \in Kinds PROVE problemStatus(kind) \in 400..599
    OBVIOUS
  <2>1. problemStatus(kind) \in {400, 401, 403, 404, 409, 429, 500, 503}
    BY <1>1
  <2>2. \A n \in {400, 401, 403, 404, 409, 429, 500, 503} : n \in 400..599
    OBVIOUS
  <2> QED
    BY <2>1, <2>2
<1>3. \A status \in Statuses : status = NoStatus \/ status = 200 \/ status \in 400..599
  BY <1>2 DEF Statuses
<1>4. ASSUME NEW kind \in Kinds PROVE problemStatus(kind) \in Statuses \ {NoStatus}
  <2>1. problemStatus(kind) \in {400, 401, 403, 404, 409, 429, 500, 503}
    BY <1>1
  <2>2. \A n \in {400, 401, 403, 404, 409, 429, 500, 503} : n # NoStatus
    BY DEF NoStatus
  <2> QED
    BY <2>1, <2>2 DEF Statuses
<1>5. /\ problemStatus("invalid") = 400 /\ problemStatus("not_found") = 404
      /\ problemStatus("internal") = 500 /\ problemStatus("unavailable") = 503
      /\ {"invalid", "not_found", "internal", "unavailable"} \subseteq Kinds
  BY DEF Kinds, problemStatus
<1>6. {NoStatus, 200, 400, 404, 405, 408, 413, 415, 500, 503} \subseteq Statuses
  BY <1>5 DEF Statuses
<1>7. NoKind \notin Kinds
  BY DEF NoKind, Kinds
<1> QED
  BY <1>2, <1>3, <1>4, <1>6, <1>7

\* What Active.finish gives its outputs.
Completions == [facts : Facts, spanError : BOOLEAN,
                outcome : {"success", "refused", "failed", "canceled", "timed_out"}]

(***************************************************************************)
(* Facts that name a status, or another ending than a completed response,  *)
(* are accepted by Active.finish, and they are classified a success only   *)
(* when the response completed with 200 and no failure was selected.       *)
(***************************************************************************)
LEMMA Classified ==
    ASSUME NEW f \in Facts
    PROVE  /\ Completion(f) \in Completions
           /\ f.status # NoStatus \/ f.termination # "response_completed" => ValidFacts(f)
           /\ ValidFacts(f) /\ Completion(f).outcome = "success" =>
                 /\ f.termination = "response_completed"
                 /\ f.failureKind = NoKind
                 /\ f.status = 200
<1>1. /\ f.status \in Statuses /\ f.failureKind \in Kinds \cup {NoKind}
      /\ f.termination \in Terminations
  BY DEF Facts
<1>2. Outcome(f) \in {"success", "refused", "failed", "canceled", "timed_out"}
  BY DEF Outcome
<1>3. SpanError(f) \in BOOLEAN
  BY DEF SpanError
<1>4. Completion(f) \in Completions
  BY <1>2, <1>3 DEF Completion, Completions
<1>5. f.status = NoStatus \/ f.status = 200 \/ f.status \in 400..599
  BY <1>1, StatusRange
<1>6. f.status # NoStatus \/ f.termination # "response_completed" => ValidFacts(f)
  BY <1>1, <1>5 DEF ValidFacts
<1>7. ASSUME ValidFacts(f), Completion(f).outcome = "success"
      PROVE  /\ f.termination = "response_completed"
             /\ f.failureKind = NoKind
             /\ f.status = 200
  <2>1. Outcome(f) = "success"
    BY <1>7 DEF Completion
  <2>2. f.termination = "response_completed"
    BY <2>1, <1>1 DEF Outcome, Terminations
  <2>3. f.failureKind = NoKind
    BY <2>1, <2>2, <1>1 DEF Outcome
  <2>4. ~(f.status >= 500) /\ ~(f.status >= 400)
    BY <2>1, <2>2, <2>3, <1>1 DEF Outcome, NoKind
  <2>5. f.status # NoStatus
    BY <1>7, <2>2 DEF ValidFacts
  <2> QED
    BY <2>2, <2>3, <2>4, <2>5, <1>5
<1> QED
  BY <1>4, <1>6, <1>7

(***************************************************************************)
(* A sequence of at most one completion is empty or holds just one.        *)
(***************************************************************************)
LEMMA AtMostOne ==
    ASSUME NEW k \in Seq(Completions), Len(k) <= 1
    PROVE  /\ k # <<>> => Len(k) = 1
           /\ \A i \in 1..Len(k) : i = 1 /\ Len(k) = 1
<1>1. Len(k) \in Nat /\ (Len(k) = 0 => k = <<>>)
  OBVIOUS
<1>2. PICK n \in Nat : n = Len(k)
  BY <1>1
<1>3. n = 0 \/ n = 1
  BY <1>2
<1> QED
  BY <1>1, <1>2, <1>3

(***************************************************************************)
(* Active.finish gives at most one completion, the first valid one.        *)
(***************************************************************************)
LEMMA FinishGives ==
    ASSUME TypeOK, NEW r \in Requests, NEW f \in Facts, ActiveFinish(r, f),
           f.status # NoStatus \/ f.termination # "response_completed"
    PROVE  \E k \in Seq(Completions) :
              /\ completed' = [completed EXCEPT ![r] = k]
              /\ completed[r] # <<>> => k = completed[r]
              /\ completed[r] = <<>> => /\ Len(k) = 1
                                        /\ k[1].outcome = "success" =>
                                              /\ f.termination = "response_completed"
                                              /\ f.failureKind = NoKind
                                              /\ f.status = 200
<1>1. completed \in [Requests -> Seq(Completions)]
  BY DEF TypeOK, Completions
<1>2. ValidFacts(f) /\ Completion(f) \in Completions
  BY Classified
<1>3. CASE completed[r] = <<>>
  <2> DEFINE k == Append(completed[r], Completion(f))
  <2>1. completed' = [completed EXCEPT ![r] = k]
    BY <1>1, <1>2, <1>3 DEF ActiveFinish
  <2>2. k \in Seq(Completions) /\ Len(k) = 1 /\ k[1] = Completion(f)
    BY <1>1, <1>2, <1>3
  <2>3. k[1].outcome = "success" => /\ f.termination = "response_completed"
                                    /\ f.failureKind = NoKind
                                    /\ f.status = 200
    BY <2>2, <1>2, Classified
  <2> HIDE DEF k
  <2> QED
    BY <2>1, <2>2, <2>3, <1>3
<1>4. CASE completed[r] # <<>>
  BY <1>1, <1>4 DEF ActiveFinish
<1> QED
  BY <1>3, <1>4

-----------------------------------------------------------------------------
\* A step that turns request r into the exchange y with handler h and
\* completions k.
Becomes(r, y, h, k) ==
    /\ y \in Exchange /\ h \in {"none", "running", "settled"} /\ k \in Seq(Completions)
    /\ req' = [req EXCEPT ![r] = y]
    /\ handler' = [handler EXCEPT ![r] = h]
    /\ completed' = [completed EXCEPT ![r] = k]

(***************************************************************************)
(* A step of one request keeps the invariant when what it leaves agrees    *)
(* and the worker set stays in order.                                      *)
(***************************************************************************)
LEMMA StepKeeps ==
    ASSUME ServerInv, NEW r \in Requests, NEW y, NEW h, NEW k,
           Becomes(r, y, h, k), Agree(y, h, k), WorkersOK'
    PROVE  ServerInv'
<1>0. /\ req \in [Requests -> Exchange]
      /\ handler \in [Requests -> {"none", "running", "settled"}]
      /\ completed \in [Requests -> Seq(Completions)]
  BY DEF ServerInv, TypeOK, Completions
<1>1. /\ req' \in [Requests -> Exchange]
      /\ handler' \in [Requests -> {"none", "running", "settled"}]
      /\ completed' \in [Requests -> Seq(Completions)]
  BY <1>0 DEF Becomes
<1>2. workers' \subseteq Requests
  BY DEF WorkersOK, WorkersAreBounded
<1>3. TypeOK'
  BY <1>1, <1>2 DEF TypeOK, Completions
<1>4. ASSUME NEW s \in Requests PROVE Agree(req'[s], handler'[s], completed'[s])
  <2>1. CASE s = r
    BY <2>1, <1>0 DEF Becomes
  <2>2. CASE s # r
    BY <2>2, <1>0 DEF ServerInv, Becomes
  <2> QED
    BY <2>1, <2>2
<1> QED
  BY <1>3, <1>4 DEF ServerInv

(***************************************************************************)
(* The worker set stays in order: unchanged while no handler starts or     *)
(* settles, one fewer when one settles, one more only below the limit.     *)
(***************************************************************************)
LEMMA WorkersKept ==
    ASSUME ServerInv, NEW r \in Requests,
           \/ UNCHANGED <<handler, workers>>
           \/ /\ handler' = [handler EXCEPT ![r] = "settled"]
              /\ workers' = workers \ {r}
           \/ /\ ~Busy
              /\ handler' = [handler EXCEPT ![r] = "running"]
              /\ workers' = workers \cup {r}
    PROVE  WorkersOK'
<1>0. /\ handler \in [Requests -> {"none", "running", "settled"}]
      /\ workers = {s \in Requests : handler[s] = "running"}
      /\ IsFiniteSet(workers) /\ Cardinality(workers) \in Nat
      /\ Cardinality(workers) <= MaxActive
      /\ MaxActive \in Nat
  BY MaxActiveAssumption, FS_CardinalityType
     DEF ServerInv, TypeOK, WorkersOK, WorkersAreBounded
<1>1. CASE UNCHANGED <<handler, workers>>
  BY <1>1, <1>0 DEF WorkersOK, WorkersAreBounded
<1>2. CASE /\ handler' = [handler EXCEPT ![r] = "settled"]
           /\ workers' = workers \ {r}
  <2>1. workers' = {s \in Requests : handler'[s] = "running"}
    BY <1>0, <1>2
  <2>2. IsFiniteSet(workers') /\ Cardinality(workers') <= Cardinality(workers)
    BY <1>0, <1>2, FS_Subset
  <2>3. Cardinality(workers') \in Nat
    BY <2>2, FS_CardinalityType
  <2> QED
    BY <2>1, <2>2, <2>3, <1>0 DEF WorkersOK, WorkersAreBounded
<1>3. CASE /\ ~Busy
           /\ handler' = [handler EXCEPT ![r] = "running"]
           /\ workers' = workers \cup {r}
  <2>1. workers' = {s \in Requests : handler'[s] = "running"}
    BY <1>0, <1>3
  <2>2. /\ IsFiniteSet(workers')
        /\ Cardinality(workers') = IF r \in workers THEN Cardinality(workers)
                                   ELSE Cardinality(workers) + 1
    BY <1>0, <1>3, FS_AddElement
  <2>3. Cardinality(workers) < MaxActive
    BY <1>0, <1>3 DEF Busy
  <2> QED
    BY <2>1, <2>2, <2>3, <1>0 DEF WorkersOK, WorkersAreBounded
<1> QED
  BY <1>1, <1>2, <1>3

-----------------------------------------------------------------------------
(***************************************************************************)
(* The end of handle: a response that was open is sent, or destroyed after *)
(* its headers; one that is gone is left alone.                            *)
(***************************************************************************)
LEMMA ResponseOf ==
    ASSUME NEW x \in Exchange, NEW status \in Statuses, NEW y \in Responses(x, status)
    PROVE  /\ y \in Exchange
           /\ y.pc = "answered" /\ y.aborted = x.aborted
           /\ x.res # "open" => y.res = x.res /\ y.selected = x.selected /\ y.status = x.status
           /\ x.res = "open" => /\ y.status = status
                                /\ \/ y.res = "sent" /\ y.selected = x.selected
                                   \/ y.res = "destroyed" /\ y.selected = "internal"
<1> DEFINE sent == [x EXCEPT !.pc = "answered", !.res = "sent", !.status = status]
           thrown == [sent EXCEPT !.selected = "internal", !.termination = "handler_error",
                                  !.res = "destroyed"]
<1>0. "internal" \in Kinds /\ "handler_error" \in Terminations
  BY DEF Kinds, Terminations
<1>1. CASE x.res # "open"
  <2>1. y = [x EXCEPT !.pc = "answered"]
    BY <1>1 DEF Responses
  <2> QED
    BY <1>1, <2>1 DEF Exchange
<1>2. CASE x.res = "open"
  <2>1. y = sent \/ y = thrown
    BY <1>2 DEF Responses
  <2>2. /\ sent \in Exchange /\ sent.pc = "answered" /\ sent.aborted = x.aborted
        /\ sent.status = status /\ sent.res = "sent" /\ sent.selected = x.selected
    BY DEF Exchange
  <2>3. /\ thrown \in Exchange /\ thrown.pc = "answered" /\ thrown.aborted = x.aborted
        /\ thrown.status = status /\ thrown.res = "destroyed" /\ thrown.selected = "internal"
    BY <1>0 DEF Exchange
  <2> HIDE DEF sent, thrown
  <2> QED
    BY <1>2, <2>1, <2>2, <2>3
<1> QED
  BY <1>1, <1>2

(***************************************************************************)
(* An exchange that was not answered yet may be answered: with a failure   *)
(* selected or by the handler that settled, and with the handler told when *)
(* it still runs.                                                          *)
(***************************************************************************)
LEMMA AnswerAgrees ==
    ASSUME NEW x \in Exchange, NEW status \in Statuses \ {NoStatus},
           NEW y \in Responses(x, status), NEW h, NEW k \in Seq(Completions),
           x.res \in {"open", "closed"}, x.status = NoStatus,
           x.res = "open" => k = <<>>,
           x.res = "closed" => Len(k) = 1 /\ k[1].outcome # "success",
           x.selected = NoKind => h = "settled",
           h = "running" => x.aborted
    PROVE  y \in Exchange /\ Agree(y, h, k)
<1>1. y \in Exchange /\ y.pc = "answered" /\ y.aborted = x.aborted
  BY ResponseOf
<1>2. CASE x.res = "open"
  <2>1. /\ y.status = status
        /\ \/ y.res = "sent" /\ y.selected = x.selected
           \/ y.res = "destroyed" /\ y.selected = "internal"
    BY <1>2, ResponseOf
  <2>2. y.selected = NoKind => h = "settled"
    BY <2>1 DEF NoKind
  <2>3. Len(k) = 0
    BY <1>2
  <2> QED
    BY <1>1, <1>2, <2>1, <2>2, <2>3 DEF Agree
<1>3. CASE x.res = "closed"
  <2>1. y.res = "closed" /\ y.selected = x.selected
    BY <1>3, ResponseOf
  <2>2. Len(k) = 1 /\ k[1].outcome # "success"
    BY <1>3
  <2>3. Len(k) <= 1
    BY <2>2
  <2> QED
    BY <1>1, <1>3, <2>1, <2>2, <2>3 DEF Agree
<1> QED
  BY <1>2, <1>3

(***************************************************************************)
(* What is known of a request before it is answered: its response is open  *)
(* or its peer has gone, nothing was committed, and no success counted.    *)
(***************************************************************************)
LEMMA Unanswered ==
    ASSUME ServerInv, NEW r \in Requests, req[r].pc # "answered"
    PROVE  /\ req[r] \in Exchange
           /\ handler[r] \in {"none", "running", "settled"}
           /\ completed[r] \in Seq(Completions)
           /\ req[r].res \in {"open", "closed"} /\ req[r].status = NoStatus
           /\ req[r].res = "open" => completed[r] = <<>>
           /\ req[r].res = "closed" => /\ Len(completed[r]) = 1
                                       /\ completed[r][1].outcome # "success"
                                       /\ req[r].aborted
<1>1. /\ req[r] \in Exchange
      /\ handler[r] \in {"none", "running", "settled"}
      /\ completed[r] \in Seq(Completions)
  BY DEF ServerInv, TypeOK, Completions
<1>2. Agree(req[r], handler[r], completed[r])
  BY DEF ServerInv
<1>3. req[r].status # 200
  BY <1>2 DEF Agree, NoStatus
<1> QED
  BY <1>1, <1>2, <1>3 DEF Agree, Earned

(***************************************************************************)
(* Nothing of the state changes but what a step assigns to its request.    *)
(***************************************************************************)
LEMMA Kept ==
    ASSUME ServerInv, NEW r \in Requests
    PROVE  /\ UNCHANGED handler => handler' = [handler EXCEPT ![r] = handler[r]]
           /\ UNCHANGED completed => completed' = [completed EXCEPT ![r] = completed[r]]
           /\ UNCHANGED req => req' = [req EXCEPT ![r] = req[r]]
  BY DEF ServerInv, TypeOK

(***************************************************************************)
(* A refusal keeps the invariant: a failure of the request or of the       *)
(* server, answered before the handler starts or over a handler that was   *)
(* told to stop.                                                           *)
(***************************************************************************)
LEMMA RefuseKeeps ==
    ASSUME ServerInv, NEW r \in Requests, NEW x \in Exchange,
           NEW status \in Statuses \ {NoStatus},
           req[r].pc # "answered",
           x.res = req[r].res, x.status = req[r].status, x.selected # NoKind,
           handler[r] = "running" => x.aborted,
           Respond(r, x, status),
           UNCHANGED <<handler, workers, completed>>
    PROVE  ServerInv'
<1>1. PICK y \in Responses(x, status) : req' = [req EXCEPT ![r] = y]
  BY DEF Respond
<1>2. PICK h \in {"none", "running", "settled"}, k \in Seq(Completions) :
         h = handler[r] /\ k = completed[r]
  BY Unanswered
<1>3. y \in Exchange /\ Agree(y, h, k)
  <2>1. /\ x.res \in {"open", "closed"} /\ x.status = NoStatus
        /\ x.res = "open" => k = <<>>
        /\ x.res = "closed" => Len(k) = 1 /\ k[1].outcome # "success"
    BY <1>2, Unanswered
  <2> QED
    BY <1>2, <2>1, AnswerAgrees
<1>4. WorkersOK'
  BY WorkersKept
<1>5. Becomes(r, y, h, k)
  BY <1>1, <1>2, <1>3, Kept DEF Becomes
<1> QED
  BY <1>3, <1>4, <1>5, StepKeeps

-----------------------------------------------------------------------------
(***************************************************************************)
(* Selecting a failure, and telling the handler, changes nothing else of   *)
(* an exchange: the refusal of one that was not answered yet may follow.   *)
(***************************************************************************)
LEMMA SelectKeeps ==
    ASSUME ServerInv, NEW r \in Requests, NEW x \in Exchange,
           NEW kind \in Kinds, NEW status \in Statuses \ {NoStatus},
           req[r].pc # "answered",
           x.res = req[r].res, x.status = req[r].status,
           handler[r] = "running" => x.aborted,
           Refuse(r, x, kind, status),
           UNCHANGED <<handler, workers, completed>>
    PROVE  ServerInv'
<1> DEFINE y == [x EXCEPT !.selected = kind]
<1>1. y \in Exchange /\ y.res = x.res /\ y.status = x.status /\ y.aborted = x.aborted
  BY DEF Exchange
<1>2. y.selected = kind /\ kind # NoKind
  BY StatusRange DEF Exchange
<1>3. Respond(r, y, status)
  BY DEF Refuse
<1> HIDE DEF y
<1> QED
  BY <1>1, <1>2, <1>3, RefuseKeeps

(***************************************************************************)
(* The middleware and the start of readBody move an exchange on, with no   *)
(* handler running.                                                        *)
(***************************************************************************)
LEMMA MoveOn ==
    ASSUME ServerInv, NEW r \in Requests, NEW y \in Exchange,
           req[r].pc \in {"new", "observed"},
           \/ req[r].pc = "new" /\ y.pc = "observed"
           \/ req[r].pc = "observed" /\ y.pc = "body" /\ y.selected = NoKind,
           y.res = req[r].res, y.status = req[r].status, y.aborted = req[r].aborted,
           req' = [req EXCEPT ![r] = y],
           UNCHANGED <<handler, workers, completed>>
    PROVE  ServerInv'
<1>1. PICK h \in {"none", "running", "settled"}, k \in Seq(Completions) :
         h = handler[r] /\ k = completed[r]
  BY Unanswered
<1>2. Becomes(r, y, h, k)
  BY <1>1, Kept DEF Becomes
<1>3. Agree(req[r], h, k)
  BY <1>1 DEF ServerInv
<1>4. /\ h = "none" /\ y.res \in {"open", "closed"} /\ y.status = NoStatus
      /\ y.res = "open" => k = <<>>
      /\ y.res = "closed" => Len(k) = 1 /\ y.aborted
      /\ Len(k) <= 1
      /\ ~(Len(k) = 1 /\ k[1].outcome = "success")
  BY <1>3 DEF Agree, Earned
<1>5. y.pc \in {"observed", "body"} /\ (y.pc = "body" => y.selected = NoKind)
  OBVIOUS
<1>6. Agree(y, h, k)
  BY <1>4, <1>5 DEF Agree
<1>7. WorkersOK'
  BY WorkersKept
<1> QED
  BY <1>2, <1>6, <1>7, StepKeeps

(***************************************************************************)
(* Admission: a full server refuses, else the handler starts in a slot.    *)
(* When the peer has gone already the handler starts with its signal set.  *)
(***************************************************************************)
LEMMA AdmitKeeps ==
    ASSUME ServerInv, NEW r \in Requests, NEW x \in Exchange, x = req[r],
           x.pc \in {"observed", "body"}, x.selected = NoKind,
           Admit(r, x), UNCHANGED completed
    PROVE  ServerInv'
<1>0. Agree(x, handler[r], completed[r])
  BY DEF ServerInv
<1>1. handler[r] = "none"
  BY <1>0 DEF Agree
<1>2. CASE Busy
  <2>1. Refuse(r, x, "unavailable", 503) /\ UNCHANGED <<handler, workers, completed>>
    BY <1>2 DEF Admit
  <2>2. "unavailable" \in Kinds /\ 503 \in Statuses \ {NoStatus}
    BY StatusRange DEF Kinds, NoStatus
  <2> QED
    BY <1>1, <2>1, <2>2, SelectKeeps
<1>3. CASE ~Busy
  <2> DEFINE y == [x EXCEPT !.pc = "racing"]
  <2>1. /\ req' = [req EXCEPT ![r] = y]
        /\ handler' = [handler EXCEPT ![r] = "running"]
        /\ workers' = workers \cup {r}
    BY <1>3 DEF Admit
  <2>2. /\ y \in Exchange /\ y.pc = "racing" /\ y.selected = NoKind /\ y.res = x.res
        /\ y.status = x.status /\ y.aborted = x.aborted
    BY DEF Exchange
  <2> HIDE DEF y
  <2>3. PICK k \in Seq(Completions) : k = completed[r]
    BY Unanswered
  <2>4. Becomes(r, y, "running", k)
    BY <2>1, <2>2, <2>3, Kept DEF Becomes
  <2>5. /\ y.res \in {"open", "closed"} /\ y.status = NoStatus
        /\ y.res = "open" => k = <<>>
        /\ y.res = "closed" => Len(k) = 1 /\ y.aborted
        /\ Len(k) <= 1
        /\ ~(Len(k) = 1 /\ k[1].outcome = "success")
    BY <1>0, <2>2, <2>3 DEF Agree, Earned
  <2>6. Agree(y, "running", k)
    BY <2>2, <2>5 DEF Agree
  <2>7. WorkersOK'
    BY <1>3, <2>1, WorkersKept
  <2> QED
    BY <2>4, <2>6, <2>7, StepKeeps
<1> QED
  BY <1>2, <1>3

(***************************************************************************)
(* The middleware observes a request, and handle runs up to its first      *)
(* await or the end of the body.                                           *)
(***************************************************************************)
LEMMA HandleStep ==
    ASSUME ServerInv, NEW r \in Requests, Middleware(r) \/ Handle(r) \/ BodyEnds(r)
    PROVE  ServerInv'
<1>0. PICK x \in Exchange : x = req[r]
  BY DEF ServerInv, TypeOK
<1>1. Agree(x, handler[r], completed[r]) /\ req \in [Requests -> Exchange]
  BY <1>0 DEF ServerInv, TypeOK
<1>2. CASE Middleware(r)
  <2>1. PICK selected \in {NoKind, "invalid", "internal", "unavailable"} :
          req' = [req EXCEPT ![r].pc = "observed", ![r].selected = selected]
    BY <1>2 DEF Middleware
  <2> DEFINE y == [x EXCEPT !.pc = "observed", !.selected = selected]
  <2>2. req' = [req EXCEPT ![r] = y]
    BY <1>0, <1>1, <2>1 DEF Exchange
  <2>3. /\ y \in Exchange /\ y.pc = "observed" /\ y.res = x.res
        /\ y.status = x.status /\ y.aborted = x.aborted
    BY DEF Exchange, Kinds
  <2> HIDE DEF y
  <2> QED
    BY <1>0, <1>2, <2>2, <2>3, MoveOn DEF Middleware
<1>3. CASE Handle(r)
  <2>1. x.pc = "observed" /\ UNCHANGED completed /\ handler[r] = "none"
    BY <1>0, <1>1, <1>3 DEF Handle, Agree
  <2>2. CASE x.selected # NoKind
    <3>1. Respond(r, x, problemStatus(x.selected)) /\ UNCHANGED <<handler, workers>>
      BY <1>0, <1>3, <2>2 DEF Handle
    <3>2. x.selected \in Kinds
      BY <2>2 DEF Exchange
    <3>3. problemStatus(x.selected) \in Statuses \ {NoStatus}
      BY <3>2, StatusRange
    <3> QED
      BY <1>0, <2>1, <2>2, <3>1, <3>3, RefuseKeeps
  <2>3. CASE x.selected = NoKind
    <3>1. \/ /\ UNCHANGED <<handler, workers>>
             /\ \/ Refuse(r, x, "not_found", 404)
                \/ Refuse(r, x, "invalid", 405)
                \/ Refuse(r, x, "invalid", 415)
          \/ UNCHANGED <<handler, workers>> /\ req' = [req EXCEPT ![r].pc = "body"]
          \/ Admit(r, x)
      BY <1>0, <1>3, <2>3 DEF Handle
    <3>2. ASSUME NEW kind \in {"not_found", "invalid"}, NEW status \in {404, 405, 415},
                 Refuse(r, x, kind, status), UNCHANGED <<handler, workers>>
          PROVE  ServerInv'
      <4>1. kind \in Kinds /\ status \in Statuses \ {NoStatus}
        BY StatusRange DEF Kinds, NoStatus
      <4> QED
        BY <1>0, <2>1, <3>2, <4>1, SelectKeeps
    <3>3. ASSUME UNCHANGED <<handler, workers>>, req' = [req EXCEPT ![r].pc = "body"]
          PROVE  ServerInv'
      <4> DEFINE y == [x EXCEPT !.pc = "body"]
      <4>1. req' = [req EXCEPT ![r] = y]
        BY <1>0, <1>1, <3>3 DEF Exchange
      <4>2. /\ y \in Exchange /\ y.pc = "body" /\ y.res = x.res /\ y.selected = x.selected
            /\ y.status = x.status /\ y.aborted = x.aborted
        BY DEF Exchange
      <4> HIDE DEF y
      <4> QED
        BY <1>0, <2>1, <2>3, <3>3, <4>1, <4>2, MoveOn
    <3>4. ASSUME Admit(r, x) PROVE ServerInv'
      BY <1>0, <2>1, <2>3, <3>4, AdmitKeeps
    <3> QED
      BY <3>1, <3>2, <3>3, <3>4
  <2> QED
    BY <2>2, <2>3
<1>4. CASE BodyEnds(r)
  <2>1. x.pc = "body" /\ x.selected = NoKind /\ Admit(r, x) /\ UNCHANGED completed
    BY <1>0, <1>1, <1>4 DEF BodyEnds, Agree
  <2> QED
    BY <1>0, <2>1, AdmitKeeps
<1> QED
  BY <1>2, <1>3, <1>4

(***************************************************************************)
(* A rejected body and the deadline: the request is refused, and the       *)
(* handler the deadline leaves behind has been told.                       *)
(***************************************************************************)
LEMMA RefusalStep ==
    ASSUME ServerInv, NEW r \in Requests,
           (\E status \in {400, 408, 413} : BodyRejected(r, status)) \/ Deadline(r)
    PROVE  ServerInv'
<1>0. PICK x \in Exchange : x = req[r]
  BY DEF ServerInv, TypeOK
<1>1. Agree(x, handler[r], completed[r])
  BY <1>0 DEF ServerInv
<1>2. ASSUME NEW status \in {400, 408, 413}, BodyRejected(r, status) PROVE ServerInv'
  <2> DEFINE y == [x EXCEPT !.termination = IF status = 408 THEN "deadline" ELSE @]
  <2>1. /\ x.pc = "body" /\ handler[r] = "none"
        /\ Refuse(r, y, "invalid", status) /\ UNCHANGED <<handler, workers, completed>>
    BY <1>0, <1>1, <1>2 DEF BodyRejected, Agree
  <2>2. y \in Exchange /\ y.res = x.res /\ y.status = x.status
    BY DEF Exchange, Terminations
  <2>3. "invalid" \in Kinds /\ status \in Statuses \ {NoStatus}
    BY StatusRange DEF Kinds, NoStatus
  <2> HIDE DEF y
  <2> QED
    BY <1>0, <2>1, <2>2, <2>3, SelectKeeps
<1>3. CASE Deadline(r)
  <2> DEFINE y == [x EXCEPT !.termination = "deadline", !.aborted = TRUE]
  <2>1. /\ x.pc = "racing" /\ Refuse(r, y, "timeout", problemStatus("timeout"))
        /\ UNCHANGED <<handler, workers, completed>>
    BY <1>0, <1>3 DEF Deadline
  <2>2. y \in Exchange /\ y.res = x.res /\ y.status = x.status /\ y.aborted
    BY DEF Exchange, Terminations
  <2>3. "timeout" \in Kinds
    BY DEF Kinds
  <2>4. problemStatus("timeout") \in Statuses \ {NoStatus}
    BY <2>3, StatusRange
  <2> HIDE DEF y
  <2> QED
    BY <1>0, <2>1, <2>2, <2>3, <2>4, SelectKeeps
<1> QED
  BY <1>2, <1>3

(***************************************************************************)
(* The handler settles: it leaves the worker set, and is answered only     *)
(* when it won the race.                                                   *)
(***************************************************************************)
LEMMA SettleStep ==
    ASSUME ServerInv, NEW r \in Requests, HandlerSettles(r)
    PROVE  ServerInv'
<1>0. PICK x \in Exchange, k \in Seq(Completions) : x = req[r] /\ k = completed[r]
  BY DEF ServerInv, TypeOK, Completions
<1>1. Agree(x, "running", k)
  BY <1>0 DEF ServerInv, HandlerSettles
<1>2. /\ handler' = [handler EXCEPT ![r] = "settled"]
      /\ workers' = workers \ {r}
      /\ completed' = [completed EXCEPT ![r] = k]
  BY <1>0, Kept DEF HandlerSettles
<1>3. WorkersOK'
  BY <1>2, WorkersKept
<1>4. CASE x.pc = "racing"
  <2>1. ASSUME NEW z \in Exchange, NEW status \in Statuses \ {NoStatus},
               z.res = x.res, z.status = x.status, Respond(r, z, status)
        PROVE  ServerInv'
    <3>1. PICK y \in Responses(z, status) : req' = [req EXCEPT ![r] = y]
      BY <2>1 DEF Respond
    <3>2. y \in Exchange /\ Agree(y, "settled", k)
      <4>1. /\ z.res \in {"open", "closed"} /\ z.status = NoStatus
            /\ z.res = "open" => k = <<>>
            /\ z.res = "closed" => Len(k) = 1 /\ k[1].outcome # "success"
        BY <1>0, <1>4, <2>1, Unanswered
      <4> QED
        BY <4>1, AnswerAgrees
    <3>3. Becomes(r, y, "settled", k)
      BY <1>2, <3>1, <3>2 DEF Becomes
    <3> QED
      BY <1>3, <3>2, <3>3, StepKeeps
  <2>2. ASSUME NEW kind \in Kinds, NEW status \in Statuses \ {NoStatus},
               Refuse(r, x, kind, status)
        PROVE  ServerInv'
    <3> DEFINE z == [x EXCEPT !.selected = kind]
    <3>1. z \in Exchange /\ z.res = x.res /\ z.status = x.status
      BY DEF Exchange
    <3>2. Respond(r, z, status)
      BY <2>2 DEF Refuse
    <3> HIDE DEF z
    <3> QED
      BY <2>1, <3>1, <3>2
  <2>3. \/ Respond(r, x, 200)
        \/ \E kind \in HandlerKinds : Refuse(r, x, kind, problemStatus(kind))
        \/ Refuse(r, x, "internal", 500)
    BY <1>0, <1>4 DEF HandlerSettles
  <2>4. {200, 500} \subseteq Statuses \ {NoStatus} /\ "internal" \in Kinds
    BY StatusRange DEF NoStatus, Kinds
  <2>5. ASSUME NEW kind \in HandlerKinds
        PROVE  kind \in Kinds /\ problemStatus(kind) \in Statuses \ {NoStatus}
    <3>1. kind \in Kinds
      BY HandlerKindsAssumption
    <3> QED
      BY <3>1, StatusRange
  <2> QED
    BY <2>1, <2>2, <2>3, <2>4, <2>5
<1>5. CASE x.pc # "racing"
  <2>1. req' = [req EXCEPT ![r] = x]
    BY <1>0, <1>5, Kept DEF HandlerSettles
  <2>2. x.pc = "answered"
    BY <1>1, <1>5 DEF Agree, Exchange
  <2>3. Becomes(r, x, "settled", k)
    BY <1>2, <2>1 DEF Becomes
  <2>4. ~(Len(k) = 1 /\ k[1].outcome = "success")
    BY <1>1 DEF Agree, Earned
  <2>5. Agree(x, "settled", k)
    BY <1>1, <2>2, <2>4 DEF Agree
  <2> QED
    BY <1>3, <2>3, <2>5, StepKeeps
<1> QED
  BY <1>4, <1>5

(***************************************************************************)
(* The response's finish, error and close events: the first of them        *)
(* completes the exchange, with facts Active.finish accepts, and counts a  *)
(* success only for the 200 of a handler that settled.                     *)
(***************************************************************************)
LEMMA EventStep ==
    ASSUME ServerInv, NEW r \in Requests,
           ResponseFinishes(r) \/ WriteFails(r) \/ ResponseCloses(r)
    PROVE  ServerInv'
<1>0. PICK x \in Exchange, h \in {"none", "running", "settled"} :
         x = req[r] /\ h = handler[r]
  BY DEF ServerInv, TypeOK
<1>1. /\ Agree(x, h, completed[r])
      /\ TypeOK /\ completed[r] \in Seq(Completions)
  BY <1>0 DEF ServerInv, TypeOK, Completions
<1>2. handler' = [handler EXCEPT ![r] = h] /\ WorkersOK'
  BY <1>0, Kept, WorkersKept DEF ResponseFinishes, WriteFails, ResponseCloses
<1>3. ASSUME NEW z \in Exchange PROVE FactsOf(z) \in Facts
  BY DEF FactsOf, Facts, Exchange
<1>4. CASE ResponseFinishes(r)
  <2> DEFINE y == [x EXCEPT !.res = "finished"]
  <2>1. /\ x.res = "sent" /\ ActiveFinish(r, FactsOf(x))
        /\ req' = [req EXCEPT ![r] = y]
    BY <1>0, <1>1, <1>4 DEF ResponseFinishes, TypeOK, Exchange
  <2>2. /\ y \in Exchange /\ y.res = "finished" /\ y.pc = x.pc /\ y.selected = x.selected
        /\ y.status = x.status /\ y.aborted = x.aborted /\ y.termination = x.termination
    BY DEF Exchange
  <2> HIDE DEF y
  <2>3. x.pc = "answered" /\ completed[r] = <<>> /\ x.status # NoStatus
    BY <1>1, <2>1 DEF Agree, Exchange
  <2>4. /\ FactsOf(x).status = x.status /\ FactsOf(x).termination = x.termination
        /\ FactsOf(x).failureKind = x.selected
    BY DEF FactsOf
  <2>5. PICK k \in Seq(Completions) :
           /\ completed' = [completed EXCEPT ![r] = k]
           /\ Len(k) = 1
           /\ k[1].outcome = "success" => /\ x.termination = "response_completed"
                                          /\ x.selected = NoKind
                                          /\ x.status = 200
    BY <1>1, <1>3, <2>1, <2>3, <2>4, FinishGives
  <2>6. Becomes(r, y, h, k)
    BY <1>2, <2>1, <2>2, <2>5 DEF Becomes
  <2>7. k[1].outcome = "success" => Earned(y, h)
    BY <1>1, <2>2, <2>3, <2>5 DEF Earned, Agree
  <2>8. Len(k) <= 1
    BY <2>5
  <2>9. Agree(y, h, k)
    BY <1>1, <2>2, <2>3, <2>5, <2>7, <2>8 DEF Agree
  <2> QED
    BY <1>2, <2>6, <2>9, StepKeeps
<1>5. CASE WriteFails(r)
  <2> DEFINE y == [x EXCEPT !.termination = "write_error", !.res = "destroyed"]
  <2>1. /\ x.res = "sent" /\ ActiveFinish(r, FactsOf(y))
        /\ req' = [req EXCEPT ![r] = y]
    BY <1>0, <1>5 DEF WriteFails
  <2>2. /\ y \in Exchange /\ y.res = "destroyed" /\ y.pc = x.pc /\ y.selected = x.selected
        /\ y.status = x.status /\ y.aborted = x.aborted /\ y.termination = "write_error"
    BY DEF Exchange, Terminations
  <2> HIDE DEF y
  <2>3. x.pc = "answered" /\ completed[r] = <<>>
    BY <1>1, <2>1 DEF Agree, Exchange
  <2>4. FactsOf(y).termination = "write_error"
    BY <2>2 DEF FactsOf
  <2>5. PICK k \in Seq(Completions) :
           /\ completed' = [completed EXCEPT ![r] = k]
           /\ Len(k) = 1 /\ k[1].outcome # "success"
    BY <1>1, <1>3, <2>1, <2>2, <2>3, <2>4, FinishGives
  <2>6. Becomes(r, y, h, k)
    BY <1>2, <2>1, <2>2, <2>5 DEF Becomes
  <2>7. Len(k) <= 1
    BY <2>5
  <2>8. Agree(y, h, k)
    BY <1>1, <2>2, <2>3, <2>5, <2>7 DEF Agree
  <2> QED
    BY <1>2, <2>6, <2>8, StepKeeps
<1>6. CASE ResponseCloses(r)
  <2> DEFINE z == PeerClosed(x)
             y == [z EXCEPT !.res = "closed"]
  <2>1. /\ x.res # "closed" /\ x.pc # "new" /\ ActiveFinish(r, FactsOf(z))
        /\ req' = [req EXCEPT ![r] = y]
    BY <1>0, <1>6 DEF ResponseCloses
  <2>2. /\ z \in Exchange /\ z.pc = x.pc /\ z.selected = x.selected /\ z.status = x.status
        /\ x.res = "finished" => z.termination = x.termination /\ z.aborted = x.aborted
        /\ x.res # "finished" => z.termination = "peer_closed" /\ z.aborted
    BY DEF PeerClosed, Exchange, Terminations
  <2>3. /\ y \in Exchange /\ y.res = "closed" /\ y.pc = z.pc /\ y.selected = z.selected
        /\ y.status = z.status /\ y.aborted = z.aborted /\ y.termination = z.termination
    BY <2>2 DEF Exchange
  <2> HIDE DEF y, z
  <2>4. /\ FactsOf(z).termination = z.termination
        /\ FactsOf(z).status = z.status
    BY DEF FactsOf
  <2>5. FactsOf(z).status # NoStatus \/ FactsOf(z).termination # "response_completed"
    BY <1>1, <2>2, <2>4 DEF Agree
  <2>6. PICK k \in Seq(Completions) :
           /\ completed' = [completed EXCEPT ![r] = k]
           /\ completed[r] # <<>> => k = completed[r]
           /\ completed[r] = <<>> => /\ Len(k) = 1
                                     /\ k[1].outcome = "success" =>
                                           z.termination = "response_completed"
    BY <1>1, <1>3, <2>1, <2>2, <2>4, <2>5, FinishGives
  <2>7. Becomes(r, y, h, k)
    BY <1>2, <2>1, <2>3, <2>6 DEF Becomes
  <2>8. completed[r] # <<>> => Len(completed[r]) = 1
    BY <1>1, AtMostOne DEF Agree
  <2>9. Len(k) = 1
    BY <2>6, <2>8
  <2>10. k[1].outcome = "success" => Earned(y, h)
    <3>1. CASE completed[r] = <<>>
      <4>1. x.res # "finished"
        BY <1>1, <3>1 DEF Agree
      <4> QED
        BY <2>2, <2>6, <3>1, <4>1
    <3>2. CASE completed[r] # <<>>
      <4> SUFFICES ASSUME k[1].outcome = "success" PROVE Earned(y, h)
        OBVIOUS
      <4>1. Earned(x, h)
        BY <1>1, <2>6, <2>9, <3>2 DEF Agree
      <4> QED
        BY <4>1, <2>1, <2>2, <2>3 DEF Earned
    <3> QED
      BY <3>1, <3>2
  <2>11. Len(k) <= 1
    BY <2>9
  <2>12. y.pc # "answered" => y.aborted /\ y.status = NoStatus
    BY <1>1, <2>2, <2>3 DEF Agree
  <2>13. y.pc = "answered" /\ h = "running" => y.aborted
    BY <1>1, <2>2, <2>3 DEF Agree
  <2>14. Agree(y, h, k)
    BY <1>1, <2>1, <2>2, <2>3, <2>9, <2>10, <2>11, <2>12, <2>13 DEF Agree
  <2> QED
    BY <1>2, <2>7, <2>14, StepKeeps
<1> QED
  BY <1>4, <1>5, <1>6

-----------------------------------------------------------------------------
(***************************************************************************)
(* ServerInv holds in every reachable state, for any set of requests.      *)
(***************************************************************************)
THEOREM ServerInvariant == Spec => []ServerInv
<1>1. Init => ServerInv
  <2> SUFFICES ASSUME Init PROVE ServerInv
    OBVIOUS
  <2>1. TypeOK
    <3>1. NoStatus \in Statuses /\ "response_completed" \in Terminations
      BY StatusRange DEF Terminations
    <3>2. req \in [Requests -> Exchange]
      BY <3>1 DEF Init, Exchange
    <3>3. completed \in [Requests -> Seq(Completions)]
      BY DEF Init
    <3>4. handler \in [Requests -> {"none", "running", "settled"}] /\ workers \subseteq Requests
      BY DEF Init
    <3> QED
      BY <3>2, <3>3, <3>4 DEF TypeOK, Completions
  <2>2. ASSUME NEW r \in Requests PROVE Agree(req[r], handler[r], completed[r])
    <3>1. completed[r] = <<>> /\ Len(completed[r]) = 0
      BY DEF Init
    <3> QED
      BY <3>1 DEF Init, Agree
  <2>3. WorkersOK
    BY MaxActiveAssumption, FS_EmptySet DEF Init, WorkersOK, WorkersAreBounded
  <2> QED
    BY <2>1, <2>2, <2>3 DEF ServerInv
<1>2. ServerInv /\ [Next]_vars => ServerInv'
  <2> SUFFICES ASSUME ServerInv, [Next]_vars PROVE ServerInv'
    OBVIOUS
  <2>1. CASE Next
    BY <2>1, HandleStep, RefusalStep, SettleStep, EventStep DEF Next
  <2>2. CASE UNCHANGED vars
    BY <2>2 DEF vars, ServerInv, TypeOK, WorkersOK, WorkersAreBounded
  <2> QED
    BY <2>1, <2>2
<1> QED
  BY <1>1, <1>2, PTL DEF Spec

(***************************************************************************)
(* CONTRACT.md H06 for any number of requests: an exchange that ended is   *)
(* completed exactly once, and only a handler's own 200, handed over in    *)
(* time, counts as a success.                                              *)
(***************************************************************************)
THEOREM CompletionCorrect == Spec => []CompletionIsTrue
<1>1. ASSUME ServerInv PROVE CompletionIsTrue
  <2>1. \A r \in Requests : /\ Agree(req[r], handler[r], completed[r])
                            /\ completed[r] \in Seq(Completions)
    BY <1>1 DEF ServerInv, TypeOK, Completions
  <2>2. CompletedExactlyOnce
    BY <2>1 DEF CompletedExactlyOnce, Agree
  <2>3. ASSUME NEW r \in Requests, NEW i \in 1..Len(completed[r]),
               completed[r][i].outcome = "success"
        PROVE  Earned(req[r], handler[r])
    <3>1. Len(completed[r]) <= 1
      BY <2>1 DEF Agree
    <3>2. i = 1 /\ Len(completed[r]) = 1
      BY <2>1, <3>1, AtMostOne
    <3> QED
      BY <2>1, <2>3, <3>2 DEF Agree
  <2>4. SuccessIsReal
    BY <2>3 DEF SuccessIsReal, Earned
  <2> QED
    BY <2>2, <2>4 DEF CompletionIsTrue
<1> QED
  BY <1>1, ServerInvariant, PTL

(***************************************************************************)
(* For any limit: a handler holds a worker slot for as long as it runs, no *)
(* more run than config.maxActive, and one left behind has been told.      *)
(***************************************************************************)
THEOREM HandlersCorrect == Spec => []HandlersAreAccounted
<1>1. ASSUME ServerInv PROVE HandlersAreAccounted
  <2>1. TypeOK /\ WorkersAreBounded
    BY <1>1 DEF ServerInv, WorkersOK
  <2>2. ASSUME NEW r \in Requests, handler[r] = "running",
               req[r].pc = "answered" \/ req[r].res = "closed"
        PROVE  req[r].aborted
    BY <1>1, <2>2 DEF ServerInv, Agree
  <2> QED
    BY <2>1, <2>2 DEF HandlersAreAccounted, OrphansAreAborted
<1> QED
  BY <1>1, ServerInvariant, PTL

-----------------------------------------------------------------------------
(***************************************************************************)
(* The locals of a call are consistent: only a timer, the caller's signal  *)
(* or close() (shut) aborts it, its timer always does, a pending call has  *)
(* no result and a body that fits, and a result is true.                   *)
(***************************************************************************)
CallOK(x, shut) ==
    /\ x.pc = "new" => ~x.aborted /\ ~x.timedOut /\ x.size = 0 /\ x.result = "none"
    /\ x.pc = "pending" => x.result = "none" /\ x.size <= MaxResponse
    /\ x.timedOut => x.aborted
    /\ x.aborted => x.timedOut \/ x.signal \/ shut
    /\ x.result = "timeout" => x.timedOut
    /\ x.result = "canceled" => ~x.timedOut /\ (x.signal \/ shut)
    /\ x.result = "network" => ~x.aborted
    /\ x.result = "ok" => x.size <= MaxResponse

ClientInv ==
    /\ ClientTypeOK
    /\ IsFiniteSet(activeCalls)
    /\ ClosedLeavesNoLiveCall
    /\ \A c \in Calls : CallOK(call[c], clientClosed)

\* Call c becomes x, and is held in #active exactly when it is pending.
CallBecomes(c, x) ==
    /\ x \in Call /\ CallOK(x, clientClosed)
    /\ x.pc = "pending" /\ clientClosed => x.aborted
    /\ call' = [call EXCEPT ![c] = x]
    /\ activeCalls' = (IF x.pc = "pending" THEN activeCalls \cup {c} ELSE activeCalls \ {c})
    /\ c \notin activeCalls /\ x.pc = "pending" => Cardinality(activeCalls) < MaxCalls
    /\ UNCHANGED clientClosed

(***************************************************************************)
(* A step that moves one call to consistent locals keeps the invariant.    *)
(***************************************************************************)
LEMMA CallKeeps ==
    ASSUME ClientInv, NEW c \in Calls, NEW x, CallBecomes(c, x)
    PROVE  ClientInv'
<1>0. /\ call \in [Calls -> Call] /\ activeCalls \subseteq Calls
      /\ Cardinality(activeCalls) <= MaxCalls
      /\ clientClosed \in BOOLEAN /\ IsFiniteSet(activeCalls) /\ MaxCalls \in Nat
      /\ activeCalls = {d \in Calls : call[d].pc = "pending"}
      /\ clientClosed => \A d \in activeCalls : call[d].aborted
      /\ \A d \in Calls : CallOK(call[d], clientClosed)
  BY MaxCallsAssumption, SizesAssumption DEF ClientInv, ClientTypeOK, ClosedLeavesNoLiveCall
<1>1. /\ call' \in [Calls -> Call] /\ call'[c] = x
      /\ \A d \in Calls : d # c => call'[d] = call[d]
  BY <1>0 DEF CallBecomes
<1>2. /\ IsFiniteSet(activeCalls') /\ Cardinality(activeCalls') <= MaxCalls
      /\ activeCalls' \subseteq Calls
  <2>1. CASE x.pc = "pending" /\ c \notin activeCalls
    <3>1. activeCalls' = activeCalls \cup {c} /\ Cardinality(activeCalls) < MaxCalls
      BY <2>1 DEF CallBecomes
    <3>2. IsFiniteSet(activeCalls') /\ Cardinality(activeCalls') = Cardinality(activeCalls) + 1
      BY <1>0, <2>1, <3>1, FS_AddElement
    <3>3. Cardinality(activeCalls) \in Nat
      BY <1>0, FS_CardinalityType
    <3>4. Cardinality(activeCalls') <= MaxCalls
      BY <1>0, <3>1, <3>2, <3>3
    <3> QED
      BY <1>0, <3>1, <3>2, <3>4
  <2>2. CASE x.pc = "pending" /\ c \in activeCalls
    <3>1. activeCalls' = activeCalls
      BY <2>2 DEF CallBecomes
    <3> QED
      BY <1>0, <3>1
  <2>3. CASE x.pc # "pending"
    <3>1. activeCalls' = activeCalls \ {c}
      BY <2>3 DEF CallBecomes
    <3>2. IsFiniteSet(activeCalls') /\ Cardinality(activeCalls') <= Cardinality(activeCalls)
      BY <1>0, <3>1, FS_Subset
    <3>3. Cardinality(activeCalls) \in Nat /\ Cardinality(activeCalls') \in Nat
      BY <1>0, <3>2, FS_CardinalityType
    <3>4. Cardinality(activeCalls') <= MaxCalls
      BY <1>0, <3>2, <3>3
    <3> QED
      BY <1>0, <3>1, <3>2, <3>4
  <2> QED
    BY <2>1, <2>2, <2>3
<1>3. activeCalls' = {d \in Calls : call'[d].pc = "pending"}
  BY <1>0, <1>1 DEF CallBecomes
<1>4. clientClosed' => \A d \in activeCalls' : call'[d].aborted
  BY <1>0, <1>1, <1>3 DEF CallBecomes
<1>5. \A d \in Calls : CallOK(call'[d], clientClosed')
  BY <1>0, <1>1 DEF CallBecomes
<1>6. ClientTypeOK'
  BY <1>0, <1>1, <1>2 DEF ClientTypeOK, CallBecomes
<1>7. ClosedLeavesNoLiveCall'
  BY <1>3, <1>4 DEF ClosedLeavesNoLiveCall
<1> QED
  BY <1>2, <1>5, <1>6, <1>7 DEF ClientInv

(***************************************************************************)
(* do(): refused in the order of the code, or admitted below the limit.    *)
(***************************************************************************)
LEMMA CallStep ==
    ASSUME ClientInv, NEW c \in Calls, Do(c)
    PROVE  ClientInv'
<1>0. /\ call[c] \in Call /\ CallOK(call[c], clientClosed) /\ call[c].pc = "new"
      /\ c \notin activeCalls
      /\ Cardinality(activeCalls) \in Nat /\ MaxCalls \in Nat /\ MaxResponse \in Nat
      /\ activeCalls = activeCalls \ {c}
  BY FS_CardinalityType, MaxCallsAssumption, SizesAssumption DEF ClientInv, ClientTypeOK,
     ClosedLeavesNoLiveCall, Do
<1>1. PICK refusal \in Refusal(c) :
         IF refusal # "none"
         THEN /\ call' = [call EXCEPT ![c].pc = "settled", ![c].result = refusal]
              /\ UNCHANGED activeCalls
         ELSE /\ call' = [call EXCEPT ![c].pc = "pending", ![c].net = "live"]
              /\ activeCalls' = activeCalls \cup {c}
  BY DEF Do
<1>2. /\ refusal \in {"closed", "busy", "canceled", "request", "none"}
      /\ refusal = "canceled" => call[c].signal
      /\ refusal = "none" => ~clientClosed /\ Cardinality(activeCalls) < MaxCalls
  BY <1>0, <1>1 DEF Refusal
<1>3. CASE refusal # "none"
  <2> DEFINE x == [call[c] EXCEPT !.pc = "settled", !.result = refusal]
  <2>1. /\ x \in Call /\ x.pc = "settled" /\ x.result = refusal
        /\ x.aborted = call[c].aborted
        /\ x.timedOut = call[c].timedOut /\ x.signal = call[c].signal
    BY <1>0, <1>2, <1>3 DEF Call, Results
  <2>2. call' = [call EXCEPT ![c] = x] /\ activeCalls' = activeCalls \ {c} /\ UNCHANGED clientClosed
    BY <1>0, <1>1, <1>3 DEF Do
  <2> HIDE DEF x
  <2>3. CallOK(x, clientClosed)
    BY <1>0, <1>2, <1>3, <2>1 DEF CallOK
  <2>4. CallBecomes(c, x)
    BY <2>1, <2>2, <2>3 DEF CallBecomes
  <2> QED
    BY <2>4, CallKeeps
<1>4. CASE refusal = "none"
  <2> DEFINE x == [call[c] EXCEPT !.pc = "pending", !.net = "live"]
  <2>1. /\ x \in Call /\ x.pc = "pending" /\ x.result = call[c].result
        /\ x.aborted = call[c].aborted
        /\ x.timedOut = call[c].timedOut /\ x.signal = call[c].signal /\ x.size = call[c].size
    BY <1>0 DEF Call
  <2>2. /\ call' = [call EXCEPT ![c] = x] /\ activeCalls' = activeCalls \cup {c}
        /\ UNCHANGED clientClosed
    BY <1>1, <1>4 DEF Do
  <2> HIDE DEF x
  <2>3. CallOK(x, clientClosed)
    BY <1>0, <2>1 DEF CallOK
  <2>4. CallBecomes(c, x)
    BY <1>2, <1>4, <2>1, <2>2, <2>3 DEF CallBecomes
  <2> QED
    BY <2>4, CallKeeps
<1> QED
  BY <1>3, <1>4

(***************************************************************************)
(* A pending call settles with a result that its locals justify.           *)
(***************************************************************************)
LEMMA SettledKeeps ==
    ASSUME ClientInv, NEW c \in Calls, NEW x \in Call,
           NEW result \in Results,
           Settle(c, x, result),
           x.aborted => x.timedOut \/ x.signal \/ clientClosed,
           x.timedOut => x.aborted,
           result = "timeout" => x.timedOut,
           result = "canceled" => ~x.timedOut /\ (x.signal \/ clientClosed),
           result = "network" => ~x.aborted,
           result = "ok" => x.size <= MaxResponse
    PROVE  ClientInv'
<1> DEFINE y == [x EXCEPT !.pc = "settled", !.result = result, !.net = "dead"]
<1>1. /\ y \in Call /\ y.pc = "settled" /\ y.result = result /\ y.aborted = x.aborted
      /\ y.timedOut = x.timedOut /\ y.signal = x.signal /\ y.size = x.size
  BY DEF Call
<1>2. call' = [call EXCEPT ![c] = y] /\ activeCalls' = activeCalls \ {c} /\ UNCHANGED clientClosed
  BY DEF Settle
<1> HIDE DEF y
<1>3. CallOK(y, clientClosed)
  BY <1>1 DEF CallOK
<1>4. CallBecomes(c, y)
  BY <1>1, <1>2, <1>3 DEF CallBecomes
<1> QED
  BY <1>4, CallKeeps

(***************************************************************************)
(* The events of a pending call: data, end, error, its timer and the       *)
(* caller's signal, which may also come before do().                       *)
(***************************************************************************)
LEMMA CallEventStep ==
    ASSUME ClientInv, NEW c \in Calls,
           \/ Data(c) \/ End(c) \/ NetworkFails(c)
           \/ TimesOut(c) \/ CallerAborts(c)
    PROVE  ClientInv'
<1>0. /\ call[c] \in Call /\ CallOK(call[c], clientClosed) /\ call[c].size \in 0..MaxSent
      /\ c \in activeCalls <=> call[c].pc = "pending"
      /\ clientClosed /\ c \in activeCalls => call[c].aborted
      /\ MaxResponse \in Nat /\ MaxSent \in Nat
  BY MaxCallsAssumption, SizesAssumption DEF ClientInv, ClientTypeOK, ClosedLeavesNoLiveCall, Call
<1>1. CASE Data(c)
  <2> DEFINE x == [call[c] EXCEPT !.size = @ + 1]
  <2>0. call[c].pc = "pending" /\ call[c].size + 1 \in 0..MaxSent
    BY <1>0, <1>1 DEF Data
  <2>1. /\ x \in Call /\ x.pc = "pending" /\ x.result = call[c].result
        /\ x.aborted = call[c].aborted /\ x.timedOut = call[c].timedOut
        /\ x.signal = call[c].signal /\ x.size = call[c].size + 1
    BY <1>0, <2>0 DEF Call
  <2>2. IF Fits(x.size)
        THEN call' = [call EXCEPT ![c] = x] /\ UNCHANGED <<activeCalls, clientClosed>>
        ELSE Settle(c, x, "response_too_large")
    BY <1>1 DEF Data
  <2> HIDE DEF x
  <2>3. CASE Fits(x.size)
    <3>1. CallOK(x, clientClosed)
      BY <1>0, <2>0, <2>1, <2>3 DEF CallOK, Fits
    <3>2. CallBecomes(c, x)
      BY <1>0, <2>0, <2>1, <2>2, <2>3, <3>1 DEF CallBecomes
    <3> QED
      BY <3>2, CallKeeps
  <2>4. CASE ~Fits(x.size)
    BY <1>0, <2>1, <2>2, <2>4, SettledKeeps DEF CallOK, Results
  <2> QED
    BY <2>3, <2>4
<1>2. PICK x \in Call : x = call[c]
  BY <1>0
<1>3. CASE End(c)
  <2>1. PICK result \in {"ok", "protocol"} : Settle(c, x, result)
    BY <1>2, <1>3 DEF End
  <2>2. x.size <= MaxResponse
    BY <1>0, <1>2, <1>3 DEF CallOK, End
  <2> QED
    BY <1>0, <1>2, <2>1, <2>2, SettledKeeps DEF CallOK, Results
<1>4. CASE NetworkFails(c)
  <2>1. PICK result \in Results : result = Cause(x)
    BY DEF Cause, Results
  <2>2. Settle(c, x, result)
    BY <1>2, <1>4, <2>1 DEF NetworkFails
  <2>3. /\ result \in {"timeout", "canceled", "network"}
        /\ result = "timeout" => x.timedOut
        /\ result = "canceled" => ~x.timedOut /\ x.aborted
        /\ result = "network" => ~x.aborted
    BY <2>1 DEF Cause
  <2> QED
    BY <1>0, <1>2, <2>2, <2>3, SettledKeeps DEF CallOK
<1>5. CASE TimesOut(c)
  <2> DEFINE y == Abort([call[c] EXCEPT !.timedOut = TRUE])
  <2>1. /\ y \in Call /\ y.pc = call[c].pc /\ y.result = call[c].result
        /\ y.aborted /\ y.timedOut /\ y.signal = call[c].signal /\ y.size = call[c].size
    BY <1>0 DEF Call, Abort
  <2>2. /\ call' = [call EXCEPT ![c] = y] /\ UNCHANGED <<activeCalls, clientClosed>>
        /\ call[c].pc = "pending"
    BY <1>0, <1>5 DEF TimesOut, ClientInv, ClientTypeOK
  <2> HIDE DEF y
  <2>3. CallOK(y, clientClosed)
    BY <1>0, <2>1, <2>2 DEF CallOK
  <2>4. CallBecomes(c, y)
    BY <1>0, <2>1, <2>2, <2>3 DEF CallBecomes
  <2> QED
    BY <2>4, CallKeeps
<1>6. CASE CallerAborts(c)
  <2> DEFINE z == [call[c] EXCEPT !.signal = TRUE]
             y == IF call[c].pc = "pending" THEN Abort(z) ELSE z
  <2>1. /\ y \in Call /\ y.pc = call[c].pc /\ y.result = call[c].result
        /\ y.aborted = (call[c].pc = "pending" \/ call[c].aborted)
        /\ y.timedOut = call[c].timedOut /\ y.signal /\ y.size = call[c].size
    BY <1>0 DEF Call, Abort
  <2>2. /\ call' = [call EXCEPT ![c] = y] /\ UNCHANGED <<activeCalls, clientClosed>>
        /\ call[c].pc # "settled"
    BY <1>0, <1>6 DEF CallerAborts, ClientInv, ClientTypeOK
  <2>3. call[c].pc \in {"new", "pending"}
    BY <1>0, <2>2 DEF Call
  <2> HIDE DEF y
  <2>4. CallOK(y, clientClosed)
    BY <1>0, <2>1, <2>3 DEF CallOK
  <2>5. activeCalls = (IF y.pc = "pending" THEN activeCalls \cup {c} ELSE activeCalls \ {c})
    BY <1>0, <2>1
  <2>6. CallBecomes(c, y)
    BY <1>0, <2>1, <2>2, <2>4, <2>5 DEF CallBecomes
  <2> QED
    BY <2>6, CallKeeps
<1> QED
  BY <1>1, <1>3, <1>4, <1>5, <1>6

(***************************************************************************)
(* close() aborts every call it holds.                                     *)
(***************************************************************************)
LEMMA ClientCloseStep ==
    ASSUME ClientInv, Close
    PROVE  ClientInv'
<1>0. /\ call \in [Calls -> Call] /\ clientClosed' = TRUE /\ UNCHANGED activeCalls
      /\ activeCalls = {d \in Calls : call[d].pc = "pending"}
      /\ \A d \in Calls : CallOK(call[d], clientClosed)
      /\ call' = [c \in Calls |-> IF c \in activeCalls THEN Abort(call[c]) ELSE call[c]]
  BY DEF ClientInv, ClientTypeOK, ClosedLeavesNoLiveCall, Close
<1>1. ASSUME NEW c \in Calls
      PROVE  /\ call'[c] \in Call /\ CallOK(call'[c], clientClosed') /\ call'[c].pc = call[c].pc
             /\ c \in activeCalls => call'[c].aborted
  <2>1. call[c] \in Call /\ CallOK(call[c], clientClosed)
    BY <1>0
  <2>2. CASE c \in activeCalls
    <3> DEFINE y == Abort(call[c])
    <3>1. /\ y \in Call /\ y.pc = call[c].pc /\ y.result = call[c].result /\ y.aborted
          /\ y.timedOut = call[c].timedOut /\ y.signal = call[c].signal /\ y.size = call[c].size
      BY <2>1 DEF Call, Abort
    <3>2. call'[c] = y /\ call[c].pc = "pending"
      BY <1>0, <2>2
    <3> HIDE DEF y
    <3>3. CallOK(y, clientClosed')
      BY <1>0, <2>1, <3>1, <3>2 DEF CallOK
    <3> QED
      BY <3>1, <3>2, <3>3
  <2>3. CASE c \notin activeCalls
    BY <1>0, <2>1, <2>3 DEF CallOK
  <2> QED
    BY <2>2, <2>3
<1>2. call' \in [Calls -> Call]
  BY <1>0, <1>1
<1>3. ClientTypeOK'
  BY <1>0, <1>2 DEF ClientInv, ClientTypeOK
<1>4. ClosedLeavesNoLiveCall'
  BY <1>0, <1>1 DEF ClosedLeavesNoLiveCall
<1> QED
  BY <1>0, <1>1, <1>3, <1>4 DEF ClientInv

(***************************************************************************)
(* The inductive invariant of the outbound client, for any limits.         *)
(***************************************************************************)
THEOREM ClientInvariant == ClientSpec => []ClientInv
<1>1. ClientInit => ClientInv
  <2> SUFFICES ASSUME ClientInit PROVE ClientInv
    OBVIOUS
  <2>1. MaxSent \in Nat /\ MaxCalls \in Nat
    BY MaxCallsAssumption, SizesAssumption
  <2>2. /\ call \in [Calls -> Call]
        /\ \A c \in Calls : call[c].pc = "new" /\ CallOK(call[c], clientClosed)
    BY <2>1 DEF ClientInit, Call, CallOK
  <2>3. /\ activeCalls = {} /\ IsFiniteSet(activeCalls) /\ Cardinality(activeCalls) = 0
        /\ clientClosed \in BOOLEAN
    BY FS_EmptySet DEF ClientInit
  <2> QED
    BY <2>1, <2>2, <2>3 DEF ClientInv, ClientTypeOK,
       ClosedLeavesNoLiveCall
<1>2. ClientInv /\ [ClientNext]_clientVars => ClientInv'
  <2> SUFFICES ASSUME ClientInv, [ClientNext]_clientVars PROVE ClientInv'
    OBVIOUS
  <2>1. CASE ClientNext
    BY <2>1, CallStep, CallEventStep, ClientCloseStep DEF ClientNext
  <2>2. CASE UNCHANGED clientVars
    BY <2>2 DEF clientVars, ClientInv, ClientTypeOK, ClosedLeavesNoLiveCall
  <2> QED
    BY <2>1, <2>2
<1> QED
  BY <1>1, <1>2, PTL DEF ClientSpec

(***************************************************************************)
(* For any limits: no call escapes close(), and every result a caller gets *)
(* is what happened to its call.                                           *)
(***************************************************************************)
THEOREM ClientCorrect == ClientSpec => []CallsAreSound
<1>1. ClientInv => CallsAreSound
  BY DEF ClientInv, CallOK, CallsAreSound, ResultIsTrue
<1>2. ClientSpec => []ClientInv
  BY ClientInvariant
<1> QED
  BY <1>1, <1>2, PTL

-----------------------------------------------------------------------------
(***************************************************************************)
(* A connection x with h calls of session.handle, held in #active or not:  *)
(* a handler runs only for the pending message, messages are only taken    *)
(* for an open session, which lasts from the upgrade to the cleanup behind *)
(* the close event.                                                        *)
(***************************************************************************)
ConnectionOK(x, h, held) ==
    /\ h = (IF x.pending = "handling" THEN 1 ELSE 0)
    /\ held <=> x.session = "open"
    /\ x.session = "none" <=> x.ws \in {"new", "refused"}
    /\ x.session # "open" => x.pending = "none"
    /\ x.session = "closed" => x.ws = "closed"

\* After close() nobody is admitted, so its snapshot holds all that is left.
ShutdownOK ==
    /\ closed <=> shutdown # "none"
    /\ closed => active \subseteq entries
    /\ shutdown = "drained" => active = {}

SocketInv ==
    /\ SocketTypeOK
    /\ IsFiniteSet(active)
    /\ \A c \in Connections : ConnectionOK(conn[c], handlers[c], c \in active)
    /\ ShutdownOK

\* Connection c becomes x, with h handlers, and keeps or loses its place; it
\* gets one only below the limit and before close().
ConnectionBecomes(c, x, h) ==
    /\ x \in Connection /\ h \in Nat /\ ConnectionOK(x, h, x.session = "open")
    /\ conn' = [conn EXCEPT ![c] = x]
    /\ handlers' \in [Connections -> Nat] /\ handlers'[c] = h
    /\ \A d \in Connections : d # c => handlers'[d] = handlers[d]
    /\ active' = (IF x.session = "open" THEN active \cup {c} ELSE active \ {c})
    /\ x.session = "open" /\ c \notin active => ~closed /\ Cardinality(active) < MaxConnections
    /\ UNCHANGED <<closed, shutdown, entries>>

(***************************************************************************)
(* A step of one connection keeps the invariant.                           *)
(***************************************************************************)
LEMMA ConnectionKeeps ==
    ASSUME SocketInv, NEW c \in Connections, NEW x, NEW h, ConnectionBecomes(c, x, h)
    PROVE  SocketInv'
<1>0. /\ conn \in [Connections -> Connection] /\ handlers \in [Connections -> Nat]
      /\ active \subseteq Connections /\ Cardinality(active) <= MaxConnections
      /\ closed \in BOOLEAN /\ IsFiniteSet(active) /\ MaxConnections \in Nat
      /\ \A d \in Connections : ConnectionOK(conn[d], handlers[d], d \in active)
  BY MaxConnectionsAssumption DEF SocketInv, SocketTypeOK
<1>1. /\ conn' \in [Connections -> Connection] /\ conn'[c] = x
      /\ \A d \in Connections : d # c => conn'[d] = conn[d]
  BY <1>0 DEF ConnectionBecomes
<1>2. /\ IsFiniteSet(active') /\ Cardinality(active') <= MaxConnections
      /\ active' \subseteq Connections
  <2>1. CASE x.session = "open" /\ c \notin active
    <3>1. active' = active \cup {c} /\ Cardinality(active) < MaxConnections
      BY <2>1 DEF ConnectionBecomes
    <3>2. IsFiniteSet(active') /\ Cardinality(active') = Cardinality(active) + 1
      BY <1>0, <2>1, <3>1, FS_AddElement
    <3>3. Cardinality(active) \in Nat
      BY <1>0, FS_CardinalityType
    <3>4. Cardinality(active') <= MaxConnections
      BY <1>0, <3>1, <3>2, <3>3
    <3> QED
      BY <1>0, <3>1, <3>2, <3>4
  <2>2. CASE x.session = "open" /\ c \in active
    <3>1. active' = active
      BY <2>2 DEF ConnectionBecomes
    <3> QED
      BY <1>0, <3>1
  <2>3. CASE x.session # "open"
    <3>1. active' = active \ {c}
      BY <2>3 DEF ConnectionBecomes
    <3>2. IsFiniteSet(active') /\ Cardinality(active') <= Cardinality(active)
      BY <1>0, <3>1, FS_Subset
    <3>3. Cardinality(active) \in Nat /\ Cardinality(active') \in Nat
      BY <1>0, <3>2, FS_CardinalityType
    <3>4. Cardinality(active') <= MaxConnections
      BY <1>0, <3>2, <3>3
    <3> QED
      BY <1>0, <3>1, <3>2, <3>4
  <2> QED
    BY <2>1, <2>2, <2>3
<1>3. ASSUME NEW d \in Connections PROVE ConnectionOK(conn'[d], handlers'[d], d \in active')
  <2>1. CASE d = c
    <3>1. c \in active' <=> x.session = "open"
      BY DEF ConnectionBecomes
    <3>2. ConnectionOK(x, h, x.session = "open") /\ handlers'[c] = h
      BY DEF ConnectionBecomes
    <3> QED
      BY <1>1, <2>1, <3>1, <3>2 DEF ConnectionOK
  <2>2. CASE d # c
    <3>1. (d \in active' <=> d \in active) /\ handlers'[d] = handlers[d] /\ conn'[d] = conn[d]
      BY <1>1, <2>2 DEF ConnectionBecomes
    <3> QED
      BY <1>0, <3>1 DEF ConnectionOK
  <2> QED
    BY <2>1, <2>2
<1>4. SocketTypeOK'
  BY <1>0, <1>1, <1>2 DEF SocketInv, SocketTypeOK, ConnectionBecomes
<1>5. closed => active' \subseteq active
  BY DEF ConnectionBecomes
<1>6. ShutdownOK /\ UNCHANGED <<closed, shutdown, entries>>
  BY DEF SocketInv, ConnectionBecomes
<1>7. ShutdownOK'
  BY <1>5, <1>6 DEF ShutdownOK
<1> QED
  BY <1>2, <1>3, <1>4, <1>7 DEF SocketInv

(***************************************************************************)
(* What a close frame and a destroyed socket leave of a connection.        *)
(***************************************************************************)
LEMMA ClosingOps ==
    ASSUME NEW x \in Connection
    PROVE  /\ SendClose(x) \in Connection /\ CloseWith(x) \in Connection
           /\ Terminate(x) \in Connection
           /\ \A y \in {SendClose(x), CloseWith(x), Terminate(x)} :
                /\ y.pending = x.pending /\ y.session = x.session
                /\ \/ y.ws = x.ws
                   \/ x.ws \in {"open", "closing"} /\ y.ws \in {"closing", "terminated"}
<1> DEFINE z == [x EXCEPT !.closing = TRUE]
<1>1. z \in Connection /\ z.pending = x.pending /\ z.session = x.session /\ z.ws = x.ws
  BY DEF Connection
<1>2. ASSUME NEW v \in Connection
      PROVE  /\ SendClose(v) \in Connection /\ Terminate(v) \in Connection
             /\ \A y \in {SendClose(v), Terminate(v)} :
                  /\ y.pending = v.pending /\ y.session = v.session
                  /\ \/ y.ws = v.ws
                     \/ v.ws \in {"open", "closing"} /\ y.ws \in {"closing", "terminated"}
  BY DEF SendClose, Terminate, Connection
<1>3. CloseWith(x) = SendClose(z)
  BY DEF CloseWith
<1> HIDE DEF z
<1> QED
  BY <1>1, <1>2, <1>3

(***************************************************************************)
(* A connection whose socket moves on while its session stays: everything  *)
(* but the upgrade, a handler's end and the cleanup.                       *)
(***************************************************************************)
LEMMA SocketKeeps ==
    ASSUME SocketInv, NEW c \in Connections, NEW x \in Connection, NEW h \in Nat,
           conn[c].session = "open", x.session = "open", x.ws \notin {"new", "refused"},
           h = (IF x.pending = "handling" THEN 1 ELSE 0),
           conn' = [conn EXCEPT ![c] = x], handlers' = [handlers EXCEPT ![c] = h],
           UNCHANGED <<active, closed, shutdown, entries>>
    PROVE  SocketInv'
<1>0. c \in active /\ handlers \in [Connections -> Nat]
  BY DEF SocketInv, SocketTypeOK, ConnectionOK
<1>1. ConnectionOK(x, h, x.session = "open")
  BY DEF ConnectionOK
<1>2. /\ handlers' \in [Connections -> Nat] /\ handlers'[c] = h
      /\ \A d \in Connections : d # c => handlers'[d] = handlers[d]
  BY <1>0
<1>3. active' = active \cup {c}
  BY <1>0
<1>4. ConnectionBecomes(c, x, h)
  BY <1>0, <1>1, <1>2, <1>3 DEF ConnectionBecomes
<1> QED
  BY <1>4, ConnectionKeeps

(***************************************************************************)
(* An upgrade, refused or admitted below the limit.                        *)
(***************************************************************************)
LEMMA UpgradeStep ==
    ASSUME SocketInv, NEW c \in Connections,
           UpgradeRefused(c) \/ UpgradeAccepted(c)
    PROVE  SocketInv'
<1>0. /\ conn \in [Connections -> Connection] /\ conn[c] \in Connection
      /\ handlers \in [Connections -> Nat] /\ handlers[c] \in Nat
      /\ ConnectionOK(conn[c], handlers[c], c \in active) /\ conn[c].ws = "new"
      /\ Cardinality(active) \in Nat /\ MaxConnections \in Nat
  BY FS_CardinalityType, MaxConnectionsAssumption DEF SocketInv, SocketTypeOK,
     UpgradeRefused, UpgradeAccepted
<1>1. conn[c].session = "none" /\ c \notin active /\ conn[c].pending = "none" /\ handlers[c] = 0
  BY <1>0 DEF ConnectionOK
<1>2. PICK h \in Nat : h = 0
  OBVIOUS
<1>3. CASE UpgradeRefused(c)
  <2> DEFINE x == [conn[c] EXCEPT !.ws = "refused"]
  <2>1. x \in Connection /\ x.ws = "refused" /\ x.session = "none" /\ x.pending = "none"
    BY <1>0, <1>1 DEF Connection
  <2>2. /\ conn' = [conn EXCEPT ![c] = x]
        /\ UNCHANGED <<handlers, active, closed, shutdown, entries>>
    BY <1>3 DEF UpgradeRefused
  <2> HIDE DEF x
  <2>3. ConnectionOK(x, h, x.session = "open")
    BY <1>2, <2>1 DEF ConnectionOK
  <2>4. active = active \ {c}
    BY <1>1
  <2>5. ConnectionBecomes(c, x, h)
    BY <1>0, <1>1, <1>2, <2>1, <2>2, <2>3, <2>4 DEF ConnectionBecomes
  <2> QED
    BY <2>5, ConnectionKeeps
<1>4. CASE UpgradeAccepted(c)
  <2> DEFINE x == [conn[c] EXCEPT !.ws = "open", !.session = "open"]
  <2>1. x \in Connection /\ x.ws = "open" /\ x.session = "open" /\ x.pending = "none"
    BY <1>0, <1>1 DEF Connection
  <2>2. /\ conn' = [conn EXCEPT ![c] = x] /\ active' = active \cup {c}
        /\ UNCHANGED <<handlers, closed, shutdown, entries>>
    BY <1>4 DEF UpgradeAccepted
  <2> HIDE DEF x
  <2>3. ConnectionOK(x, h, x.session = "open")
    BY <1>2, <2>1 DEF ConnectionOK
  <2>4. ~closed /\ Cardinality(active) < MaxConnections
    BY <1>0, <1>4 DEF UpgradeAccepted, Refuses
  <2>5. ConnectionBecomes(c, x, h)
    BY <1>0, <1>1, <1>2, <2>1, <2>2, <2>3, <2>4 DEF ConnectionBecomes
  <2> QED
    BY <2>5, ConnectionKeeps
<1> QED
  BY <1>3, <1>4

(***************************************************************************)
(* Messages come, their handlers end, and replies are sent or not.         *)
(***************************************************************************)
LEMMA MessageStep ==
    ASSUME SocketInv, NEW c \in Connections,
           \/ MessageRefused(c) \/ MessageAccepted(c)
           \/ MessageSettles(c) \/ HandlerThrows(c)
           \/ \E sent \in BOOLEAN : SendSettles(c, sent)
    PROVE  SocketInv'
<1>0. /\ conn \in [Connections -> Connection] /\ conn[c] \in Connection
      /\ handlers \in [Connections -> Nat] /\ handlers[c] \in Nat
      /\ ConnectionOK(conn[c], handlers[c], c \in active)
  BY DEF SocketInv, SocketTypeOK
<1>1. handlers = [handlers EXCEPT ![c] = handlers[c]]
  BY <1>0
<1>2. CASE MessageRefused(c)
  <2>1. PICK x \in Connection : x = CloseWith(conn[c])
    BY <1>0, ClosingOps
  <2>2. conn[c].session = "open"
    BY <1>0, <1>2 DEF ConnectionOK, MessageRefused, Receives, Connection
  <2>3. /\ x.session = "open" /\ x.ws \notin {"new", "refused"} /\ x.pending = conn[c].pending
    BY <1>0, <1>2, <2>1, <2>2, ClosingOps DEF MessageRefused, Receives
  <2>4. handlers[c] = (IF x.pending = "handling" THEN 1 ELSE 0)
    BY <1>0, <2>3 DEF ConnectionOK
  <2>5. /\ conn' = [conn EXCEPT ![c] = x] /\ handlers' = [handlers EXCEPT ![c] = handlers[c]]
        /\ UNCHANGED <<active, closed, shutdown, entries>>
    BY <1>1, <1>2, <2>1 DEF MessageRefused
  <2>6. PICK h \in Nat : h = handlers[c]
    BY <1>0
  <2> QED
    BY <2>2, <2>3, <2>4, <2>5, <2>6, SocketKeeps
<1>3. CASE MessageAccepted(c)
  <2> DEFINE x == [conn[c] EXCEPT !.pending = "handling", !.aborted = FALSE]
  <2>1. /\ x \in Connection /\ x.ws = conn[c].ws /\ x.session = conn[c].session
        /\ x.pending = "handling"
    BY <1>0 DEF Connection
  <2>2. conn[c].session = "open" /\ conn[c].ws \in {"open", "closing"} /\ handlers[c] = 0
    BY <1>0, <1>3 DEF ConnectionOK, MessageAccepted, Receives, Overlaps, Connection
  <2>3. PICK h \in Nat : h = 1
    OBVIOUS
  <2>4. conn' = [conn EXCEPT ![c] = x] /\ UNCHANGED <<active, closed, shutdown, entries>>
    BY <1>3 DEF MessageAccepted
  <2> HIDE DEF x
  <2>5. handlers' = [handlers EXCEPT ![c] = handlers[c] + 1] /\ handlers[c] + 1 = h
    BY <1>3, <2>2, <2>3 DEF MessageAccepted
  <2> QED
    BY <2>1, <2>2, <2>3, <2>4, <2>5, SocketKeeps
<1>4. CASE MessageSettles(c) \/ HandlerThrows(c)
  <2>1. /\ handlers[c] = 1 /\ conn[c].pending = "handling" /\ conn[c].session = "open"
        /\ conn[c].ws \notin {"new", "refused"}
    BY <1>0, <1>4 DEF ConnectionOK, MessageSettles, HandlerThrows, Connection
  <2>2. PICK h \in Nat : h = 0
    OBVIOUS
  <2>3. handlers' = [handlers EXCEPT ![c] = h] /\ UNCHANGED <<active, closed, shutdown, entries>>
    BY <1>0, <1>4, <2>1, <2>2 DEF MessageSettles, HandlerThrows
  <2> DEFINE y == [conn[c] EXCEPT !.pending = "none"]
             s == [conn[c] EXCEPT !.pending = "sending"]
  <2>4. /\ y \in Connection /\ y.ws = conn[c].ws /\ y.session = "open" /\ y.pending = "none"
        /\ s \in Connection /\ s.ws = conn[c].ws /\ s.session = "open" /\ s.pending = "sending"
    BY <1>0, <2>1 DEF Connection
  <2>5. \E x \in {y, s, CloseWith(y)} : conn' = [conn EXCEPT ![c] = x]
    BY <1>4 DEF MessageSettles, HandlerThrows
  <2> HIDE DEF y, s
  <2>6. /\ CloseWith(y) \in Connection /\ CloseWith(y).session = "open"
        /\ CloseWith(y).pending = "none" /\ CloseWith(y).ws \notin {"new", "refused"}
    BY <2>1, <2>4, ClosingOps
  <2>7. PICK x \in Connection : /\ conn' = [conn EXCEPT ![c] = x] /\ x.session = "open"
                                /\ x.pending # "handling" /\ x.ws \notin {"new", "refused"}
    BY <2>1, <2>4, <2>5, <2>6
  <2> QED
    BY <2>1, <2>2, <2>3, <2>7, SocketKeeps
<1>5. ASSUME NEW sent \in BOOLEAN, SendSettles(c, sent) PROVE SocketInv'
  <2>1. /\ handlers[c] = 0 /\ conn[c].pending = "sending" /\ conn[c].session = "open"
        /\ conn[c].ws \notin {"new", "refused"}
    BY <1>0, <1>5 DEF ConnectionOK, SendSettles, Connection
  <2>2. PICK h \in Nat : h = handlers[c]
    BY <1>0
  <2>3. handlers' = [handlers EXCEPT ![c] = h] /\ UNCHANGED <<active, closed, shutdown, entries>>
    BY <1>1, <1>5, <2>2 DEF SendSettles
  <2> DEFINE y == [conn[c] EXCEPT !.pending = "none"]
  <2>4. y \in Connection /\ y.ws = conn[c].ws /\ y.session = "open" /\ y.pending = "none"
    BY <1>0, <2>1 DEF Connection
  <2>5. \E x \in {y, CloseWith(y)} : conn' = [conn EXCEPT ![c] = x]
    BY <1>0, <1>5 DEF SendSettles
  <2> HIDE DEF y
  <2>6. /\ CloseWith(y) \in Connection /\ CloseWith(y).session = "open"
        /\ CloseWith(y).pending = "none" /\ CloseWith(y).ws \notin {"new", "refused"}
    BY <2>1, <2>4, ClosingOps
  <2>7. PICK x \in Connection : /\ conn' = [conn EXCEPT ![c] = x] /\ x.session = "open"
                                /\ x.pending # "handling" /\ x.ws \notin {"new", "refused"}
    BY <2>1, <2>4, <2>5, <2>6
  <2> QED
    BY <2>1, <2>2, <2>3, <2>7, SocketKeeps
<1> QED
  BY <1>2, <1>3, <1>4, <1>5

(***************************************************************************)
(* Timers, pongs, the close event and the cleanup behind it.               *)
(***************************************************************************)
LEMMA SocketStep ==
    ASSUME SocketInv, NEW c \in Connections,
           \/ MessageTimer(c) \/ Heartbeat(c) \/ Pong(c)
           \/ SocketCloses(c) \/ Cleanup(c)
    PROVE  SocketInv'
<1>0. /\ conn \in [Connections -> Connection] /\ conn[c] \in Connection
      /\ handlers \in [Connections -> Nat] /\ handlers[c] \in Nat
      /\ ConnectionOK(conn[c], handlers[c], c \in active)
  BY DEF SocketInv, SocketTypeOK
<1>1. conn[c].session = "open"
  BY <1>0 DEF ConnectionOK, MessageTimer, Heartbeat, Pong, SocketCloses,
     Cleanup, Connection
<1>2. conn[c].ws \notin {"new", "refused"}
  BY <1>0, <1>1 DEF ConnectionOK
<1>3. CASE Cleanup(c)
  <2> DEFINE x == [conn[c] EXCEPT !.session = "closed"]
  <2>1. x \in Connection /\ x.ws = "closed" /\ x.session = "closed" /\ x.pending = "none"
    BY <1>0, <1>3 DEF Connection, Cleanup
  <2>2. /\ conn' = [conn EXCEPT ![c] = x] /\ active' = active \ {c}
        /\ UNCHANGED <<handlers, closed, shutdown, entries>>
    BY <1>3 DEF Cleanup
  <2>3. handlers[c] = 0
    BY <1>0, <1>3 DEF Cleanup, ConnectionOK
  <2>4. PICK h \in Nat : h = 0
    OBVIOUS
  <2> HIDE DEF x
  <2>5. ConnectionOK(x, h, x.session = "open")
    BY <2>1, <2>4 DEF ConnectionOK
  <2>6. ConnectionBecomes(c, x, h)
    BY <1>0, <2>1, <2>2, <2>3, <2>4, <2>5 DEF ConnectionBecomes
  <2> QED
    BY <2>6, ConnectionKeeps
<1>4. CASE MessageTimer(c) \/ Heartbeat(c) \/ Pong(c) \/ SocketCloses(c)
  <2>1. UNCHANGED <<handlers, active, closed, shutdown, entries>>
    BY <1>4 DEF MessageTimer, Heartbeat, Pong, SocketCloses
  <2>2. PICK h \in Nat : h = handlers[c]
    BY <1>0
  <2>3. handlers' = [handlers EXCEPT ![c] = h]
    BY <1>0, <2>1, <2>2
  <2>4. h = (IF conn[c].pending = "handling" THEN 1 ELSE 0)
    BY <1>0, <2>2 DEF ConnectionOK
  <2> DEFINE a == [conn[c] EXCEPT !.aborted = TRUE]
             b == [conn[c] EXCEPT !.pong = FALSE]
             d == [conn[c] EXCEPT !.pong = TRUE]
             e == [conn[c] EXCEPT !.ws = "closed", !.closing = TRUE,
                                  !.aborted = @ \/ conn[c].pending # "none"]
  <2>5. \A x \in {a, b, d} : /\ x \in Connection /\ x.pending = conn[c].pending
                             /\ x.session = "open" /\ x.ws = conn[c].ws
    BY <1>0, <1>1 DEF Connection
  <2>6. e \in Connection /\ e.pending = conn[c].pending /\ e.session = "open" /\ e.ws = "closed"
    BY <1>0, <1>1 DEF Connection
  <2>7. \E x \in {Terminate(a), Terminate(conn[c]), b, d, e} : conn' = [conn EXCEPT ![c] = x]
    <3>1. CASE MessageTimer(c)
      BY <3>1 DEF MessageTimer
    <3>2. CASE Heartbeat(c)
      BY <1>0, <3>2 DEF Heartbeat
    <3>3. CASE Pong(c)
      BY <3>3 DEF Pong
    <3>4. CASE SocketCloses(c)
      BY <3>4 DEF SocketCloses
    <3> QED
      BY <1>4, <3>1, <3>2, <3>3, <3>4
  <2> HIDE DEF a, b, d, e
  <2>8. \A z \in {a, conn[c]} :
          /\ Terminate(z) \in Connection /\ Terminate(z).pending = conn[c].pending
          /\ Terminate(z).session = "open" /\ Terminate(z).ws \notin {"new", "refused"}
    BY <1>0, <1>1, <1>2, <2>5, ClosingOps
  <2>9. PICK x \in Connection : /\ conn' = [conn EXCEPT ![c] = x] /\ x.session = "open"
                                /\ x.pending = conn[c].pending /\ x.ws \notin {"new", "refused"}
    BY <1>2, <2>5, <2>6, <2>7, <2>8
  <2> QED
    BY <1>1, <2>1, <2>3, <2>4, <2>9, SocketKeeps
<1> QED
  BY <1>3, <1>4

(***************************************************************************)
(* The shutdown: its snapshot, its drain and its timer.                    *)
(***************************************************************************)
LEMMA ShutdownStep ==
    ASSUME SocketInv, ServerClose \/ ServerDrained \/ ServerTimer
    PROVE  SocketInv'
<1>0. /\ conn \in [Connections -> Connection] /\ ShutdownOK /\ SocketTypeOK /\ IsFiniteSet(active)
      /\ \A d \in Connections : ConnectionOK(conn[d], handlers[d], d \in active)
      /\ UNCHANGED <<handlers, active>>
  BY DEF SocketInv, SocketTypeOK, ServerClose, ServerDrained, ServerTimer
<1>1. /\ closed' = TRUE /\ entries' \subseteq Connections
      /\ shutdown' \in {"waiting", "drained", "forced"}
  BY <1>0 DEF ServerClose, ServerDrained, ServerTimer, ShutdownOK, SocketTypeOK
<1>2. ShutdownOK'
  <2>1. CASE ServerClose
    BY <1>0, <2>1 DEF ServerClose, ShutdownOK
  <2>2. CASE ServerTimer
    BY <1>0, <2>2 DEF ServerTimer, ShutdownOK
  <2>3. CASE ServerDrained
    BY <1>0, <2>3 DEF ServerDrained, ShutdownOK
  <2> QED
    BY <2>1, <2>2, <2>3
<1>3. ASSUME NEW c \in Connections
      PROVE  /\ conn'[c] \in Connection /\ conn'[c].pending = conn[c].pending
             /\ conn'[c].session = conn[c].session
             /\ \/ conn'[c].ws = conn[c].ws
                \/ conn[c].ws \in {"open", "closing"} /\ conn'[c].ws \in {"closing", "terminated"}
  <2> DEFINE a == [conn[c] EXCEPT !.aborted = @ \/ conn[c].pending # "none"]
  <2>1. /\ conn[c] \in Connection /\ a \in Connection /\ a.pending = conn[c].pending
        /\ a.session = conn[c].session /\ a.ws = conn[c].ws
    BY <1>0 DEF Connection
  <2>2. conn'[c] \in {conn[c], SendClose(conn[c]), Terminate(a)}
    BY DEF ServerClose, ServerDrained, ServerTimer
  <2> HIDE DEF a
  <2> QED
    BY <2>1, <2>2, ClosingOps
<1>4. conn' \in [Connections -> Connection]
  <2>1. conn' = [c \in Connections |-> conn'[c]]
    BY <1>0 DEF ServerClose, ServerDrained, ServerTimer
  <2> QED
    BY <1>3, <2>1
<1>5. SocketTypeOK'
  BY <1>0, <1>1, <1>4 DEF SocketTypeOK
<1>6. ASSUME NEW c \in Connections PROVE ConnectionOK(conn'[c], handlers'[c], c \in active')
  BY <1>0, <1>3 DEF ConnectionOK
<1> QED
  BY <1>0, <1>2, <1>5, <1>6 DEF SocketInv

(***************************************************************************)
(* The inductive invariant of the WebSocket endpoint, for any limit.       *)
(***************************************************************************)
THEOREM SocketInvariant == SocketSpec => []SocketInv
<1>1. SocketInit => SocketInv
  <2> SUFFICES ASSUME SocketInit PROVE SocketInv
    OBVIOUS
  <2>1. MaxConnections \in Nat
    BY MaxConnectionsAssumption
  <2>2. /\ conn \in [Connections -> Connection] /\ handlers \in [Connections -> Nat]
        /\ \A c \in Connections : conn[c].session = "none" /\ conn[c].ws = "new"
                                  /\ conn[c].pending = "none" /\ handlers[c] = 0
    BY DEF SocketInit, Connection
  <2>3. /\ active = {} /\ IsFiniteSet(active) /\ Cardinality(active) = 0 /\ closed = FALSE
        /\ shutdown = "none" /\ entries = {}
    BY FS_EmptySet DEF SocketInit
  <2>4. SocketTypeOK
    <3>1. Cardinality(active) <= MaxConnections /\ active \subseteq Connections
      BY <2>1, <2>3
    <3>2. closed \in BOOLEAN /\ entries \subseteq Connections
      BY <2>3
    <3> QED
      BY <2>2, <2>3, <3>1, <3>2 DEF SocketTypeOK
  <2>5. \A c \in Connections : ConnectionOK(conn[c], handlers[c], c \in active)
    BY <2>2, <2>3 DEF ConnectionOK
  <2>6. ShutdownOK
    BY <2>3 DEF ShutdownOK, SocketInit
  <2> QED
    BY <2>3, <2>4, <2>5, <2>6 DEF SocketInv
<1>2. SocketInv /\ [SocketNext]_socketVars => SocketInv'
  <2> SUFFICES ASSUME SocketInv, [SocketNext]_socketVars PROVE SocketInv'
    OBVIOUS
  <2>1. CASE SocketNext
    BY <2>1, UpgradeStep, MessageStep, SocketStep, ShutdownStep DEF SocketNext
  <2>2. CASE UNCHANGED socketVars
    BY <2>2 DEF socketVars, SocketInv, SocketTypeOK, ShutdownOK
  <2> QED
    BY <2>1, <2>2
<1> QED
  BY <1>1, <1>2, PTL DEF SocketSpec

(***************************************************************************)
(* For any limit: no connection has two messages in hand (W03).            *)
(***************************************************************************)
THEOREM MessagesCorrect == SocketSpec => []MessagesAreSound
<1>1. SocketInv => MessagesAreSound
  BY DEF SocketInv, ConnectionOK, MessagesAreSound, OneMessageAtATime
<1>2. SocketSpec => []SocketInv
  BY SocketInvariant
<1> QED
  BY <1>1, <1>2, PTL

(***************************************************************************)
(* For any limit: a session is cleaned up once, behind its work, and a     *)
(* close() that answers true has left none open (W01).                     *)
(***************************************************************************)
THEOREM SessionsCorrect == SocketSpec => []SessionsAreSound
<1>1. SocketInv => SessionsAreSound
  <2> SUFFICES ASSUME SocketInv PROVE SessionsAreSound
    OBVIOUS
  <2>1. CleanupIsLast
    BY DEF SocketInv, ConnectionOK, CleanupIsLast
  <2>2. DrainedMeansNoSession
    BY DEF SocketInv, ShutdownOK, ConnectionOK, DrainedMeansNoSession
  <2> QED
    BY <2>1, <2>2 DEF SessionsAreSound
<1>2. SocketSpec => []SocketInv
  BY SocketInvariant
<1> QED
  BY <1>1, <1>2, PTL
=============================================================================
