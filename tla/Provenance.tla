----------------------------- MODULE Provenance -----------------------------
(***************************************************************************)
(* shared/provenance: the transitions of factory.ts that make work and       *)
(* scopes (executions of work) out of earlier ones, with the validation of    *)
(* work.ts and scope.ts that each result passes.  lineage lists everything a   *)
(* process made of one root, from any earlier entry; the ID generator          *)
(* may return any ID, also one in use.  Operations, attributions, executors     *)
(* and times are validated leaves that no transition compares: left out.       *)
(* Module EventLineage adds the way of work through an envelope.               *)
(***************************************************************************)
EXTENDS Integers, Sequences

CONSTANTS
    ID,
    None,          \* undefined
    Bad,           \* an incoming hint that does not parse
    MaxDepth,      \* 4294967295
    MaxAttempt,    \* 4294967295
    MaxEntries     \* bound: how much a process makes

ASSUME LimitAssumption ==
    MaxDepth \in Nat /\ MaxAttempt \in Nat \ {0} /\ MaxEntries \in Nat

VARIABLES
    lineage,    \* what was made: [op, from, work, scopeId, attempt, previous]
    answer,     \* of the last call: "ok" or why it was refused
    fresh       \* the ID the last call drew was not known before

lineageVars == <<lineage, answer, fresh>>

Reference == [kind : {"scope", "work", "event"}, id : ID]

ReplayOf == [runId : ID \cup {None}, source : Reference]

(* Undefined is no value of any field, and what does not parse is no ID and no *)
(* reference.                                                                  *)
FieldValues ==
    ID \cup Nat \cup {"local", "external", "request", "replay"} \cup Reference \cup ReplayOf
ASSUME NoneAssumption == None \notin FieldValues /\ Bad \notin FieldValues /\ None # Bad

Answers == {"ok", "invalid", "exhausted", "unavailable", "generated"}

NoWork == [workId |-> None, correlationId |-> None, source |-> "local", causation |-> None,
           origin |-> "request", depth |-> 0, replay |-> None]

LineageInit ==
    /\ lineage = <<>>
    /\ answer = "ok"
    /\ fresh = TRUE

----------------------------------------------------------------------------
(* validateWork: an ID may be missing when it has a default *)
ValidWork(w, defaults) ==
    /\ ~defaults => w.workId # None /\ w.correlationId # None
    /\ (w.replay # None) <=> (w.origin = "replay")
    /\ w.causation # None => w.causation # [kind |-> "work", id |-> w.workId]
    /\ w.depth # None =>
         /\ w.depth <= MaxDepth
         /\ w.source = "local" /\ w.depth = 0 => w.causation = None
         /\ w.depth > 0 => w.causation # None
    /\ w.replay # None =>
         /\ ~defaults => w.replay.runId # None
         /\ w.replay.source # [kind |-> "work", id |-> w.workId]

(* restoreScope: a scope is valid if its work is and it is not its own cause *)
(* or its own previous attempt                                               *)
ValidScope(s) ==
    /\ ValidWork(s.work, FALSE)
    /\ s.attempt \in 1..MaxAttempt
    /\ s.previous # None => s.previous # s.scopeId /\ s.attempt # 1
    /\ s.work.causation # None => s.work.causation # [kind |-> "scope", id |-> s.scopeId]

(* The IDs a process has seen: those of the lineage and of the call *)
WorkIDs(w) ==
    ({w.workId, w.correlationId}
       \cup (IF w.causation = None THEN {} ELSE {w.causation.id})
       \cup (IF w.replay = None THEN {} ELSE {w.replay.runId, w.replay.source.id})) \ {None}

Known(w) ==
    WorkIDs(w) \cup UNION {WorkIDs(lineage[i].work) \cup {lineage[i].scopeId} : i \in DOMAIN lineage}

Make(op, from, work, scopeId, attempt, previous) ==
    [op |-> op, from |-> from, work |-> work, scopeId |-> scopeId, attempt |-> attempt,
     previous |-> previous]

Refuse(why) == answer' = why /\ fresh' = TRUE /\ UNCHANGED lineage

(* What a draft leaves out is the ID of its first scope *)
Defaults(w, id) ==
    [w EXCEPT !.workId = IF w.workId = None THEN id ELSE w.workId,
              !.correlationId = IF w.correlationId = None THEN id ELSE w.correlationId,
              !.replay = IF w.replay # None /\ w.replay.runId = None
                         THEN [w.replay EXCEPT !.runId = id] ELSE w.replay]

(* #emit: checks the draft, reads the clock, draws the ID, either of which    *)
(* may fail, and validates the whole scope                                    *)
Emit(op, from, w, attempt, previous, forbidden, id) ==
    IF attempt \notin 1..MaxAttempt \/ ~ValidWork(w, TRUE) THEN Refuse("invalid")
    ELSE \/ \E why \in {"invalid", "unavailable"} : Refuse(why)
         \/ LET made == Make(op, from, Defaults(w, id), id, attempt, previous)
                good == id \notin forbidden /\ ValidScope(made)
            IN /\ fresh' = (id \notin Known(w))
               /\ answer' = IF good THEN "ok" ELSE "generated"
               /\ lineage' = IF good THEN Append(lineage, made) ELSE lineage

----------------------------------------------------------------------------
(* inspectIncoming: a correlation hint continues a chain; a cause counts     *)
(* only with a correlation.                                                    *)
InspectIncoming(correlation, causation) ==
    [continued |-> correlation \in ID,
     correlation |-> IF correlation \in ID THEN correlation ELSE None,
     cause |-> IF correlation \in ID /\ causation \in Reference THEN causation ELSE None]

(* open *)
Open(workId, id) == Emit("open", 0, [NoWork EXCEPT !.workId = workId], 1, None, {}, id)

(* enter: the inspected hints decide whether the chain goes on *)
Enter(workId, correlation, causation, id) ==
    LET i == InspectIncoming(correlation, causation)
        w == [NoWork EXCEPT !.workId = workId]
    IN Emit("enter", 0,
            IF i.continued
            THEN [w EXCEPT !.correlationId = i.correlation, !.source = "external",
                           !.causation = i.cause, !.origin = None, !.depth = None]
            ELSE w,
            1, None, {}, id)

(* replay: a new lineage that names its source *)
Replay(source, runId, workId, id) ==
    IF workId # None /\ source = [kind |-> "work", id |-> workId] THEN Refuse("invalid")
    ELSE Emit("replay", 0,
              [NoWork EXCEPT !.workId = workId, !.origin = "replay",
                             !.replay = [runId |-> runId, source |-> source]],
              1, None, IF source.kind = "scope" THEN {source.id} ELSE {}, id)

IsScope(i) == lineage[i].scopeId # None

(* childWork: the parent's work with an ID, a depth and a cause of its own *)
ChildWork(s, workId, cause) ==
    [s.work EXCEPT !.workId = workId,
                   !.depth = IF s.work.depth = None THEN None ELSE s.work.depth + 1,
                   !.causation = IF cause = None THEN [kind |-> "scope", id |-> s.scopeId]
                                 ELSE cause]

(* Why childWork refuses, or "ok" *)
ChildRefusal(s, workId, cause) ==
    IF workId # None /\ workId = s.work.workId THEN "invalid"
    ELSE IF s.work.depth # None /\ s.work.depth = MaxDepth THEN "exhausted"
    ELSE IF ~ValidWork(ChildWork(s, workId, cause), TRUE) THEN "invalid"
    ELSE "ok"

\* Mutant: the drawn ID may be that of the parent's work.
Child_OnlyScope(i, workId, cause, id) ==
    /\ IsScope(i)
    /\ LET s == lineage[i]  refusal == ChildRefusal(s, workId, cause) IN
         IF refusal # "ok" THEN Refuse(refusal)
         ELSE Emit("child", i, ChildWork(s, workId, cause), 1, None, {s.scopeId}, id)

(* child: the drawn ID is not the parent's, as a scope or as work *)
Child(i, workId, cause, id) ==
    /\ IsScope(i)
    /\ LET s == lineage[i]  refusal == ChildRefusal(s, workId, cause) IN
         IF refusal # "ok" THEN Refuse(refusal)
         ELSE Emit("child", i, ChildWork(s, workId, cause), 1, None,
                   {s.scopeId} \cup (IF workId = None THEN {s.work.workId} ELSE {}), id)

(* prepare: work that has no execution yet *)
Prepare(i, workId, cause) ==
    /\ IsScope(i)
    /\ LET s == lineage[i]
           w == ChildWork(s, workId, cause)
           refusal == ChildRefusal(s, workId, cause)
       IN IF refusal # "ok" \/ ~ValidWork(w, FALSE)
          THEN Refuse(IF refusal = "ok" THEN "invalid" ELSE refusal)
          ELSE /\ lineage' = Append(lineage, Make("prepare", i, w, None, 0, None))
               /\ answer' = "ok" /\ fresh' = TRUE

(* execute: of prepared work or of the work of a scope *)
Execute(i, attempt, id) == Emit("execute", i, lineage[i].work, attempt, None, {}, id)

(* retry *)
Retry(i, id) ==
    /\ IsScope(i)
    /\ LET s == lineage[i] IN
         IF s.attempt = MaxAttempt THEN Refuse("exhausted")
         ELSE Emit("retry", i, s.work, s.attempt + 1, s.scopeId, {s.scopeId}, id)

(* One lineage has one root: others share nothing with it but the generator *)
Root(workId, id) ==
    /\ lineage = <<>>
    /\ \/ Open(workId, id)
       \/ \E correlation \in ID \cup {None, Bad}, causation \in Reference \cup {None, Bad} :
            Enter(workId, correlation, causation, id)
       \/ \E source \in Reference, runId \in ID \cup {None} : Replay(source, runId, workId, id)

ProvenanceStep ==
    /\ Len(lineage) < MaxEntries
    /\ \E id \in ID, workId \in ID \cup {None} :
         \/ Root(workId, id)
         \/ \E i \in DOMAIN lineage :
              \/ \E cause \in Reference \cup {None} : Child(i, workId, cause, id)
              \/ \E cause \in Reference \cup {None} : workId # None /\ Prepare(i, workId, cause)
              \/ \E attempt \in 0..(MaxAttempt + 1) : Execute(i, attempt, id)
              \/ Retry(i, id)

----------------------------------------------------------------------------
(* Whatever the generator draws, every entry that was made is one that       *)
(* restoreWork or restoreScope accepts: no scope or work is its own cause,    *)
(* its own replay source or its own previous attempt, and depth and attempt    *)
(* are in range.                                                              *)
LineageTypeOK ==
    /\ answer \in Answers
    /\ fresh \in BOOLEAN
    /\ Len(lineage) <= MaxEntries
    /\ \A i \in DOMAIN lineage :
         IF IsScope(i) THEN ValidScope(lineage[i]) ELSE ValidWork(lineage[i].work, FALSE)

(* The entry a lineage began with, and how many pieces of work lie between *)
RootOf[i \in DOMAIN lineage] ==
    IF lineage[i].from = 0 THEN i ELSE RootOf[lineage[i].from]

Hops[i \in DOMAIN lineage] ==
    IF lineage[i].from = 0 THEN 0
    ELSE IF lineage[i].op \in {"child", "prepare"} THEN Hops[lineage[i].from] + 1
    ELSE Hops[lineage[i].from]

(* Contract, "Transitions": everything descending from a root by child,       *)
(* prepare, execute and retry in any combination keeps its correlation,        *)
(* source, origin and replay; and the depth, where it is known, counts the      *)
(* pieces of work and not the attempts.                                        *)
LineageIsKept ==
    \A i \in DOMAIN lineage :
        LET w == lineage[i].work  r == lineage[RootOf[i]].work IN
        /\ w.correlationId = r.correlationId /\ w.source = r.source
        /\ w.origin = r.origin /\ w.replay = r.replay
        /\ w.depth = IF r.depth = None THEN None ELSE r.depth + Hops[i]

(* Contract: "An explicit work ID on Child/Prepare must differ from the       *)
(* parent's work ID".  New work is other work than its parent's also when the  *)
(* generator repeats itself.                                                   *)
ChildIsNewWork ==
    \A i \in DOMAIN lineage : lineage[i].op \in {"child", "prepare"} =>
        /\ lineage[i].work.workId # lineage[lineage[i].from].work.workId
        /\ lineage[i].scopeId # lineage[lineage[i].from].scopeId

(* Attempts of one piece of work do not lose it: a retry has the work of the  *)
(* scope it retries, a later attempt and a reference to it; the count never     *)
(* wraps ("Checked increments refuse overflow; they never wrap").              *)
RetriesGoOn ==
    \A i \in DOMAIN lineage : lineage[i].op = "retry" =>
        LET p == lineage[lineage[i].from] IN
        /\ lineage[i].work = p.work
        /\ lineage[i].attempt > p.attempt
        /\ lineage[i].previous = p.scopeId

(* The generator is blamed only for a collision: a call that draws an ID       *)
(* nobody knew is never refused for it.                                        *)
CollisionIsReal == answer = "generated" => ~fresh

(* Every transition, in any order and with any ID drawn, makes an entry that  *)
(* can be restored and is new work or a later attempt, and refuses for a       *)
(* reason that is there.                                                       *)
TransitionsAreSound == LineageTypeOK /\ ChildIsNewWork /\ RetriesGoOn /\ CollisionIsReal
=============================================================================
