------------------------------ MODULE Database ------------------------------
(***************************************************************************)
(* Database.transaction and Database.close of shared/postgres/index.ts:    *)
(* the calls of one process, the connection pool they share, and the       *)
(* server's side of their transactions.                                    *)
(*                                                                         *)
(* The server runs on its own: a COMMIT that was sent may be carried out   *)
(* after the caller was told that the outcome is uncertain, and a          *)
(* connection that was destroyed is noticed by the server some time later. *)
(* The callback may hang, ignore its signal, fail or throw.  A call's      *)
(* deadline and the caller's abort signal may strike between any two steps *)
(* of the operation.                                                       *)
(***************************************************************************)
EXTENDS Naturals, FiniteSets

CONSTANTS
    Calls,     \* calls of transaction()
    Conns,     \* connection slots of the pool (maxConnections of them)
    NoConn,
    NoCall

ASSUME DatabaseAssumption == NoConn \notin Conns /\ NoCall \notin Calls

VARIABLES
    pc,          \* where the operation of a call is
    lease,       \* the client a call has not released, or NoConn
    committing,  \* calls whose flag `committing` is set
    aborted,     \* calls whose caller's signal is aborted
    result,      \* what the call's promise resolved to, or "none"
    conn,        \* each pool slot: "closed", "idle" or "leased"
    session,     \* the call whose transaction is open on a slot's connection
    server,      \* the transaction of a call as the server knows it
    reply,       \* the server's answer to the COMMIT of a call
    ending       \* close(): "no", "ending" or "ended" (pool.end resolved)

vars == <<pc, lease, committing, aborted, result, conn, session, server,
          reply, ending>>

\* Results that say that the transaction is not, and will not be, committed.
Definite == {"closed", "canceled", "timeout", "refused", "failed"}

(***************************************************************************)
(* Type invariant of the calls, the pool and the server.                   *)
(***************************************************************************)
TypeOK ==
    /\ pc \in [Calls -> {"new", "connect", "begin", "fn", "rollback", "commit", "done"}]
    /\ lease \in [Calls -> Conns \cup {NoConn}]
    /\ committing \subseteq Calls
    /\ aborted \subseteq Calls
    /\ result \in [Calls -> Definite \cup {"none", "ok", "uncertain"}]
    /\ conn \in [Conns -> {"closed", "idle", "leased"}]
    /\ session \in [Conns -> Calls \cup {NoCall}]
    /\ server \in [Calls -> {"none", "open", "committed", "aborted"}]
    /\ reply \in [Calls -> {"none", "commit", "rollback", "error"}]
    /\ ending \in {"no", "ending", "ended"}

Init ==
    /\ pc = [c \in Calls |-> "new"]
    /\ lease = [c \in Calls |-> NoConn]
    /\ committing = {}
    /\ aborted = {}
    /\ result = [c \in Calls |-> "none"]
    /\ conn = [x \in Conns |-> "closed"]
    /\ session = [x \in Conns |-> NoCall]
    /\ server = [c \in Calls |-> "none"]
    /\ reply = [c \in Calls |-> "none"]
    /\ ending = "no"

-----------------------------------------------------------------------------
(***************************************************************************)
(* Promise.race: the first result counts.                                  *)
(***************************************************************************)
Settle(c, r) ==
    result' = IF result[c] = "none" THEN [result EXCEPT ![c] = r] ELSE result

\* Mutant: a client that is to be destroyed goes back to the pool.
Release_Keeps(c, destroy) ==
    LET x == lease[c] IN
    /\ lease' = [lease EXCEPT ![c] = NoConn]
    /\ conn' = IF x = NoConn THEN conn
               ELSE [conn EXCEPT ![x] = IF ending # "no" THEN "closed" ELSE "idle"]

(***************************************************************************)
(* release(destroy): only the first call does anything.  A client that is  *)
(* not destroyed goes back to the pool, which closes it when it is ending. *)
(***************************************************************************)
Release(c, destroy) ==
    LET x == lease[c] IN
    /\ lease' = [lease EXCEPT ![c] = NoConn]
    /\ conn' = IF x = NoConn THEN conn
               ELSE [conn EXCEPT ![x] = IF destroy \/ ending # "no" THEN "closed"
                                        ELSE "idle"]

\* Mutant: the result does not depend on `committing`.
Stop_NeverUncertain(c, canceled) ==
    /\ Release(c, TRUE)
    /\ Settle(c, IF canceled THEN "canceled" ELSE "timeout")

(***************************************************************************)
(* stop(): abort the callback's signal, destroy the client and settle the  *)
(* call: uncertain once `committing` is set.  Stopped(c) is the callback's *)
(* signal: it is aborted exactly by stop(), which also settles.            *)
(***************************************************************************)
Stop(c, canceled) ==
    /\ Release(c, TRUE)
    /\ Settle(c, IF c \in committing THEN "uncertain"
                 ELSE IF canceled THEN "canceled" ELSE "timeout")

Stopped(c) == result[c] # "none"

-----------------------------------------------------------------------------
\* transaction() is called: refused when the pool is closing or the signal is
\* aborted already, otherwise it waits for a client.
Call(c) ==
    /\ pc[c] = "new"
    /\ \/ /\ ending # "no"
          /\ pc' = [pc EXCEPT ![c] = "done"]
          /\ Settle(c, "closed")
       \/ /\ ending = "no" /\ c \in aborted
          /\ pc' = [pc EXCEPT ![c] = "done"]
          /\ Settle(c, "canceled")
       \/ /\ ending = "no" /\ c \notin aborted
          /\ pc' = [pc EXCEPT ![c] = "connect"]
          /\ UNCHANGED result
    /\ UNCHANGED <<lease, committing, aborted, conn, session, server, reply, ending>>

\* pool.connect resolves with an idle client or a new one.  A signal aborted
\* meanwhile stops the call before it sends anything.
Connect(c, x) ==
    /\ pc[c] = "connect"
    /\ conn[x] \in {"idle", "closed"}
    /\ ending # "ended"
    /\ IF c \in aborted
       THEN /\ pc' = [pc EXCEPT ![c] = "done"]
            /\ result' = [result EXCEPT ![c] = "canceled"]
            /\ conn' = [conn EXCEPT ![x] = "closed"]
            /\ UNCHANGED lease
       ELSE /\ pc' = [pc EXCEPT ![c] = "begin"]
            /\ lease' = [lease EXCEPT ![c] = x]
            /\ conn' = [conn EXCEPT ![x] = "leased"]
            /\ UNCHANGED result
    /\ session' = IF conn[x] = "closed" THEN [session EXCEPT ![x] = NoCall] ELSE session
    /\ UNCHANGED <<committing, aborted, server, reply, ending>>

\* pool.connect rejects: the connection timeout, or the pool has ended.
ConnectFails(c) ==
    /\ pc[c] = "connect"
    /\ pc' = [pc EXCEPT ![c] = "done"]
    /\ Settle(c, "failed")
    /\ UNCHANGED <<lease, committing, aborted, conn, session, server, reply, ending>>

\* BEGIN is answered and the callback starts.
Begin(c) ==
    /\ pc[c] = "begin"
    /\ lease[c] # NoConn
    /\ session' = [session EXCEPT ![lease[c]] = c]
    /\ server' = [server EXCEPT ![c] = "open"]
    /\ pc' = [pc EXCEPT ![c] = "fn"]
    /\ UNCHANGED <<lease, committing, aborted, result, conn, reply, ending>>

\* The callback returns ok.  A stopped call ends; otherwise the flag is set
\* and COMMIT is sent.
CallbackOk(c) ==
    /\ pc[c] = "fn"
    /\ IF Stopped(c)
       THEN pc' = [pc EXCEPT ![c] = "done"] /\ UNCHANGED committing
       ELSE pc' = [pc EXCEPT ![c] = "commit"] /\ committing' = committing \cup {c}
    /\ UNCHANGED <<lease, aborted, result, conn, session, server, reply, ending>>

\* The callback returns a failure: ROLLBACK is sent.
CallbackErr(c) ==
    /\ pc[c] = "fn"
    /\ pc' = [pc EXCEPT ![c] = IF Stopped(c) THEN "done" ELSE "rollback"]
    /\ UNCHANGED <<lease, committing, aborted, result, conn, session, server,
                   reply, ending>>

\* ROLLBACK is answered: the clean client goes back to the pool.
RolledBack(c) ==
    /\ pc[c] = "rollback"
    /\ lease[c] # NoConn
    /\ server' = [server EXCEPT ![c] = "aborted"]
    /\ session' = [session EXCEPT ![lease[c]] = NoCall]
    /\ Release(c, FALSE)
    /\ Settle(c, "refused")
    /\ pc' = [pc EXCEPT ![c] = "done"]
    /\ UNCHANGED <<committing, aborted, reply, ending>>

\* BEGIN, ROLLBACK or a statement of the callback fails, or the callback
\* throws: the client is destroyed.
OperationFails(c) ==
    /\ pc[c] \in {"begin", "fn", "rollback"}
    /\ Release(c, TRUE)
    /\ Settle(c, "failed")
    /\ pc' = [pc EXCEPT ![c] = "done"]
    /\ UNCHANGED <<committing, aborted, session, server, reply, ending>>

-----------------------------------------------------------------------------
(***************************************************************************)
(* The server carries out a COMMIT that was sent, whether or not the       *)
(* client is still there: it commits, answers ROLLBACK because a statement *)
(* had failed, or refuses with an error.                                   *)
(***************************************************************************)
ServerCommits(c) ==
    /\ server[c] = "open" /\ c \in committing
    /\ \E answer \in {"commit", "rollback", "error"} :
          /\ server' = [server EXCEPT ![c] =
                          IF answer = "commit" THEN "committed" ELSE "aborted"]
          /\ reply' = [reply EXCEPT ![c] = answer]
    /\ session' = [x \in Conns |-> IF session[x] = c THEN NoCall ELSE session[x]]
    /\ UNCHANGED <<pc, lease, committing, aborted, result, conn, ending>>

\* The server notices that the client is gone and aborts what was open.
ServerAborts(c) ==
    /\ server[c] = "open"
    /\ lease[c] = NoConn
    /\ server' = [server EXCEPT ![c] = "aborted"]
    /\ session' = [x \in Conns |-> IF session[x] = c THEN NoCall ELSE session[x]]
    /\ UNCHANGED <<pc, lease, committing, aborted, result, conn, reply, ending>>

\* The answer to COMMIT arrives.
CommitAnswered(c) ==
    /\ pc[c] = "commit"
    /\ lease[c] # NoConn
    /\ reply[c] # "none"
    /\ Release(c, reply[c] = "error")
    /\ Settle(c, IF reply[c] = "commit" THEN "ok" ELSE "failed")
    /\ pc' = [pc EXCEPT ![c] = "done"]
    /\ UNCHANGED <<committing, aborted, session, server, reply, ending>>

\* The connection fails while COMMIT is out, or the client was destroyed.
CommitLost(c) ==
    /\ pc[c] = "commit"
    /\ Release(c, TRUE)
    /\ Settle(c, "uncertain")
    /\ pc' = [pc EXCEPT ![c] = "done"]
    /\ UNCHANGED <<committing, aborted, session, server, reply, ending>>

-----------------------------------------------------------------------------
\* Mutant: the timer is cleared before COMMIT is sent.
Armed_NotInCommit(c) == pc[c] \in {"begin", "fn", "rollback"} /\ result[c] = "none"

\* The timer and the abort listener exist from the lease to the result.
Armed(c) == pc[c] \in {"begin", "fn", "rollback", "commit"} /\ result[c] = "none"

Deadline(c) ==
    /\ Armed(c)
    /\ Stop(c, FALSE)
    /\ UNCHANGED <<pc, committing, aborted, session, server, reply, ending>>

\* The caller aborts its signal.
CallerAborts(c) ==
    /\ c \notin aborted
    /\ result[c] = "none"
    /\ aborted' = aborted \cup {c}
    /\ IF Armed(c) THEN Stop(c, TRUE) ELSE UNCHANGED <<lease, conn, result>>
    /\ UNCHANGED <<pc, committing, session, server, reply, ending>>

\* close(): pool.end() closes the idle clients at once.
Close ==
    /\ ending = "no"
    /\ ending' = "ending"
    /\ conn' = [x \in Conns |-> IF conn[x] = "idle" THEN "closed" ELSE conn[x]]
    /\ UNCHANGED <<pc, lease, committing, aborted, result, session, server, reply>>

\* pool.end() resolves when the last client is back.
PoolEnds ==
    /\ ending = "ending"
    /\ \A x \in Conns : conn[x] = "closed"
    /\ ending' = "ended"
    /\ UNCHANGED <<pc, lease, committing, aborted, result, conn, session, server, reply>>

\* Everything a call does by itself, the callback's end excepted.
Operation(c) ==
    \/ Call(c)
    \/ \E x \in Conns : Connect(c, x)
    \/ ConnectFails(c)
    \/ Begin(c)
    \/ RolledBack(c)
    \/ OperationFails(c)
    \/ CommitAnswered(c)
    \/ CommitLost(c)

Next ==
    \/ \E c \in Calls : Operation(c)
    \/ \E c \in Calls : CallbackOk(c)
    \/ \E c \in Calls : CallbackErr(c)
    \/ \E c \in Calls : Deadline(c)
    \/ \E c \in Calls : CallerAborts(c)
    \/ \E c \in Calls : ServerCommits(c)
    \/ \E c \in Calls : ServerAborts(c)
    \/ Close
    \/ PoolEnds

Spec == Init /\ [][Next]_vars

(***************************************************************************)
(* Fairness: timers fire (the pool's connection timeout, the deadline of   *)
(* the call), and pool.end() resolves once it can.  Nothing is assumed of  *)
(* the callback or of the server.                                          *)
(***************************************************************************)
FairSpec ==
    /\ Spec
    /\ \A c \in Calls : WF_vars(Call(c)) /\ WF_vars(ConnectFails(c)) /\ WF_vars(Deadline(c))
    /\ WF_vars(PoolEnds)

-----------------------------------------------------------------------------
(***************************************************************************)
(* Contract D04: what the caller is told is true.  "ok" means committed; a *)
(* definite failure means that the transaction is not committed and never  *)
(* will be, whatever the deadline, the abort signal and the connection did *)
(* while COMMIT was out.                                                   *)
(***************************************************************************)
OutcomeIsTrue ==
    \A c \in Calls :
        /\ result[c] = "ok" => server[c] = "committed"
        /\ result[c] \in Definite => server[c] # "committed"

(***************************************************************************)
(* Contract D03: a client in the pool has no open transaction, so no call  *)
(* ever continues another call's transaction.                              *)
(***************************************************************************)
PooledClientsAreClean ==
    \A x \in Conns : conn[x] = "idle" => session[x] = NoCall

(***************************************************************************)
(* Each leased connection belongs to exactly one call that has not         *)
(* released it, and a client is released when its call has an answer.      *)
(***************************************************************************)
LeasesMatch ==
    \A x \in Conns :
        Cardinality({c \in Calls : lease[c] = x /\ result[c] = "none"})
            = (IF conn[x] = "leased" THEN 1 ELSE 0)

(***************************************************************************)
(* The pool is sound in every state, whatever release() and stop() raced:  *)
(* well typed, clean clients only, and every lease accounted for.          *)
(***************************************************************************)
PoolIsSound == TypeOK /\ PooledClientsAreClean /\ LeasesMatch

(***************************************************************************)
(* Contract D02: every call is answered, although callbacks may hang.      *)
(***************************************************************************)
EveryCallAnswered == \A c \in Calls : pc[c] # "new" ~> result[c] # "none"

(***************************************************************************)
(* Contract D02: once close() was called the pool drains, although         *)
(* callbacks may hang.                                                     *)
(***************************************************************************)
CloseDrains == ending = "ending" ~> ending = "ended"

(***************************************************************************)
(* Nobody waits for ever on the database: neither a caller of transaction  *)
(* nor the caller of close(), whatever hangs behind them.                  *)
(***************************************************************************)
EverythingEnds == EveryCallAnswered /\ CloseDrains
=============================================================================
