--------------------------- MODULE DatabaseProofs ---------------------------
(***************************************************************************)
(* What works on one PostgreSQL database: Database.transaction and its     *)
(* pool, for any number of calls and of connections; and the event         *)
(* processes with Database.migrate, for any number of processes, of any    *)
(* releases, on either transport.                                          *)
(***************************************************************************)
EXTENDS Database, EventProcess, FiniteSetTheorems, TLAPS

\* A call holds a client exactly from the lease to its answer; the flag
\* `committing` is set exactly when COMMIT is sent; and what the server said
\* is what it did.
CallOK(c) ==
    /\ pc[c] \in {"new", "connect"} => result[c] = "none"
    /\ pc[c] \in {"new", "connect", "begin"} => server[c] = "none"
    /\ pc[c] = "done" => result[c] # "none"
    /\ lease[c] # NoConn <=> /\ pc[c] \in {"begin", "fn", "rollback", "commit"}
                             /\ result[c] = "none"
    /\ pc[c] = "commit" => c \in committing
    /\ c \in committing => pc[c] \in {"commit", "done"}
    /\ reply[c] # "none" => c \in committing
    /\ reply[c] \in {"rollback", "error"} => server[c] = "aborted"
    /\ server[c] = "committed" <=> reply[c] = "commit"
    /\ result[c] = "ok" => server[c] = "committed"
    /\ result[c] \in Definite => c \notin committing \/ server[c] = "aborted"

\* Leases: one call per client, and a client is leased only by a call.
LeaseOK ==
    /\ \A c, d \in Calls : lease[c] # NoConn /\ lease[c] = lease[d] => c = d
    /\ \A c \in Calls : lease[c] # NoConn => conn[lease[c]] = "leased"
    /\ \A x \in Conns : conn[x] = "leased" => \E c \in Calls : lease[c] = x

\* Sessions: a connection runs the open transaction of the call that leases
\* it or of one that gave it up, and none when it is back in the pool.
SessionOK(x) ==
    /\ session[x] # NoCall =>
          /\ server[session[x]] = "open"
          /\ lease[session[x]] \in {NoConn, x}
    /\ conn[x] = "idle" => session[x] = NoCall
    /\ \A c \in Calls : lease[c] = x => session[x] \in {NoCall, c}

DatabaseInv ==
    /\ TypeOK
    /\ \A c \in Calls : CallOK(c)
    /\ LeaseOK
    /\ \A x \in Conns : SessionOK(x)

-----------------------------------------------------------------------------
(***************************************************************************)
(* A client that release() gives up is leased by nobody, and every other   *)
(* lease is as it was: only the first release of a call does anything.     *)
(***************************************************************************)
LEMMA ReleaseGivesUp ==
    ASSUME TypeOK, LeaseOK, NEW c \in Calls, NEW destroy \in BOOLEAN,
           Release(c, destroy)
    PROVE  /\ lease' \in [Calls -> Conns \cup {NoConn}]
           /\ conn' \in [Conns -> {"closed", "idle", "leased"}]
           /\ \A d \in Calls : lease'[d] = IF d = c THEN NoConn ELSE lease[d]
           /\ \A x \in Conns : \/ conn'[x] = conn[x] /\ x # lease[c]
                               \/ /\ x = lease[c]
                                  /\ conn'[x] \in {"closed", "idle"}
                                  /\ destroy => conn'[x] = "closed"
           /\ LeaseOK'
<1>0. lease[c] \in Conns \cup {NoConn} /\ NoConn \notin Conns
  BY DatabaseAssumption DEF TypeOK
<1>1. lease' \in [Calls -> Conns \cup {NoConn}]
  BY DEF TypeOK, Release
<1>2. conn' \in [Conns -> {"closed", "idle", "leased"}]
  BY <1>0 DEF TypeOK, Release
<1>3. \A d \in Calls : lease'[d] = IF d = c THEN NoConn ELSE lease[d]
  BY DEF TypeOK, Release
<1>4. ASSUME NEW x \in Conns
      PROVE  \/ conn'[x] = conn[x] /\ x # lease[c]
             \/ /\ x = lease[c]
                /\ conn'[x] \in {"closed", "idle"}
                /\ destroy => conn'[x] = "closed"
  BY <1>0 DEF TypeOK, Release
<1>5. ASSUME NEW d \in Calls, NEW e \in Calls, lease'[d] # NoConn, lease'[d] = lease'[e]
      PROVE  d = e
  BY <1>3, <1>5 DEF LeaseOK
<1>6. ASSUME NEW d \in Calls, lease'[d] # NoConn
      PROVE  conn'[lease'[d]] = "leased"
  <2>1. lease'[d] = lease[d] /\ d # c /\ lease[d] # NoConn
    BY <1>3, <1>6
  <2>2. lease[d] \in Conns /\ lease[d] # lease[c]
    BY <2>1 DEF LeaseOK, TypeOK
  <2> QED
    BY <2>1, <2>2, <1>4 DEF LeaseOK
<1>7. ASSUME NEW x \in Conns, conn'[x] = "leased"
      PROVE  \E d \in Calls : lease'[d] = x
  <2>1. conn[x] = "leased" /\ x # lease[c]
    BY <1>4, <1>7
  <2>2. PICK d \in Calls : lease[d] = x
    BY <2>1 DEF LeaseOK
  <2> QED
    BY <2>1, <2>2, <1>3
<1> QED
  BY <1>1, <1>2, <1>3, <1>4, <1>5, <1>6, <1>7 DEF LeaseOK

(***************************************************************************)
(* A call that is answered as it gives up its client, and that has sent no *)
(* COMMIT, was told of one, or is answered "uncertain" or a failure the    *)
(* server agrees with, leaves the pool and the server in order.            *)
(***************************************************************************)
LEMMA AnswerKeeps ==
    ASSUME DatabaseInv, NEW c \in Calls, NEW destroy \in BOOLEAN,
           NEW r \in Definite \cup {"ok", "uncertain"},
           Release(c, destroy), Settle(c, r),
           pc[c] \in {"begin", "fn", "rollback", "commit"},
           pc' \in {pc, [pc EXCEPT ![c] = "done"]},
           r = "ok" => server[c] = "committed",
           r \in Definite /\ result[c] = "none" => c \notin committing \/ server[c] = "aborted",
           ~destroy /\ lease[c] # NoConn => session[lease[c]] = NoCall,
           aborted' \subseteq Calls,
           UNCHANGED <<committing, session, server, reply, ending>>
    PROVE  DatabaseInv'
<1>0. TypeOK /\ LeaseOK /\ NoConn \notin Conns /\ NoCall \notin Calls
  BY DatabaseAssumption DEF DatabaseInv
<1>1. /\ lease' \in [Calls -> Conns \cup {NoConn}]
      /\ conn' \in [Conns -> {"closed", "idle", "leased"}]
      /\ LeaseOK'
  BY <1>0, ReleaseGivesUp
<1>2. \A d \in Calls : lease'[d] = IF d = c THEN NoConn ELSE lease[d]
  BY <1>0, ReleaseGivesUp
<1>3. \A x \in Conns : \/ conn'[x] = conn[x] /\ x # lease[c]
                       \/ /\ x = lease[c]
                          /\ conn'[x] \in {"closed", "idle"}
                          /\ destroy => conn'[x] = "closed"
  BY <1>0, ReleaseGivesUp
<1>4. /\ result' \in [Calls -> Definite \cup {"none", "ok", "uncertain"}]
      /\ \A d \in Calls : d # c => result'[d] = result[d]
      /\ result[c] # "none" => result'[c] = result[c]
      /\ result[c] = "none" => result'[c] = r
  BY <1>0 DEF Settle, TypeOK
<1>5. /\ pc' \in [Calls -> {"new", "connect", "begin", "fn", "rollback", "commit", "done"}]
      /\ \A d \in Calls : d # c => pc'[d] = pc[d]
      /\ pc'[c] \in {pc[c], "done"}
  BY <1>0 DEF TypeOK
<1>6. TypeOK'
  BY <1>0, <1>1, <1>4, <1>5 DEF TypeOK
<1>7. ASSUME NEW d \in Calls PROVE CallOK(d)'
  <2>1. CallOK(d)
    BY DEF DatabaseInv
  <2>2. CASE d # c
    BY <2>1, <2>2, <1>2, <1>4, <1>5 DEF CallOK
  <2>3. CASE d = c
    <3>1. result'[c] # "none" /\ lease'[c] = NoConn
      BY <1>2, <1>4 DEF Definite
    <3>2. pc[c] \notin {"new", "connect"} /\ pc'[c] \notin {"new", "connect"}
      BY <1>5
    <3>3. pc'[c] = "begin" => pc[c] = "begin"
      BY <1>5
    <3>4. c \in committing => pc'[c] \in {"commit", "done"}
      BY <2>1, <2>3, <1>5 DEF CallOK
    <3>5. pc'[c] = "commit" => c \in committing
      BY <2>1, <2>3, <1>5 DEF CallOK
    <3>6. result'[c] = "ok" => server[c] = "committed"
      BY <2>1, <2>3, <1>4 DEF CallOK
    <3>7. result'[c] \in Definite => c \notin committing \/ server[c] = "aborted"
      BY <2>1, <2>3, <1>4 DEF CallOK
    <3> QED
      BY <2>1, <2>3, <3>1, <3>2, <3>3, <3>4, <3>5, <3>6, <3>7 DEF CallOK
  <2> QED
    BY <2>2, <2>3
<1>8. ASSUME NEW x \in Conns PROVE SessionOK(x)'
  <2>1. SessionOK(x) /\ session[x] \in Calls \cup {NoCall}
    BY <1>0 DEF DatabaseInv, TypeOK
  <2>2. session[x] # NoCall =>
            server[session[x]] = "open" /\ lease'[session[x]] \in {NoConn, x}
    BY <2>1, <1>2 DEF SessionOK
  <2>3. conn'[x] = "idle" => session[x] = NoCall
    BY <2>1, <1>3, <1>0 DEF SessionOK
  <2>4. \A d \in Calls : lease'[d] = x => session[x] \in {NoCall, d}
    BY <2>1, <1>2, <1>0 DEF SessionOK
  <2> QED
    BY <2>2, <2>3, <2>4 DEF SessionOK
<1> QED
  BY <1>1, <1>6, <1>7, <1>8 DEF DatabaseInv

-----------------------------------------------------------------------------
(***************************************************************************)
(* transaction() is called, or its wait for a client fails: nothing was    *)
(* sent yet, so any refusal is true.                                       *)
(***************************************************************************)
LEMMA CallStep ==
    ASSUME DatabaseInv, NEW c \in Calls, Call(c) \/ ConnectFails(c)
    PROVE  DatabaseInv'
<1>0. TypeOK /\ LeaseOK /\ CallOK(c)
  BY DEF DatabaseInv
<1>1. pc[c] \in {"new", "connect"} /\ result[c] = "none" /\ server[c] = "none"
  BY <1>0 DEF Call, ConnectFails, CallOK
<1>2. /\ UNCHANGED <<lease, committing, aborted, conn, session, server, reply, ending>>
      /\ \/ pc' = [pc EXCEPT ![c] = "connect"] /\ result' = result
         \/ /\ pc' = [pc EXCEPT ![c] = "done"]
            /\ result' \in {[result EXCEPT ![c] = r] : r \in Definite}
  BY <1>1 DEF Call, ConnectFails, Settle, Definite
<1>3. /\ pc' \in [Calls -> {"new", "connect", "begin", "fn", "rollback", "commit", "done"}]
      /\ result' \in [Calls -> Definite \cup {"none", "ok", "uncertain"}]
      /\ \A d \in Calls : d # c => pc'[d] = pc[d] /\ result'[d] = result[d]
      /\ \/ pc'[c] = "connect" /\ result'[c] = "none"
         \/ pc'[c] = "done" /\ result'[c] \in Definite
  BY <1>0, <1>1, <1>2 DEF TypeOK
<1>4. TypeOK'
  BY <1>0, <1>2, <1>3 DEF TypeOK
<1>5. ASSUME NEW d \in Calls PROVE CallOK(d)'
  <2>1. CallOK(d)
    BY DEF DatabaseInv
  <2>2. CASE d # c
    BY <2>1, <2>2, <1>2, <1>3 DEF CallOK
  <2>3. CASE d = c
    <3>1. c \notin committing /\ lease[c] = NoConn
      BY <1>0, <1>1 DEF CallOK
    <3> QED
      BY <2>3, <3>1, <1>0, <1>1, <1>2, <1>3 DEF CallOK, Definite
  <2> QED
    BY <2>2, <2>3
<1>6. LeaseOK'
  BY <1>0, <1>2 DEF LeaseOK
<1>7. \A x \in Conns : SessionOK(x)'
  BY <1>2 DEF DatabaseInv, SessionOK
<1> QED
  BY <1>4, <1>5, <1>6, <1>7 DEF DatabaseInv

(***************************************************************************)
(* pool.connect resolves: the client was nobody's and is clean, since it   *)
(* was idle or is a new connection.                                        *)
(***************************************************************************)
LEMMA ConnectStep ==
    ASSUME DatabaseInv, NEW c \in Calls, NEW x \in Conns, Connect(c, x)
    PROVE  DatabaseInv'
<1>0. TypeOK /\ LeaseOK /\ CallOK(c) /\ NoConn \notin Conns /\ NoCall \notin Calls
  BY DatabaseAssumption DEF DatabaseInv
<1>1. /\ pc[c] = "connect" /\ result[c] = "none" /\ server[c] = "none"
      /\ lease[c] = NoConn /\ c \notin committing /\ reply[c] = "none"
  BY <1>0 DEF Connect, CallOK
<1>2. UNCHANGED <<committing, aborted, server, reply, ending>>
  BY DEF Connect
<1>3. \A d \in Calls : lease[d] # x
  BY <1>0 DEF Connect, LeaseOK
<1>4. /\ session' \in [Conns -> Calls \cup {NoCall}]
      /\ session'[x] = NoCall
      /\ \A y \in Conns : y # x => session'[y] = session[y]
  BY <1>0 DEF Connect, TypeOK, DatabaseInv, SessionOK
<1>5. CASE c \in aborted
  <2>1. /\ lease' = lease
        /\ pc' \in [Calls -> {"new", "connect", "begin", "fn", "rollback", "commit", "done"}]
        /\ result' \in [Calls -> Definite \cup {"none", "ok", "uncertain"}]
        /\ \A d \in Calls : d # c => pc'[d] = pc[d] /\ result'[d] = result[d]
        /\ pc'[c] = "done" /\ result'[c] = "canceled"
        /\ conn' \in [Conns -> {"closed", "idle", "leased"}]
        /\ conn'[x] = "closed"
        /\ \A y \in Conns : y # x => conn'[y] = conn[y]
    BY <1>0, <1>5 DEF Connect, TypeOK, Definite
  <2>2. TypeOK'
    BY <1>0, <1>2, <1>4, <2>1 DEF TypeOK
  <2>3. ASSUME NEW d \in Calls PROVE CallOK(d)'
    <3>1. CallOK(d)
      BY DEF DatabaseInv
    <3> QED
      BY <3>1, <2>1, <1>1, <1>2 DEF CallOK, Definite
  <2>4. LeaseOK'
    BY <1>0, <1>3, <2>1 DEF LeaseOK, TypeOK
  <2>5. ASSUME NEW y \in Conns PROVE SessionOK(y)'
    <3>1. SessionOK(y)
      BY DEF DatabaseInv
    <3> QED
      BY <3>1, <2>1, <1>2, <1>3, <1>4 DEF SessionOK
  <2> QED
    BY <2>2, <2>3, <2>4, <2>5 DEF DatabaseInv
<1>6. CASE c \notin aborted
  <2>1. /\ result' = result
        /\ pc' \in [Calls -> {"new", "connect", "begin", "fn", "rollback", "commit", "done"}]
        /\ lease' \in [Calls -> Conns \cup {NoConn}]
        /\ \A d \in Calls : d # c => pc'[d] = pc[d] /\ lease'[d] = lease[d]
        /\ pc'[c] = "begin" /\ lease'[c] = x
        /\ conn' \in [Conns -> {"closed", "idle", "leased"}]
        /\ conn'[x] = "leased"
        /\ \A y \in Conns : y # x => conn'[y] = conn[y]
    BY <1>0, <1>6 DEF Connect, TypeOK
  <2>2. TypeOK'
    BY <1>0, <1>2, <1>4, <2>1 DEF TypeOK
  <2>3. ASSUME NEW d \in Calls PROVE CallOK(d)'
    <3>1. CallOK(d)
      BY DEF DatabaseInv
    <3> QED
      BY <3>1, <2>1, <1>0, <1>1, <1>2 DEF CallOK, Definite
  <2>4. LeaseOK'
    <3>1. \A d, e \in Calls : lease'[d] # NoConn /\ lease'[d] = lease'[e] => d = e
      BY <1>0, <1>3, <2>1 DEF LeaseOK
    <3>2. ASSUME NEW d \in Calls, lease'[d] # NoConn PROVE conn'[lease'[d]] = "leased"
      <4>1. lease'[d] \in Conns
        BY <2>1, <3>2
      <4> QED
        BY <1>0, <1>3, <2>1, <3>2, <4>1 DEF LeaseOK
    <3>3. ASSUME NEW y \in Conns, conn'[y] = "leased" PROVE \E d \in Calls : lease'[d] = y
      <4>1. CASE y = x
        BY <4>1, <2>1
      <4>2. CASE y # x
        <5>1. PICK d \in Calls : lease[d] = y
          BY <4>2, <3>3, <2>1, <1>0 DEF LeaseOK
        <5>2. d # c
          BY <5>1, <1>1, <1>0
        <5> QED
          BY <5>1, <5>2, <2>1
      <4> QED
        BY <4>1, <4>2
    <3> QED
      BY <3>1, <3>2, <3>3 DEF LeaseOK
  <2>5. ASSUME NEW y \in Conns PROVE SessionOK(y)'
    <3>1. SessionOK(y) /\ session[y] \in Calls \cup {NoCall}
      BY <1>0 DEF DatabaseInv, TypeOK
    <3>2. CASE y = x
      BY <3>2, <1>4, <2>1 DEF SessionOK
    <3>3. CASE y # x
      <4>1. session[y] # c
        BY <3>1, <1>0, <1>1 DEF SessionOK
      <4> QED
        BY <3>1, <3>3, <4>1, <2>1, <1>2, <1>4 DEF SessionOK
    <3> QED
      BY <3>2, <3>3
  <2> QED
    BY <2>2, <2>3, <2>4, <2>5 DEF DatabaseInv
<1> QED
  BY <1>5, <1>6

(***************************************************************************)
(* BEGIN is answered: the clean client now runs this call's transaction.   *)
(***************************************************************************)
LEMMA BeginStep ==
    ASSUME DatabaseInv, NEW c \in Calls, Begin(c)
    PROVE  DatabaseInv'
<1>0. TypeOK /\ LeaseOK /\ CallOK(c) /\ NoConn \notin Conns /\ NoCall \notin Calls
  BY DatabaseAssumption DEF DatabaseInv
<1>1. PICK x \in Conns : x = lease[c]
  BY <1>0 DEF Begin, TypeOK
<1>2. /\ pc[c] = "begin" /\ server[c] = "none" /\ result[c] = "none"
      /\ c \notin committing /\ reply[c] = "none"
  BY <1>0 DEF Begin, CallOK
<1>3. UNCHANGED <<lease, committing, aborted, result, conn, reply, ending>>
  BY DEF Begin
<1>4. /\ session' \in [Conns -> Calls \cup {NoCall}]
      /\ session'[x] = c
      /\ \A y \in Conns : y # x => session'[y] = session[y]
  BY <1>0, <1>1 DEF Begin, TypeOK
<1>5. /\ server' \in [Calls -> {"none", "open", "committed", "aborted"}]
      /\ server'[c] = "open"
      /\ pc' \in [Calls -> {"new", "connect", "begin", "fn", "rollback", "commit", "done"}]
      /\ pc'[c] = "fn"
      /\ \A d \in Calls : d # c => server'[d] = server[d] /\ pc'[d] = pc[d]
  BY <1>0 DEF Begin, TypeOK
<1>6. TypeOK'
  BY <1>0, <1>3, <1>4, <1>5 DEF TypeOK
<1>7. ASSUME NEW d \in Calls PROVE CallOK(d)'
  <2>1. CallOK(d)
    BY DEF DatabaseInv
  <2> QED
    BY <2>1, <1>2, <1>3, <1>5 DEF CallOK, Definite
<1>8. LeaseOK'
  BY <1>0, <1>3 DEF LeaseOK
<1>9. ASSUME NEW y \in Conns PROVE SessionOK(y)'
  <2>1. SessionOK(y) /\ session[y] \in Calls \cup {NoCall}
    BY <1>0 DEF DatabaseInv, TypeOK
  <2>2. CASE y = x
    <3>1. conn[x] = "leased" /\ \A d \in Calls : lease[d] = x => d = c
      BY <1>0, <1>1 DEF LeaseOK
    <3> QED
      BY <2>2, <3>1, <1>1, <1>3, <1>4, <1>5 DEF SessionOK
  <2>3. CASE y # x
    BY <2>1, <2>3, <1>3, <1>4, <1>5 DEF SessionOK
  <2> QED
    BY <2>2, <2>3
<1> QED
  BY <1>6, <1>7, <1>8, <1>9 DEF DatabaseInv

(***************************************************************************)
(* The callback ends: COMMIT is sent only by a call that is not answered   *)
(* yet, and only then is the flag set.                                     *)
(***************************************************************************)
LEMMA CallbackStep ==
    ASSUME DatabaseInv, NEW c \in Calls, CallbackOk(c) \/ CallbackErr(c)
    PROVE  DatabaseInv'
<1>0. TypeOK /\ LeaseOK /\ CallOK(c)
  BY DEF DatabaseInv
<1>1. pc[c] = "fn" /\ UNCHANGED <<lease, aborted, result, conn, session, server, reply, ending>>
  BY DEF CallbackOk, CallbackErr
<1>2. /\ pc' \in [Calls -> {"new", "connect", "begin", "fn", "rollback", "commit", "done"}]
      /\ \A d \in Calls : d # c => pc'[d] = pc[d]
      /\ \/ result[c] # "none" /\ pc'[c] = "done" /\ committing' = committing
         \/ result[c] = "none" /\ pc'[c] = "rollback" /\ committing' = committing
         \/ result[c] = "none" /\ pc'[c] = "commit" /\ committing' = committing \cup {c}
  BY <1>0 DEF CallbackOk, CallbackErr, TypeOK, Stopped
<1>3. TypeOK'
  BY <1>0, <1>1, <1>2 DEF TypeOK
<1>4. ASSUME NEW d \in Calls PROVE CallOK(d)'
  <2>1. CallOK(d)
    BY DEF DatabaseInv
  <2>2. CASE d # c
    <3>1. d \in committing' <=> d \in committing
      BY <1>2, <2>2
    <3> QED
      BY <2>1, <2>2, <3>1, <1>1, <1>2 DEF CallOK
  <2>3. CASE d = c
    <3>1. CASE result[c] # "none" /\ pc'[c] = "done" /\ committing' = committing
      BY <2>1, <2>3, <3>1, <1>1 DEF CallOK
    <3>2. CASE result[c] = "none" /\ pc'[c] = "rollback" /\ committing' = committing
      BY <2>1, <2>3, <3>2, <1>1 DEF CallOK
    <3>3. CASE result[c] = "none" /\ pc'[c] = "commit" /\ committing' = committing \cup {c}
      BY <2>1, <2>3, <3>3, <1>1 DEF CallOK, Definite
    <3> QED
      BY <3>1, <3>2, <3>3, <1>2
  <2> QED
    BY <2>2, <2>3
<1>5. LeaseOK'
  BY <1>0, <1>1 DEF LeaseOK
<1>6. \A x \in Conns : SessionOK(x)'
  BY <1>1 DEF DatabaseInv, SessionOK
<1> QED
  BY <1>3, <1>4, <1>5, <1>6 DEF DatabaseInv

(***************************************************************************)
(* ROLLBACK is answered: the client goes back with no transaction on it.   *)
(***************************************************************************)
LEMMA RolledBackStep ==
    ASSUME DatabaseInv, NEW c \in Calls, RolledBack(c)
    PROVE  DatabaseInv'
<1>0. TypeOK /\ LeaseOK /\ CallOK(c) /\ NoConn \notin Conns /\ NoCall \notin Calls
  BY DatabaseAssumption DEF DatabaseInv
<1>1. PICK x \in Conns : x = lease[c]
  BY <1>0 DEF RolledBack, TypeOK
<1>2. pc[c] = "rollback" /\ result[c] = "none" /\ c \notin committing /\ reply[c] = "none"
  BY <1>0, <1>1 DEF RolledBack, CallOK
<1>3. UNCHANGED <<committing, aborted, reply, ending>>
  BY DEF RolledBack
<1>4. Release(c, FALSE)
  BY DEF RolledBack
<1>5. /\ lease' \in [Calls -> Conns \cup {NoConn}]
      /\ conn' \in [Conns -> {"closed", "idle", "leased"}]
      /\ \A d \in Calls : lease'[d] = IF d = c THEN NoConn ELSE lease[d]
      /\ \A y \in Conns : y # x => conn'[y] = conn[y]
      /\ LeaseOK'
  BY <1>0, <1>1, <1>4, ReleaseGivesUp
<1>6. /\ session' \in [Conns -> Calls \cup {NoCall}]
      /\ session'[x] = NoCall
      /\ \A y \in Conns : y # x => session'[y] = session[y]
  BY <1>0, <1>1 DEF RolledBack, TypeOK
<1>7. /\ server' \in [Calls -> {"none", "open", "committed", "aborted"}]
      /\ server'[c] = "aborted"
      /\ pc' \in [Calls -> {"new", "connect", "begin", "fn", "rollback", "commit", "done"}]
      /\ pc'[c] = "done"
      /\ result' \in [Calls -> Definite \cup {"none", "ok", "uncertain"}]
      /\ result'[c] = "refused"
      /\ \A d \in Calls : d # c =>
            server'[d] = server[d] /\ pc'[d] = pc[d] /\ result'[d] = result[d]
  BY <1>0, <1>2 DEF RolledBack, Settle, TypeOK, Definite
<1>8. TypeOK'
  BY <1>0, <1>3, <1>5, <1>6, <1>7 DEF TypeOK
<1>9. ASSUME NEW d \in Calls PROVE CallOK(d)'
  <2>1. CallOK(d)
    BY DEF DatabaseInv
  <2> QED
    BY <2>1, <1>2, <1>3, <1>5, <1>7 DEF CallOK, Definite
<1>10. ASSUME NEW y \in Conns PROVE SessionOK(y)'
  <2>1. SessionOK(y) /\ session[y] \in Calls \cup {NoCall}
    BY <1>0 DEF DatabaseInv, TypeOK
  <2>2. CASE y = x
    BY <2>2, <1>0, <1>5, <1>6 DEF SessionOK
  <2>3. CASE y # x
    <3>1. session[y] # c
      BY <2>1, <2>3, <1>0, <1>1 DEF SessionOK
    <3> QED
      BY <2>1, <2>3, <3>1, <1>0, <1>5, <1>6, <1>7 DEF SessionOK
  <2> QED
    BY <2>2, <2>3
<1> QED
  BY <1>5, <1>8, <1>9, <1>10 DEF DatabaseInv

(***************************************************************************)
(* Every other way a call is answered: a failure before COMMIT, the        *)
(* server's answer to COMMIT, a connection lost meanwhile, the deadline,   *)
(* the caller's abort.  The result is definite only while `committing` is  *)
(* not set or once the server said that it did not commit.                 *)
(***************************************************************************)
LEMMA AnswerStep ==
    ASSUME DatabaseInv, NEW c \in Calls,
           \/ OperationFails(c) \/ CommitAnswered(c) \/ CommitLost(c)
           \/ Deadline(c) \/ CallerAborts(c)
    PROVE  DatabaseInv'
<1>0. TypeOK /\ CallOK(c) /\ NoConn \notin Conns
  BY DatabaseAssumption DEF DatabaseInv
<1>1. CASE OperationFails(c)
  <2>1. /\ Release(c, TRUE) /\ Settle(c, "failed")
        /\ pc[c] \in {"begin", "fn", "rollback"}
        /\ pc' = [pc EXCEPT ![c] = "done"]
        /\ UNCHANGED <<committing, aborted, session, server, reply, ending>>
    BY <1>1 DEF OperationFails
  <2>2. c \notin committing
    BY <2>1, <1>0 DEF CallOK
  <2>3. aborted' \subseteq Calls /\ "failed" \in Definite \cup {"ok", "uncertain"}
    BY <2>1, <1>0 DEF TypeOK, Definite
  <2> QED
    BY <2>1, <2>2, <2>3, AnswerKeeps
<1>2. CASE CommitAnswered(c)
  <2> DEFINE r == IF reply[c] = "commit" THEN "ok" ELSE "failed"
             destroy == reply[c] = "error"
  <2>1. /\ Release(c, destroy) /\ Settle(c, r)
        /\ pc[c] = "commit" /\ reply[c] # "none" /\ lease[c] # NoConn
        /\ pc' = [pc EXCEPT ![c] = "done"]
        /\ UNCHANGED <<committing, aborted, session, server, reply, ending>>
    BY <1>2 DEF CommitAnswered
  <2>2. r = "ok" => server[c] = "committed"
    BY <1>0 DEF CallOK
  <2>3. r \in Definite => server[c] = "aborted"
    BY <1>0, <2>1 DEF CallOK, TypeOK, Definite
  <2>4. session[lease[c]] = NoCall
    <3>1. server[c] # "open" /\ lease[c] \in Conns
      BY <1>0, <2>1 DEF CallOK, TypeOK
    <3>2. session[lease[c]] \in {NoCall, c}
      BY <3>1 DEF DatabaseInv, SessionOK
    <3> QED
      BY <3>1, <3>2 DEF DatabaseInv, SessionOK
  <2>5. /\ aborted' \subseteq Calls /\ r \in Definite \cup {"ok", "uncertain"}
        /\ destroy \in BOOLEAN
    BY <2>1, <1>0 DEF TypeOK, Definite
  <2> HIDE DEF r, destroy
  <2> QED
    BY <2>1, <2>2, <2>3, <2>4, <2>5, AnswerKeeps
<1>3. CASE CommitLost(c)
  <2>1. /\ Release(c, TRUE) /\ Settle(c, "uncertain")
        /\ pc[c] = "commit"
        /\ pc' = [pc EXCEPT ![c] = "done"]
        /\ UNCHANGED <<committing, aborted, session, server, reply, ending>>
    BY <1>3 DEF CommitLost
  <2>2. aborted' \subseteq Calls /\ "uncertain" \notin Definite
    BY <2>1, <1>0 DEF TypeOK, Definite
  <2> QED
    BY <2>1, <2>2, AnswerKeeps
<1>4. ASSUME NEW canceled \in BOOLEAN, Armed(c), Stop(c, canceled), aborted' \subseteq Calls,
             UNCHANGED <<pc, committing, session, server, reply, ending>>
      PROVE  DatabaseInv'
  <2> DEFINE r == IF c \in committing THEN "uncertain"
                  ELSE IF canceled THEN "canceled" ELSE "timeout"
  <2>1. Release(c, TRUE) /\ Settle(c, r)
    BY <1>4 DEF Stop
  <2>2. r \in Definite \cup {"ok", "uncertain"} /\ r # "ok"
    BY DEF Definite
  <2>3. r \in Definite => c \notin committing
    BY DEF Definite
  <2>4. pc[c] \in {"begin", "fn", "rollback", "commit"}
    BY <1>4 DEF Armed
  <2> HIDE DEF r
  <2> QED
    BY <2>1, <2>2, <2>3, <2>4, <1>4, AnswerKeeps
<1>5. CASE Deadline(c)
  BY <1>0, <1>4, <1>5 DEF Deadline, TypeOK
<1>6. CASE CallerAborts(c)
  <2>1. aborted' \subseteq Calls
    BY <1>0, <1>6 DEF CallerAborts, TypeOK
  <2>2. CASE Armed(c)
    BY <1>4, <1>6, <2>1, <2>2 DEF CallerAborts
  <2>3. CASE ~Armed(c)
    <3>1. UNCHANGED <<pc, lease, committing, result, conn, session, server, reply, ending>>
      BY <1>6, <2>3 DEF CallerAborts
    <3>2. TypeOK'
      BY <1>0, <2>1, <3>1 DEF TypeOK
    <3>3. \A d \in Calls : CallOK(d)'
      BY <3>1 DEF DatabaseInv, CallOK
    <3>4. LeaseOK'
      BY <3>1 DEF DatabaseInv, LeaseOK
    <3>5. \A x \in Conns : SessionOK(x)'
      BY <3>1 DEF DatabaseInv, SessionOK
    <3> QED
      BY <3>2, <3>3, <3>4, <3>5 DEF DatabaseInv
  <2> QED
    BY <2>2, <2>3
<1> QED
  BY <1>1, <1>2, <1>3, <1>5, <1>6

(***************************************************************************)
(* The server ends a transaction, carrying out the COMMIT that was sent or *)
(* noticing that the client is gone: a call that was given a definite      *)
(* failure is never committed by it.                                       *)
(***************************************************************************)
LEMMA ServerStep ==
    ASSUME DatabaseInv, NEW c \in Calls, ServerCommits(c) \/ ServerAborts(c)
    PROVE  DatabaseInv'
<1>0. TypeOK /\ LeaseOK /\ CallOK(c) /\ NoConn \notin Conns /\ NoCall \notin Calls
  BY DatabaseAssumption DEF DatabaseInv
<1>1. server[c] = "open" /\ UNCHANGED <<pc, lease, committing, aborted, result, conn, ending>>
  BY DEF ServerCommits, ServerAborts
<1>2. /\ session' \in [Conns -> Calls \cup {NoCall}]
      /\ \A x \in Conns : session'[x] = IF session[x] = c THEN NoCall ELSE session[x]
  BY <1>0 DEF ServerCommits, ServerAborts, TypeOK
<1>3. /\ server' \in [Calls -> {"none", "open", "committed", "aborted"}]
      /\ reply' \in [Calls -> {"none", "commit", "rollback", "error"}]
      /\ \A d \in Calls : d # c => server'[d] = server[d] /\ reply'[d] = reply[d]
      /\ \/ /\ c \in committing
            /\ \/ server'[c] = "committed" /\ reply'[c] = "commit"
               \/ server'[c] = "aborted" /\ reply'[c] \in {"rollback", "error"}
         \/ server'[c] = "aborted" /\ reply'[c] = reply[c]
  <2>1. CASE ServerCommits(c)
    BY <1>0, <2>1 DEF ServerCommits, TypeOK
  <2>2. CASE ServerAborts(c)
    BY <1>0, <2>2 DEF ServerAborts, TypeOK
  <2> QED
    BY <2>1, <2>2
<1>4. TypeOK'
  BY <1>0, <1>1, <1>2, <1>3 DEF TypeOK
<1>5. ASSUME NEW d \in Calls PROVE CallOK(d)'
  <2>1. CallOK(d) /\ reply[d] \in {"none", "commit", "rollback", "error"}
    BY <1>0 DEF DatabaseInv, TypeOK
  <2>2. CASE d # c
    BY <2>1, <2>2, <1>1, <1>3 DEF CallOK
  <2>3. CASE d = c
    <3>1. reply[c] = "none" /\ result[c] # "ok"
      BY <2>1, <2>3, <1>1 DEF CallOK
    <3>2. result[c] \in Definite => c \notin committing
      BY <2>1, <2>3, <1>1 DEF CallOK
    <3> QED
      BY <2>1, <2>3, <3>1, <3>2, <1>1, <1>3 DEF CallOK
  <2> QED
    BY <2>2, <2>3
<1>6. LeaseOK'
  BY <1>0, <1>1 DEF LeaseOK
<1>7. ASSUME NEW x \in Conns PROVE SessionOK(x)'
  <2>1. SessionOK(x) /\ session[x] \in Calls \cup {NoCall}
    BY <1>0 DEF DatabaseInv, TypeOK
  <2> QED
    BY <2>1, <1>0, <1>1, <1>2, <1>3 DEF SessionOK
<1> QED
  BY <1>4, <1>5, <1>6, <1>7 DEF DatabaseInv

(***************************************************************************)
(* close() and the end of the pool take idle clients only.                 *)
(***************************************************************************)
LEMMA CloseStep ==
    ASSUME DatabaseInv, Close \/ PoolEnds
    PROVE  DatabaseInv'
<1>1. /\ UNCHANGED <<pc, lease, committing, aborted, result, session, server, reply>>
      /\ ending' \in {"no", "ending", "ended"}
      /\ conn' \in [Conns -> {"closed", "idle", "leased"}]
      /\ \A x \in Conns : conn'[x] = conn[x] \/ (conn[x] = "idle" /\ conn'[x] = "closed")
  BY DEF DatabaseInv, TypeOK, Close, PoolEnds
<1>2. TypeOK'
  BY <1>1 DEF DatabaseInv, TypeOK
<1>3. \A c \in Calls : CallOK(c)'
  BY <1>1 DEF DatabaseInv, CallOK
<1>4. LeaseOK'
  BY <1>1 DEF DatabaseInv, LeaseOK, TypeOK
<1>5. \A x \in Conns : SessionOK(x)'
  BY <1>1 DEF DatabaseInv, SessionOK
<1> QED
  BY <1>2, <1>3, <1>4, <1>5 DEF DatabaseInv

-----------------------------------------------------------------------------
(***************************************************************************)
(* DatabaseInv holds in every reachable state, for any number of calls and *)
(* connections, whatever the server, the timers and the callers do.        *)
(***************************************************************************)
THEOREM DatabaseInvariant == Spec => []DatabaseInv
<1>1. Init => DatabaseInv
  <2> SUFFICES ASSUME Init PROVE DatabaseInv
    OBVIOUS
  <2>1. TypeOK
    BY DEF Init, TypeOK
  <2>2. \A c \in Calls : CallOK(c)
    BY DEF Init, CallOK, Definite
  <2>3. LeaseOK
    BY DEF Init, LeaseOK
  <2>4. \A x \in Conns : SessionOK(x)
    BY DatabaseAssumption DEF Init, SessionOK
  <2> QED
    BY <2>1, <2>2, <2>3, <2>4 DEF DatabaseInv
<1>2. DatabaseInv /\ [Next]_vars => DatabaseInv'
  <2> SUFFICES ASSUME DatabaseInv, [Next]_vars PROVE DatabaseInv'
    OBVIOUS
  <2>1. ASSUME NEW c \in Calls, Operation(c) PROVE DatabaseInv'
    BY <2>1, CallStep, ConnectStep, BeginStep, RolledBackStep, AnswerStep DEF Operation
  <2>2. ASSUME NEW c \in Calls, CallbackOk(c) \/ CallbackErr(c) PROVE DatabaseInv'
    BY <2>2, CallbackStep
  <2>3. ASSUME NEW c \in Calls, Deadline(c) \/ CallerAborts(c) PROVE DatabaseInv'
    BY <2>3, AnswerStep
  <2>4. ASSUME NEW c \in Calls, ServerCommits(c) \/ ServerAborts(c) PROVE DatabaseInv'
    BY <2>4, ServerStep
  <2>5. CASE Close \/ PoolEnds
    BY <2>5, CloseStep
  <2>6. CASE UNCHANGED vars
    BY <2>6 DEF vars, DatabaseInv, TypeOK, CallOK, LeaseOK, SessionOK
  <2> QED
    BY <2>1, <2>2, <2>3, <2>4, <2>5, <2>6 DEF Next
<1> QED
  BY <1>1, <1>2, PTL DEF Spec

(***************************************************************************)
(* Contract D04 for any number of calls: what transaction() answers is     *)
(* what the server did, and a definite failure stays true.                 *)
(***************************************************************************)
THEOREM OutcomesAreTrue == Spec => []OutcomeIsTrue
<1>1. DatabaseInv => OutcomeIsTrue
  BY DEF DatabaseInv, CallOK, OutcomeIsTrue
<1> QED
  BY <1>1, DatabaseInvariant, PTL

(***************************************************************************)
(* Contract D03 for a pool of any size: pooled clients are clean and every *)
(* leased one belongs to exactly one unanswered call.                      *)
(***************************************************************************)
THEOREM PoolCorrect == Spec => []PoolIsSound
<1>1. ASSUME DatabaseInv PROVE PoolIsSound
  <2>1. TypeOK /\ LeaseOK /\ NoConn \notin Conns
    BY <1>1, DatabaseAssumption DEF DatabaseInv
  <2>2. PooledClientsAreClean
    BY <1>1 DEF DatabaseInv, SessionOK, PooledClientsAreClean
  <2>3. ASSUME NEW x \in Conns
        PROVE  Cardinality({c \in Calls : lease[c] = x /\ result[c] = "none"})
                   = (IF conn[x] = "leased" THEN 1 ELSE 0)
    <3>1. CASE conn[x] = "leased"
      <4>1. PICK c \in Calls : lease[c] = x
        BY <2>1, <3>1 DEF LeaseOK
      <4>2. result[c] = "none"
        BY <1>1, <2>1, <4>1 DEF DatabaseInv, CallOK
      <4>3. {d \in Calls : lease[d] = x /\ result[d] = "none"} = {c}
        BY <2>1, <4>1, <4>2 DEF LeaseOK
      <4> QED
        BY <3>1, <4>3, FS_Singleton
    <3>2. CASE conn[x] # "leased"
      <4>1. {d \in Calls : lease[d] = x /\ result[d] = "none"} = {}
        BY <2>1, <3>2 DEF LeaseOK
      <4> QED
        BY <3>2, <4>1, FS_EmptySet
    <3> QED
      BY <3>1, <3>2
  <2> QED
    BY <2>1, <2>2, <2>3 DEF PoolIsSound, LeasesMatch
<1> QED
  BY <1>1, DatabaseInvariant, PTL

-----------------------------------------------------------------------------
(***************************************************************************)
(* Database.migrate (module Migrations).                                   *)
(***************************************************************************)
Texts == STRING
Migration == [version : Int, sql : Texts]

InTransaction == {"locked", "apply", "record"}

Runs ==
    [pc : {"start", "ok", "uncertain", "invalid", "drift", "failed"} \cup InTransaction,
     list : Seq(Migration), next : Nat, wrote : Seq(Migration), executed : Seq(Texts)]

\* The history L begins with the list l.
Begins(l, L) == Len(l) <= Len(L) /\ \A i \in 1..Len(l) : l[i] = L[i]

\* Schema S and history L tell one story.
OneStory(S, L) ==
    /\ Len(S) = Len(L)
    /\ \A i \in 1..Len(L) : S[i] = L[i].sql
    /\ \A i \in 1..(Len(L) - 1) : L[i].version < L[i + 1].version

\* What the transaction x wrote and executed are the migrations of its list
\* that follow the history L.
Applying(x, L) ==
    /\ ValidList(x.list)
    /\ x.next = Len(L) + Len(x.wrote) + 1
    /\ x.next <= Len(x.list) + 1
    /\ \A i \in 1..Len(L) : L[i] = x.list[i]
    /\ \A i \in 1..Len(x.wrote) : x.wrote[i] = x.list[Len(L) + i]
    /\ \A i \in 1..Len(x.executed) : x.executed[i] = x.list[Len(L) + i].sql

RunOK(x, L) ==
    /\ x.pc \in {"start", "locked"} => Len(x.wrote) = 0 /\ Len(x.executed) = 0
    /\ x.pc = "locked" => ValidList(x.list)
    /\ x.pc = "apply" => Applying(x, L) /\ Len(x.executed) = Len(x.wrote)
    /\ x.pc = "record" => /\ Applying(x, L) /\ x.next <= Len(x.list)
                          /\ Len(x.executed) = Len(x.wrote) + 1
    /\ x.pc = "ok" => Begins(x.list, L)

\* The lock is held by the runner whose transaction is open, and by no other.
MigrationInv ==
    /\ ledger \in Seq(Migration) /\ schema \in Seq(Texts)
    /\ run \in [Runners -> Runs]
    /\ OneStory(schema, ledger)
    /\ \A r \in Runners : RunOK(run[r], ledger)
    /\ \A r \in Runners : run[r].pc \in InTransaction <=> lock = r

(***************************************************************************)
(* What the concatenation of two sequences holds.                          *)
(***************************************************************************)
LEMMA Concatenation ==
    ASSUME NEW A, NEW s \in Seq(A), NEW t \in Seq(A)
    PROVE  /\ s \o t \in Seq(A)
           /\ Len(s \o t) = Len(s) + Len(t)
           /\ \A i \in 1..Len(s) : (s \o t)[i] = s[i]
           /\ \A i \in 1..Len(t) : (s \o t)[Len(s) + i] = t[i]
OBVIOUS

(***************************************************************************)
(* A commit over a history that agrees makes the list the history.         *)
(***************************************************************************)
LEMMA CommitGives ==
    ASSUME NEW L \in Seq(Migration), NEW S \in Seq(Texts), NEW x \in Runs,
           OneStory(S, L), Applying(x, L), Len(x.executed) = Len(x.wrote),
           x.next > Len(x.list)
    PROVE  /\ L \o x.wrote = x.list
           /\ S \o x.executed \in Seq(Texts)
           /\ OneStory(S \o x.executed, x.list)
<1>1. PICK l \in Seq(Migration), w \in Seq(Migration), v \in Seq(Texts) :
        l = x.list /\ w = x.wrote /\ v = x.executed
  BY DEF Runs
<1>2. PICK n \in Nat, m \in Nat, k \in Nat : n = Len(L) /\ m = Len(w) /\ k = Len(l)
  <2>1. Len(L) \in Nat /\ Len(w) \in Nat /\ Len(l) \in Nat
    OBVIOUS
  <2> QED
    BY <2>1
<1>3. n + m = k /\ Len(v) = m /\ Len(S) = n
  <2>1. x.next = n + m + 1 /\ x.next <= k + 1 /\ x.next > k
    BY <1>1, <1>2 DEF Applying
  <2>2. Len(v) = m /\ Len(S) = n
    BY <1>1, <1>2 DEF OneStory
  <2> QED
    BY <2>1, <2>2
<1>4. /\ \A i \in 1..n : L[i] = l[i] /\ S[i] = L[i].sql
      /\ \A i \in 1..m : w[i] = l[n + i] /\ v[i] = l[n + i].sql
  BY <1>1, <1>2, <1>3 DEF Applying, OneStory
<1>5. PICK H : H = L \o w
  OBVIOUS
<1>6. PICK T : T = S \o v
  OBVIOUS
<1>7. /\ H \in Seq(Migration) /\ Len(H) = k /\ T \in Seq(Texts) /\ Len(T) = k
      /\ \A i \in 1..n : H[i] = L[i] /\ T[i] = S[i]
      /\ \A i \in 1..m : H[n + i] = w[i] /\ T[n + i] = v[i]
  <2>1. /\ H \in Seq(Migration) /\ Len(H) = n + m /\ \A i \in 1..n : H[i] = L[i]
        /\ \A i \in 1..m : H[n + i] = w[i]
    BY <1>2, <1>5, Concatenation
  <2>2. /\ T \in Seq(Texts) /\ Len(T) = n + m /\ \A i \in 1..n : T[i] = S[i]
        /\ \A i \in 1..m : T[n + i] = v[i]
    <3>1. /\ T \in Seq(Texts) /\ Len(T) = Len(S) + Len(v) /\ \A i \in 1..Len(S) : T[i] = S[i]
          /\ \A i \in 1..Len(v) : T[Len(S) + i] = v[i]
      BY <1>6, Concatenation
    <3>2. Len(S) = n /\ Len(v) = m
      BY <1>3
    <3> QED
      BY <3>1, <3>2
  <2> QED
    BY <1>3, <2>1, <2>2
<1>8. \A i \in 1..k : H[i] = l[i] /\ T[i] = l[i].sql
  <2>1. SUFFICES ASSUME NEW i \in 1..k PROVE H[i] = l[i] /\ T[i] = l[i].sql
    OBVIOUS
  <2>2. CASE i <= n
    <3>1. i \in 1..n
      BY <2>1, <2>2
    <3> QED
      BY <1>4, <1>7, <3>1
  <2>3. CASE i > n
    <3>1. PICK j \in 1..m : i = n + j
      <4>1. i - n \in 1..m /\ i = n + (i - n)
        BY <1>3, <2>1, <2>3
      <4> QED
        BY <4>1
    <3> QED
      BY <1>4, <1>7, <3>1
  <2>4. i <= n \/ i > n
    BY <2>1
  <2> QED
    BY <2>2, <2>3, <2>4
<1>9. H = l
  <2>1. H \in [1..Len(H) -> Migration] /\ l \in [1..Len(l) -> Migration]
    BY <1>7
  <2>2. H \in [1..k -> Migration] /\ l \in [1..k -> Migration]
    BY <1>2, <1>7, <2>1
  <2>3. H = [i \in 1..k |-> H[i]] /\ l = [i \in 1..k |-> l[i]]
    BY <2>2, Zenon
  <2>4. [i \in 1..k |-> H[i]] = [i \in 1..k |-> l[i]]
    BY <1>8, Zenon
  <2> QED
    BY <2>3, <2>4, Zenon
<1>10. \A i \in 1..(Len(l) - 1) : l[i].version < l[i + 1].version
  BY <1>1 DEF Applying, ValidList
<1>11. OneStory(T, l)
  BY <1>2, <1>7, <1>8, <1>10 DEF OneStory
<1> QED
  BY <1>1, <1>5, <1>6, <1>7, <1>9, <1>11

(***************************************************************************)
(* One runner's record changes, and neither history nor schema.            *)
(***************************************************************************)
LEMMA RunnerMoves ==
    ASSUME MigrationInv, NEW r \in Runners, NEW x \in Runs, run' = [run EXCEPT ![r] = x],
           UNCHANGED <<ledger, schema>>, RunOK(x, ledger),
           x.pc \in InTransaction <=> lock' = r,
           \A q \in Runners : q # r => (lock' = q <=> lock = q)
    PROVE  MigrationInv'
<1>1. run' \in [Runners -> Runs] /\ run'[r] = x /\ \A q \in Runners : q # r => run'[q] = run[q]
  BY DEF MigrationInv
<1>2. ledger' = ledger /\ schema' = schema
  OBVIOUS
<1>3. \A q \in Runners : RunOK(run'[q], ledger)
  BY <1>1 DEF MigrationInv
<1>4. \A q \in Runners : run'[q].pc \in InTransaction <=> lock' = q
  BY <1>1 DEF MigrationInv
<1> QED
  BY <1>1, <1>2, <1>3, <1>4 DEF MigrationInv

(***************************************************************************)
(* A runner that has not begun, or whose call ended.                       *)
(***************************************************************************)
LEMMA NewRunFits ==
    ASSUME NEW l \in Seq(Migration), NEW L,
           NEW how \in {"start", "ok", "uncertain", "invalid", "drift", "failed"},
           how = "ok" => Begins(l, L)
    PROVE  /\ NewRun(l) \in Runs /\ RunOK(NewRun(l), L) /\ NewRun(l).pc = "start"
           /\ [NewRun(l) EXCEPT !.pc = how] \in Runs
           /\ RunOK([NewRun(l) EXCEPT !.pc = how], L)
           /\ [NewRun(l) EXCEPT !.pc = how].pc = how
<1>1. PICK x : x = NewRun(l)
  OBVIOUS
<1>2. x = [pc |-> "start", list |-> l, next |-> 0, wrote |-> <<>>, executed |-> <<>>]
  BY <1>1 DEF NewRun
<1>3. x \in Runs /\ x.pc = "start" /\ x.list = l /\ x.wrote = <<>> /\ x.executed = <<>>
  BY <1>2 DEF Runs
<1>4. Len(<<>>) = 0
  OBVIOUS
<1>5. RunOK(x, L)
  BY <1>3, <1>4 DEF RunOK
<1>6. PICK y : y = [x EXCEPT !.pc = how]
  OBVIOUS
<1>7. y \in Runs /\ y.pc = how /\ y.list = l /\ y.wrote = <<>> /\ y.executed = <<>>
  BY <1>3, <1>6 DEF Runs
<1>8. RunOK(y, L)
  BY <1>4, <1>7 DEF RunOK
<1> QED
  BY <1>1, <1>3, <1>5, <1>6, <1>7, <1>8

(***************************************************************************)
(* The call of a runner ends outside a commit, or its process is started   *)
(* or dies.                                                                *)
(***************************************************************************)
LEMMA EndKeeps ==
    ASSUME MigrationInv, NEW r \in Runners, NEW l \in Seq(Migration),
           NEW how \in {"start", "uncertain", "invalid", "drift", "failed"},
           run' = [run EXCEPT ![r] = [NewRun(l) EXCEPT !.pc = how]]
              \/ (run' = [run EXCEPT ![r] = NewRun(l)]),
           UNCHANGED <<ledger, schema>>, lock' # r,
           \A q \in Runners : q # r => (lock' = q <=> lock = q)
    PROVE  MigrationInv'
<1>1. PICK x \in Runs : /\ run' = [run EXCEPT ![r] = x] /\ RunOK(x, ledger)
                        /\ x.pc \in {"start", "uncertain", "invalid", "drift", "failed"}
  <2>1. CASE run' = [run EXCEPT ![r] = [NewRun(l) EXCEPT !.pc = how]]
    <3>1. PICK x : x = [NewRun(l) EXCEPT !.pc = how]
      OBVIOUS
    <3>2. x \in Runs /\ RunOK(x, ledger) /\ x.pc = how
      BY <3>1, NewRunFits
    <3>3. run' = [run EXCEPT ![r] = x]
      BY <2>1, <3>1
    <3> QED
      BY <3>2, <3>3
  <2>2. CASE run' = [run EXCEPT ![r] = NewRun(l)]
    <3>1. PICK x : x = NewRun(l)
      OBVIOUS
    <3>2. x \in Runs /\ RunOK(x, ledger) /\ x.pc = "start"
      BY <3>1, NewRunFits
    <3>3. run' = [run EXCEPT ![r] = x]
      BY <2>2, <3>1
    <3> QED
      BY <3>2, <3>3
  <2> QED
    BY <2>1, <2>2
<1>2. x.pc \notin InTransaction
  BY <1>1 DEF InTransaction
<1> QED
  BY <1>1, <1>2, RunnerMoves

(***************************************************************************)
(* The lock is taken with a valid list.                                    *)
(***************************************************************************)
LEMMA TakeLockKeeps ==
    ASSUME MigrationInv, NEW r \in Runners, NoRunner \notin Runners, TakeLock(r)
    PROVE  MigrationInv'
<1>1. PICK y \in Runs : y = run[r]
  BY DEF MigrationInv
<1>2. RunOK(y, ledger) /\ y.pc = "start" /\ ValidList(y.list)
  BY <1>1 DEF MigrationInv, TakeLock
<1>3. PICK x : x = [y EXCEPT !.pc = "locked"]
  OBVIOUS
<1>4. /\ x \in Runs /\ x.pc = "locked" /\ x.list = y.list /\ x.wrote = y.wrote
      /\ x.executed = y.executed
  BY <1>3 DEF Runs, InTransaction
<1>5. run' = [run EXCEPT ![r] = x]
  BY <1>1, <1>3 DEF TakeLock
<1>6. RunOK(x, ledger)
  BY <1>2, <1>4 DEF RunOK
<1>7. lock = NoRunner /\ lock' = r /\ UNCHANGED <<ledger, schema>>
  BY DEF TakeLock
<1>8. x.pc \in InTransaction
  BY <1>4 DEF InTransaction
<1> QED
  BY <1>4, <1>5, <1>6, <1>7, <1>8, RunnerMoves

(***************************************************************************)
(* The history is compared, and agrees.                                    *)
(***************************************************************************)
LEMMA CompareKeeps ==
    ASSUME MigrationInv, NEW r \in Runners, Compare(r)
    PROVE  MigrationInv'
<1>1. PICK y \in Runs : y = run[r]
  BY DEF MigrationInv
<1>2. /\ RunOK(y, ledger) /\ y.pc = "locked" /\ Agrees(y.list) /\ ledger \in Seq(Migration)
      /\ lock = r
  BY <1>1 DEF MigrationInv, Compare, InTransaction
<1>3. PICK x : x = [y EXCEPT !.pc = "apply", !.next = Len(ledger) + 1]
  OBVIOUS
<1>4. Len(ledger) \in Nat /\ Len(y.list) \in Nat /\ DOMAIN ledger = 1..Len(ledger)
  BY <1>2 DEF Runs
<1>5. /\ x \in Runs /\ x.pc = "apply" /\ x.list = y.list /\ x.wrote = y.wrote
      /\ x.executed = y.executed /\ x.next = Len(ledger) + 1
  <2>1. PICK k \in Nat : k = Len(ledger) + 1
    <3>1. Len(ledger) + 1 \in Nat
      BY <1>4
    <3> QED
      BY <3>1
  <2>2. x = [y EXCEPT !.pc = "apply", !.next = k]
    BY <1>3, <2>1
  <2>3. x \in Runs
    BY <2>2 DEF Runs, InTransaction
  <2>4. /\ x.pc = "apply" /\ x.list = y.list /\ x.wrote = y.wrote
        /\ x.executed = y.executed /\ x.next = k
    BY <2>2 DEF Runs
  <2> QED
    BY <2>1, <2>3, <2>4
<1>6. run' = [run EXCEPT ![r] = x]
  BY <1>1, <1>3 DEF Compare
<1>7. Len(x.wrote) = 0 /\ Len(x.executed) = 0 /\ ValidList(x.list)
  BY <1>2, <1>5 DEF RunOK
<1>8. Applying(x, ledger)
  <2>1. Len(ledger) <= Len(x.list) /\ \A i \in 1..Len(ledger) : ledger[i] = x.list[i]
    BY <1>2, <1>4, <1>5 DEF Agrees
  <2>2. /\ x.next = Len(ledger) + Len(x.wrote) + 1 /\ x.next <= Len(x.list) + 1
        /\ 1..Len(x.wrote) = {} /\ 1..Len(x.executed) = {}
    BY <1>4, <1>5, <1>7, <2>1
  <2> QED
    BY <1>7, <2>1, <2>2 DEF Applying
<1>9. RunOK(x, ledger)
  BY <1>5, <1>7, <1>8 DEF RunOK
<1>10. UNCHANGED <<ledger, schema, lock>> /\ x.pc \in InTransaction
  BY <1>5 DEF Compare, InTransaction
<1> QED
  BY <1>2, <1>5, <1>6, <1>9, <1>10, RunnerMoves

(***************************************************************************)
(* The text of the next migration is executed.                             *)
(***************************************************************************)
LEMMA ExecuteKeeps ==
    ASSUME MigrationInv, NEW r \in Runners, Execute(r)
    PROVE  MigrationInv'
<1>1. PICK y \in Runs : y = run[r]
  BY DEF MigrationInv
<1>2. /\ RunOK(y, ledger) /\ y.pc = "apply" /\ ledger \in Seq(Migration) /\ lock = r
      /\ y.next <= Len(y.list)
  BY <1>1 DEF MigrationInv, Execute, InTransaction
<1>3. Applying(y, ledger) /\ Len(y.executed) = Len(y.wrote)
  BY <1>2 DEF RunOK
<1>4. PICK n \in Nat, m \in Nat : n = Len(ledger) /\ m = Len(y.wrote)
  <2>1. Len(ledger) \in Nat /\ Len(y.wrote) \in Nat
    BY <1>2 DEF Runs
  <2> QED
    BY <2>1
<1>5. PICK l \in Seq(Migration), v \in Seq(Texts) : l = y.list /\ v = y.executed
  BY DEF Runs
<1>6. y.next = n + m + 1 /\ y.next \in 1..Len(l) /\ Len(v) = m
  BY <1>2, <1>3, <1>4, <1>5 DEF Applying
<1>7. PICK t \in Texts : t = l[y.next].sql
  <2>1. PICK z \in Migration : z = l[y.next]
    BY <1>6
  <2>2. z.sql \in Texts
    BY <2>1 DEF Migration
  <2> QED
    BY <2>1, <2>2
<1>8. PICK w : w = Append(v, t)
  OBVIOUS
<1>9. /\ w \in Seq(Texts) /\ Len(w) = m + 1 /\ w[m + 1] = t
      /\ \A i \in 1..m : w[i] = v[i]
  BY <1>6, <1>8
<1>10. PICK x : x = [y EXCEPT !.pc = "record", !.executed = w]
  OBVIOUS
<1>11. /\ x \in Runs /\ x.pc = "record" /\ x.list = y.list /\ x.wrote = y.wrote
       /\ x.executed = w /\ x.next = y.next
  BY <1>9, <1>10 DEF Runs, InTransaction
<1>12. run' = [run EXCEPT ![r] = x]
  BY <1>1, <1>5, <1>7, <1>8, <1>10 DEF Execute
<1>13. Applying(x, ledger)
  <2>1. \A i \in 1..m : w[i] = l[n + i].sql
    BY <1>3, <1>4, <1>5, <1>6, <1>9 DEF Applying
  <2>2. w[m + 1] = l[n + (m + 1)].sql
    <3>1. n + (m + 1) = y.next
      BY <1>6
    <3> QED
      BY <1>7, <1>9, <3>1
  <2>3. \A i \in 1..(m + 1) : i \in 1..m \/ i = m + 1
    OBVIOUS
  <2>4. \A i \in 1..Len(x.executed) : x.executed[i] = x.list[Len(ledger) + i].sql
    BY <1>4, <1>5, <1>9, <1>11, <2>1, <2>2, <2>3
  <2> QED
    BY <1>3, <1>11, <2>4 DEF Applying
<1>14. RunOK(x, ledger)
  <2>1. x.next <= Len(x.list) /\ Len(x.executed) = Len(x.wrote) + 1
    BY <1>2, <1>4, <1>9, <1>11
  <2> QED
    BY <1>11, <1>13, <2>1 DEF RunOK
<1>15. UNCHANGED <<ledger, schema, lock>> /\ x.pc \in InTransaction
  BY <1>11 DEF Execute, InTransaction
<1> QED
  BY <1>2, <1>11, <1>12, <1>14, <1>15, RunnerMoves

(***************************************************************************)
(* ... and recorded.                                                       *)
(***************************************************************************)
LEMMA RecordKeeps ==
    ASSUME MigrationInv, NEW r \in Runners, Record(r)
    PROVE  MigrationInv'
<1>1. PICK y \in Runs : y = run[r]
  BY DEF MigrationInv
<1>2. RunOK(y, ledger) /\ y.pc = "record" /\ ledger \in Seq(Migration) /\ lock = r
  BY <1>1 DEF MigrationInv, Record, InTransaction
<1>3. Applying(y, ledger) /\ Len(y.executed) = Len(y.wrote) + 1 /\ y.next <= Len(y.list)
  BY <1>2 DEF RunOK
<1>4. PICK n \in Nat, m \in Nat : n = Len(ledger) /\ m = Len(y.wrote)
  <2>1. Len(ledger) \in Nat /\ Len(y.wrote) \in Nat
    BY <1>2 DEF Runs
  <2> QED
    BY <2>1
<1>5. PICK l \in Seq(Migration), v \in Seq(Migration) : l = y.list /\ v = y.wrote
  BY DEF Runs
<1>6. y.next = n + m + 1 /\ y.next \in 1..Len(l) /\ Len(v) = m
  BY <1>3, <1>4, <1>5 DEF Applying
<1>7. PICK t \in Migration : t = l[y.next]
  BY <1>6
<1>8. PICK w : w = Append(v, t)
  OBVIOUS
<1>9. /\ w \in Seq(Migration) /\ Len(w) = m + 1 /\ w[m + 1] = t
      /\ \A i \in 1..m : w[i] = v[i]
  BY <1>6, <1>8
<1>10. PICK x : x = [y EXCEPT !.pc = "apply", !.next = y.next + 1, !.wrote = w]
  OBVIOUS
<1>11. /\ x \in Runs /\ x.pc = "apply" /\ x.list = y.list /\ x.wrote = w
       /\ x.executed = y.executed /\ x.next = y.next + 1
  <2>1. PICK k \in Nat : k = y.next + 1
    <3>1. y.next + 1 \in Nat
      BY <1>6
    <3> QED
      BY <3>1
  <2>2. x = [y EXCEPT !.pc = "apply", !.next = k, !.wrote = w]
    BY <1>10, <2>1
  <2>3. x \in Runs
    BY <1>9, <2>2 DEF Runs, InTransaction
  <2>4. /\ x.pc = "apply" /\ x.list = y.list /\ x.wrote = w
        /\ x.executed = y.executed /\ x.next = k
    BY <2>2 DEF Runs
  <2> QED
    BY <2>1, <2>3, <2>4
<1>12. run' = [run EXCEPT ![r] = x]
  BY <1>1, <1>5, <1>7, <1>8, <1>10 DEF Record
<1>13. Applying(x, ledger)
  <2>1. \A i \in 1..m : w[i] = l[n + i]
    BY <1>3, <1>4, <1>5, <1>6, <1>9 DEF Applying
  <2>2. w[m + 1] = l[n + (m + 1)]
    <3>1. n + (m + 1) = y.next
      BY <1>6
    <3> QED
      BY <1>7, <1>9, <3>1
  <2>3. \A i \in 1..(m + 1) : i \in 1..m \/ i = m + 1
    OBVIOUS
  <2>4. \A i \in 1..Len(x.wrote) : x.wrote[i] = x.list[Len(ledger) + i]
    BY <1>4, <1>5, <1>9, <1>11, <2>1, <2>2, <2>3
  <2>5. x.next = Len(ledger) + Len(x.wrote) + 1 /\ x.next <= Len(x.list) + 1
    <3>1. /\ x.next = n + m + 1 + 1 /\ Len(x.wrote) = m + 1 /\ Len(ledger) = n
          /\ Len(x.list) = Len(l)
      BY <1>4, <1>5, <1>6, <1>9, <1>11
    <3>2. n + m + 1 <= Len(l) /\ Len(l) \in Nat
      BY <1>6
    <3> QED
      BY <3>1, <3>2
  <2> QED
    BY <1>3, <1>11, <2>4, <2>5 DEF Applying
<1>14. RunOK(x, ledger)
  <2>1. Len(x.executed) = Len(x.wrote)
    BY <1>3, <1>4, <1>9, <1>11
  <2> QED
    BY <1>11, <1>13, <2>1 DEF RunOK
<1>15. UNCHANGED <<ledger, schema, lock>> /\ x.pc \in InTransaction
  BY <1>11 DEF Record, InTransaction
<1> QED
  BY <1>2, <1>11, <1>12, <1>14, <1>15, RunnerMoves

(***************************************************************************)
(* COMMIT: the list of the runner is the history now, and every runner     *)
(* that succeeded before still finds its own at the beginning of it.       *)
(***************************************************************************)
LEMMA CommitKeeps ==
    ASSUME MigrationInv, NEW r \in Runners, NoRunner \notin Runners,
           NEW how \in {"ok", "uncertain"}, Commit(r, how)
    PROVE  MigrationInv' /\ ledger' = run[r].list
<1>1. PICK y \in Runs : y = run[r]
  BY DEF MigrationInv
<1>2. /\ RunOK(y, ledger) /\ y.pc = "apply" /\ lock = r /\ y.next > Len(y.list)
      /\ ledger \in Seq(Migration) /\ schema \in Seq(Texts) /\ OneStory(schema, ledger)
  BY <1>1 DEF MigrationInv, Commit, InTransaction
<1>3. Applying(y, ledger) /\ Len(y.executed) = Len(y.wrote)
  BY <1>2 DEF RunOK
<1>4. ledger' = y.list /\ schema' \in Seq(Texts) /\ OneStory(schema', ledger')
  <2>1. ledger' = ledger \o y.wrote /\ schema' = schema \o y.executed
    BY <1>1 DEF Commit
  <2>2. /\ ledger \o y.wrote = y.list /\ schema \o y.executed \in Seq(Texts)
        /\ OneStory(schema \o y.executed, y.list)
    BY <1>2, <1>3, CommitGives
  <2> QED
    BY <2>1, <2>2
<1>5. PICK l \in Seq(Migration) : l = y.list
  BY DEF Runs
<1>6. PICK x : x = [NewRun(l) EXCEPT !.pc = how]
  OBVIOUS
<1>7. Begins(l, l)
  BY <1>5 DEF Begins
<1>8. x \in Runs /\ RunOK(x, l) /\ x.pc = how
  BY <1>6, <1>7, NewRunFits
<1>9. run' = [run EXCEPT ![r] = x] /\ lock' = NoRunner
  BY <1>1, <1>5, <1>6 DEF Commit, End
<1>10. run' \in [Runners -> Runs] /\ run'[r] = x /\ \A q \in Runners : q # r => run'[q] = run[q]
  BY <1>8, <1>9 DEF MigrationInv
<1>11. \A q \in Runners : q # r => run[q].pc \notin InTransaction /\ RunOK(run[q], ledger)
  BY <1>2 DEF MigrationInv
<1>12. \A i \in 1..Len(ledger) : ledger[i] = l[i]
  BY <1>3, <1>5 DEF Applying
<1>13. Len(ledger) <= Len(l)
  <2>1. Len(ledger) \in Nat /\ Len(y.wrote) \in Nat /\ Len(l) \in Nat
    BY <1>2, <1>5 DEF Runs
  <2>2. y.next = Len(ledger) + Len(y.wrote) + 1 /\ y.next <= Len(l) + 1
    BY <1>3, <1>5 DEF Applying
  <2> QED
    BY <2>1, <2>2
<1>14. ASSUME NEW q \in Runners, q # r PROVE RunOK(run[q], l)
  <2>1. PICK z \in Runs : z = run[q]
    BY DEF MigrationInv
  <2>2. z.pc \notin InTransaction /\ RunOK(z, ledger)
    BY <1>11, <1>14, <2>1
  <2>3. ASSUME z.pc = "ok" PROVE Begins(z.list, l)
    <3>1. Begins(z.list, ledger)
      BY <2>2, <2>3 DEF RunOK
    <3>2. Len(z.list) \in Nat /\ Len(ledger) \in Nat /\ Len(l) \in Nat
      BY <1>2, <1>5 DEF Runs
    <3>3. Len(z.list) <= Len(ledger) /\ \A i \in 1..Len(z.list) : z.list[i] = ledger[i]
      BY <3>1 DEF Begins
    <3>4. Len(z.list) <= Len(l) /\ \A i \in 1..Len(z.list) : i \in 1..Len(ledger)
      BY <1>13, <3>2, <3>3
    <3> QED
      BY <1>12, <3>3, <3>4 DEF Begins
  <2>4. z.pc \notin {"locked", "apply", "record"}
    BY <2>2 DEF InTransaction
  <2>5. z.pc = "start" => Len(z.wrote) = 0 /\ Len(z.executed) = 0
    BY <2>2 DEF RunOK
  <2>6. RunOK(z, l)
    BY <2>3, <2>4, <2>5 DEF RunOK
  <2> QED
    BY <2>1, <2>6
<1>15. \A q \in Runners : RunOK(run'[q], ledger')
  BY <1>4, <1>5, <1>8, <1>10, <1>14
<1>16. \A q \in Runners : run'[q].pc \in InTransaction <=> lock' = q
  <2>1. x.pc \notin InTransaction
    BY <1>8 DEF InTransaction
  <2> QED
    BY <1>9, <1>10, <1>11, <2>1
<1> QED
  BY <1>1, <1>4, <1>5, <1>10, <1>15, <1>16 DEF MigrationInv

(***************************************************************************)
(* A process that starts, leaves or dies takes its runner with it.         *)
(***************************************************************************)
LEMMA RestartKeeps ==
    ASSUME MigrationInv, NEW r \in Runners, NEW l \in Seq(Migration), Restart(r, l), lock # r
    PROVE  MigrationInv'
<1>1. run' = [run EXCEPT ![r] = NewRun(l)] /\ UNCHANGED <<ledger, schema, lock>>
  BY DEF Restart
<1> QED
  BY <1>1, EndKeeps

LEMMA DieKeeps ==
    ASSUME MigrationInv, NEW r \in Runners, NoRunner \notin Runners, Die(r)
    PROVE  MigrationInv' /\ (lock' = r => FALSE)
<1>1. /\ run' = [run EXCEPT ![r] = NewRun(<<>>)] /\ UNCHANGED <<ledger, schema>>
      /\ lock' = IF lock = r THEN NoRunner ELSE lock
  BY DEF Die
<1>2. <<>> \in Seq(Migration)
  OBVIOUS
<1>3. lock' # r /\ \A q \in Runners : q # r => (lock' = q <=> lock = q)
  BY <1>1
<1> QED
  BY <1>1, <1>2, <1>3, EndKeeps

(***************************************************************************)
(* A call that ends without a commit.                                      *)
(***************************************************************************)
LEMMA GivingUpKeeps ==
    ASSUME MigrationInv, NEW r \in Runners, NoRunner \notin Runners,
           Refuse(r) \/ Drift(r) \/ Fail(r)
    PROVE  MigrationInv' /\ lock' # r
<1>1. PICK l \in Seq(Migration) : l = run[r].list
  BY DEF MigrationInv, Runs
<1>2. lock = r <=> run[r].pc \in InTransaction
  BY DEF MigrationInv
<1>3. CASE Refuse(r)
  <2>1. run' = [run EXCEPT ![r] = [NewRun(l) EXCEPT !.pc = "invalid"]]
    BY <1>1, <1>3 DEF Refuse, End
  <2>2. UNCHANGED <<ledger, schema>> /\ lock' = lock /\ lock # r
    BY <1>2, <1>3 DEF Refuse, InTransaction
  <2> QED
    BY <2>1, <2>2, EndKeeps
<1>4. CASE Drift(r)
  <2>1. run' = [run EXCEPT ![r] = [NewRun(l) EXCEPT !.pc = "drift"]]
    BY <1>1, <1>4 DEF Drift, End
  <2>2. UNCHANGED <<ledger, schema>> /\ lock' = NoRunner /\ lock = r
    BY <1>2, <1>4 DEF Drift, InTransaction
  <2> QED
    BY <2>1, <2>2, EndKeeps
<1>5. CASE Fail(r)
  <2>1. run' = [run EXCEPT ![r] = [NewRun(l) EXCEPT !.pc = "failed"]]
    BY <1>1, <1>5 DEF Fail, End
  <2>2. UNCHANGED <<ledger, schema>> /\ lock' = IF lock = r THEN NoRunner ELSE lock
    BY <1>5 DEF Fail
  <2>3. lock' # r /\ \A q \in Runners : q # r => (lock' = q <=> lock = q)
    BY <2>2
  <2> QED
    BY <2>1, <2>2, <2>3, EndKeeps
<1> QED
  BY <1>3, <1>4, <1>5

(***************************************************************************)
(* What a step of a runner does to the others and to the lock.  The last   *)
(* part is SuccessMeansMyHistory for the runner that moves.                *)
(***************************************************************************)
LEMMA MigrationStepKeeps ==
    ASSUME MigrationInv, NEW r \in Runners, NoRunner \notin Runners, MigrationStep(r)
    PROVE  /\ MigrationInv'
           /\ \A q \in Runners : q # r => run'[q] = run[q]
           /\ \A q \in Runners : q # r => (lock' = q => lock = q)
           /\ run[r].pc # "ok" /\ run'[r].pc = "ok" => ledger' = run[r].list
<1>1. run \in [Runners -> Runs]
  BY DEF MigrationInv
<1>2. CASE Commit(r, "ok") \/ Commit(r, "uncertain")
  <2>1. MigrationInv' /\ ledger' = run[r].list
    BY <1>2, CommitKeeps
  <2>2. (\A q \in Runners : q # r => run'[q] = run[q]) /\ lock' = NoRunner
    BY <1>1, <1>2 DEF Commit, End
  <2> QED
    BY <2>1, <2>2
<1>3. CASE Refuse(r) \/ Drift(r) \/ Fail(r)
  <2>1. MigrationInv'
    BY <1>3, GivingUpKeeps
  <2>2. /\ \A q \in Runners : q # r => run'[q] = run[q]
        /\ \A q \in Runners : q # r => (lock' = q => lock = q)
    BY <1>1, <1>3 DEF Refuse, Drift, Fail, End
  <2>3. run'[r].pc \in {"invalid", "drift", "failed"}
    BY <1>1, <1>3 DEF Refuse, Drift, Fail, End, NewRun
  <2> QED
    BY <2>1, <2>2, <2>3
<1>4. CASE TakeLock(r) \/ Compare(r) \/ Execute(r) \/ Record(r)
  <2>1. MigrationInv'
    BY <1>4, TakeLockKeeps, CompareKeeps, ExecuteKeeps, RecordKeeps
  <2>2. /\ \A q \in Runners : q # r => run'[q] = run[q]
        /\ \A q \in Runners : q # r => (lock' = q => lock = q)
    BY <1>1, <1>4 DEF TakeLock, Compare, Execute, Record
  <2>3. run'[r].pc \in {"locked", "apply", "record"}
    BY <1>1, <1>4 DEF TakeLock, Compare, Execute, Record, Runs
  <2> QED
    BY <2>1, <2>2, <2>3
<1> QED
  BY <1>2, <1>3, <1>4 DEF MigrationStep

(***************************************************************************)
(* Beginning with a list, in the terms of the community module.            *)
(***************************************************************************)
LEMMA BeginsIsPrefix ==
    ASSUME NEW l \in Seq(Migration), NEW L \in Seq(Migration), Begins(l, L)
    PROVE  IsPrefix(l, L)
<1>1. PICK n \in Nat : n = Len(l)
  OBVIOUS
<1>2. n <= Len(L) /\ \A i \in 1..n : l[i] = L[i]
  BY <1>1 DEF Begins
<1>3. SubSeq(l, 1, n) = SubSeq(L, 1, n)
  BY <1>1, <1>2
<1> QED
  BY <1>1, <1>2, <1>3 DEF IsPrefix

-----------------------------------------------------------------------------
Early == {"load", "connect", "stream_info", "stream_create", "consumer_info",
          "consumer_create", "open_database", "migrate", "enqueue"}

\* Where a process has seen that the stream, and that the consumer, is its own.
OverConsumer == {"open_database", "migrate"} \cup Working
OverStream == {"consumer_info", "consumer_create"} \cup OverConsumer

Procs ==
    [pc : Early \cup Working \cup {"closing", "exited"}, stop : BOOLEAN, round : Nat,
     held : Runners \cup {NoRunner}, status : {"none", "0", "1", "2", "killed"}]

Rows ==
    [state : {"none", "pending", "sent", "dead"}, attempts : 0..MaxAttempts,
     hold : {"no", "delay", "lease"}]

ProcessTypes ==
    /\ proc \in [Runners -> Procs]
    /\ outbox \in [Runners -> Rows]
    /\ stream \in [Runners -> {"none", "stored", "acked"}]
    /\ mailbox \in [Runners -> {"none", "pending", "processed"}]
    /\ nats \in [{"stream", "consumer"} -> {"absent", "ours", "other"}]

\* An event's row, its place in the stream and in the mailbox.
RowOK(row, s, m) ==
    /\ row.state = "none" => row.attempts = 0
    /\ row.state = "sent" => s # "none" \/ m # "none"
    /\ s = "acked" => m # "none"
    /\ row.state = "dead" => row.attempts = MaxAttempts
    /\ s # "none" \/ m # "none" => row.attempts > 0

ProcOK(p) ==
    /\ proc[p].pc \in Early => outbox[p].state = "none"
    /\ proc[p].pc \notin {"closing", "exited"} => proc[p].status = "none"
    /\ proc[p].status = "0" => mailbox[p] = "processed"
    /\ proc[p].status = "2" => outbox[p].state = "none"
    /\ proc[p].pc = "consume" =>
         proc[p].held \in Runners /\ mailbox[proc[p].held] = "pending"
    /\ proc[p].pc # "consume" => proc[p].held = NoRunner
    /\ lock = p => proc[p].pc = "migrate"
    /\ proc[p].pc \in Working => run[p].pc = "ok"
    /\ p \in Jetstream /\ proc[p].pc \in OverStream => nats["stream"] = "ours"
    /\ p \in Jetstream /\ proc[p].pc \in OverConsumer => nats["consumer"] = "ours"

\* A row of the mailbox is locked by one process.
OneHolder ==
    \A p, q \in Runners : proc[p].held = proc[q].held /\ proc[p].held # NoRunner => p = q

ProcessInv ==
    /\ MigrationInv
    /\ ProcessTypes
    /\ \A e \in Runners : RowOK(outbox[e], stream[e], mailbox[e])
    /\ \A p \in Runners : ProcOK(p)
    /\ OneHolder

(***************************************************************************)
(* What a step of process p may do to the others: to its tables (h is the  *)
(* mailbox row whose transaction ends), to the migrations and to NATS.     *)
(***************************************************************************)
TablesGo(p, h) ==
    /\ outbox' \in [Runners -> Rows]
    /\ stream' \in [Runners -> {"none", "stored", "acked"}]
    /\ mailbox' \in [Runners -> {"none", "pending", "processed"}]
    /\ \A e \in Runners : RowOK(outbox'[e], stream'[e], mailbox'[e])
    /\ \A e \in Runners : e # p /\ outbox[e].state = "none" => outbox'[e].state = "none"
    /\ \A e \in Runners : mailbox[e] = "processed" => mailbox'[e] = "processed"
    /\ \A e \in Runners : mailbox[e] = "pending" /\ e # h => mailbox'[e] = "pending"

MigrationsGo(p) ==
    /\ MigrationInv'
    /\ \A q \in Runners : q # p => run'[q] = run[q]
    /\ \A q \in Runners : q # p => (lock' = q => lock = q)

NatsGo ==
    /\ nats' \in [{"stream", "consumer"} -> {"absent", "ours", "other"}]
    /\ nats["stream"] = "ours" => nats'["stream"] = "ours"
    /\ nats["consumer"] = "ours" => nats'["consumer"] = "ours"

(***************************************************************************)
(* Nothing happens there.                                                  *)
(***************************************************************************)
LEMMA TablesStay ==
    ASSUME ProcessInv, NEW p, NEW h, UNCHANGED tables
    PROVE  TablesGo(p, h)
<1>1. outbox' = outbox /\ stream' = stream /\ mailbox' = mailbox
  BY DEF tables
<1> QED
  BY <1>1 DEF TablesGo, ProcessInv, ProcessTypes

LEMMA MigrationsStay ==
    ASSUME ProcessInv, NEW p, UNCHANGED migrationVars
    PROVE  MigrationsGo(p) /\ lock' = lock /\ run' = run
<1>1. ledger' = ledger /\ schema' = schema /\ lock' = lock /\ run' = run
  BY DEF migrationVars
<1>2. MigrationInv'
  BY <1>1 DEF ProcessInv, MigrationInv
<1> QED
  BY <1>1, <1>2 DEF MigrationsGo

LEMMA NatsStays ==
    ASSUME ProcessInv, UNCHANGED nats
    PROVE  NatsGo
BY DEF NatsGo, ProcessInv, ProcessTypes

(***************************************************************************)
(* A process that does not move keeps what it has.                         *)
(***************************************************************************)
LEMMA OthersKept ==
    ASSUME ProcessInv, NEW p, NEW h, NEW q \in Runners, q # p, proc'[q] = proc[q],
           TablesGo(p, h), MigrationsGo(p), NatsGo, proc[q].held # h \/ h = NoRunner
    PROVE  ProcOK(q)'
<1>1. ProcOK(q) /\ proc[q] \in Procs /\ NoRunner \notin Runners
  BY MigrationsAssumption DEF ProcessInv, ProcessTypes
<1>2. outbox[q].state = "none" => outbox'[q].state = "none"
  BY DEF TablesGo
<1>3. mailbox[q] = "processed" => mailbox'[q] = "processed"
  BY DEF TablesGo
<1>4. proc[q].pc = "consume" => proc[q].held \in Runners /\ mailbox'[proc[q].held] = "pending"
  BY <1>1 DEF TablesGo, ProcOK
<1>5. run'[q] = run[q] /\ (lock' = q => lock = q)
  BY DEF MigrationsGo
<1> QED
  BY <1>1, <1>2, <1>3, <1>4, <1>5 DEF ProcOK, NatsGo

(***************************************************************************)
(* A step of process p, from what it does to each part.                    *)
(***************************************************************************)
LEMMA StepKeeps ==
    ASSUME ProcessInv, NEW p \in Runners, NEW h, NEW x \in Procs,
           proc' = [proc EXCEPT ![p] = x], TablesGo(p, h), MigrationsGo(p), NatsGo,
           ProcOK(p)', h \in {NoRunner, proc[p].held},
           x.held = NoRunner \/ x.held = proc[p].held \/ \A q \in Runners : proc[q].held # x.held
    PROVE  ProcessInv'
<1>1. proc \in [Runners -> Procs] /\ OneHolder
  BY DEF ProcessInv, ProcessTypes
<1>2. /\ proc' \in [Runners -> Procs] /\ proc'[p] = x
      /\ \A q \in Runners : q # p => proc'[q] = proc[q]
  BY <1>1
<1>3. \A q \in Runners : ProcOK(q)'
  <2>1. SUFFICES ASSUME NEW q \in Runners, q # p PROVE ProcOK(q)'
    OBVIOUS
  <2>2. proc[q].held # h \/ h = NoRunner
    BY <1>1, <2>1 DEF OneHolder
  <2> QED
    BY <1>2, <2>1, <2>2, OthersKept
<1>4. OneHolder'
  BY <1>1, <1>2 DEF OneHolder
<1>5. ProcessTypes'
  BY <1>2 DEF ProcessTypes, TablesGo, NatsGo
<1>6. \A e \in Runners : RowOK(outbox'[e], stream'[e], mailbox'[e])
  BY DEF TablesGo
<1> QED
  BY <1>3, <1>4, <1>5, <1>6 DEF ProcessInv, MigrationsGo

(***************************************************************************)
(* A process that leaves, or dies, owns nothing: only its status matters.  *)
(***************************************************************************)
LEMMA LeavingKeeps ==
    ASSUME ProcessInv, NEW p \in Runners, NEW h, NEW c \in {"closing", "exited"},
           NEW s \in {"none", "0", "1", "2", "killed"},
           proc' = [proc EXCEPT ![p] = [NewProcess EXCEPT !.pc = c, !.status = s]],
           TablesGo(p, h), MigrationsGo(p), NatsGo, h \in {NoRunner, proc[p].held},
           lock' # p, s = "0" => mailbox'[p] = "processed",
           s = "2" => outbox'[p].state = "none"
    PROVE  ProcessInv'
<1>1. PICK x : x = [NewProcess EXCEPT !.pc = c, !.status = s]
  OBVIOUS
<1>2. x = [pc |-> c, stop |-> FALSE, round |-> 0, held |-> NoRunner, status |-> s]
  BY <1>1 DEF NewProcess
<1>3. x \in Procs /\ x.pc = c /\ x.held = NoRunner /\ x.status = s
  BY <1>2 DEF Procs
<1>4. proc' = [proc EXCEPT ![p] = x]
  BY <1>1
<1>5. proc'[p] = x
  BY <1>4 DEF ProcessInv, ProcessTypes
<1>6. c \notin Early /\ c \notin Working /\ c \notin OverStream /\ c \notin OverConsumer
  BY DEF Early, Working, OverStream, OverConsumer
<1>7. ProcOK(p)'
  BY <1>3, <1>5, <1>6 DEF ProcOK
<1> QED
  BY <1>3, <1>4, <1>7, StepKeeps

(***************************************************************************)
(* A process at work goes on from one place to the next.                   *)
(***************************************************************************)
LEMMA MovingKeeps ==
    ASSUME ProcessInv, NEW p \in Runners, NEW h, NEW x \in Procs,
           proc' = [proc EXCEPT ![p] = x], TablesGo(p, h), MigrationsGo(p), NatsGo,
           h \in {NoRunner, proc[p].held}, x.status = "none", x.held = NoRunner,
           x.pc \notin {"closing", "exited", "consume"},
           x.pc \in Early => outbox'[p].state = "none",
           lock' = p => x.pc = "migrate", x.pc \in Working => run'[p].pc = "ok",
           p \in Jetstream /\ x.pc \in OverStream => nats'["stream"] = "ours",
           p \in Jetstream /\ x.pc \in OverConsumer => nats'["consumer"] = "ours"
    PROVE  ProcessInv'
<1>1. proc'[p] = x
  BY DEF ProcessInv, ProcessTypes
<1>2. ProcOK(p)'
  BY <1>1 DEF ProcOK
<1> QED
  BY <1>2, StepKeeps

(***************************************************************************)
(* A process moved by Goto: its record, and what it knew before.           *)
(***************************************************************************)
LEMMA GotoGives ==
    ASSUME ProcessInv, NEW p \in Runners, proc[p].pc \in Early \cup Working,
           proc[p].pc # "consume", NEW c \in Early \cup Working, Goto(p, c)
    PROVE  \E x \in Procs : /\ proc' = [proc EXCEPT ![p] = x] /\ x.pc = c
                            /\ x.status = "none" /\ x.held = NoRunner
<1>1. PICK y \in Procs : y = proc[p]
  BY DEF ProcessInv, ProcessTypes
<1>2. y.status = "none" /\ y.held = NoRunner
  <2>1. y.pc \notin {"closing", "exited"}
    BY <1>1 DEF Early, Working
  <2> QED
    BY <1>1, <2>1 DEF ProcessInv, ProcOK
<1>3. PICK x : x = [y EXCEPT !.pc = c]
  OBVIOUS
<1>4. x \in Procs /\ x.pc = c /\ x.status = y.status /\ x.held = y.held
  BY <1>3 DEF Procs
<1>5. proc' = [proc EXCEPT ![p] = x]
  BY <1>1, <1>3 DEF Goto
<1> QED
  BY <1>2, <1>4, <1>5

-----------------------------------------------------------------------------
(***************************************************************************)
(* The event is recorded: its row was free and nothing was published.      *)
(***************************************************************************)
LEMMA EnqueueTables ==
    ASSUME ProcessInv, NEW p \in Runners, NEW h, outbox[p].state = "none",
           outbox' = [outbox EXCEPT ![p] = Pending], UNCHANGED <<stream, mailbox>>
    PROVE  TablesGo(p, h)
<1>1. ProcessTypes /\ MaxAttempts \in Nat
  BY EventProcessAssumption DEF ProcessInv
<1>2. /\ Pending \in Rows /\ Pending.state = "pending" /\ Pending.attempts = 0
  <2>1. 0 \in 0..MaxAttempts
    BY <1>1
  <2> QED
    BY <2>1 DEF Pending, Rows
<1>3. /\ outbox' \in [Runners -> Rows] /\ outbox'[p] = Pending
      /\ \A e \in Runners : e # p => outbox'[e] = outbox[e]
  BY <1>1, <1>2 DEF ProcessTypes
<1>4. stream' = stream /\ mailbox' = mailbox
  OBVIOUS
<1>5. ASSUME NEW e \in Runners PROVE RowOK(outbox'[e], stream'[e], mailbox'[e])
  <2>1. RowOK(outbox[e], stream[e], mailbox[e])
    BY DEF ProcessInv
  <2>2. CASE e # p
    BY <1>3, <1>4, <2>1, <2>2
  <2>3. CASE e = p
    <3>1. outbox[e].attempts = 0
      BY <2>1, <2>3 DEF RowOK
    <3>2. stream[e] = "none" /\ mailbox[e] = "none"
      BY <2>1, <3>1 DEF RowOK
    <3> QED
      BY <1>2, <1>3, <1>4, <2>3, <3>2 DEF RowOK
  <2> QED
    BY <2>2, <2>3
<1> QED
  BY <1>1, <1>3, <1>4, <1>5 DEF TablesGo, ProcessTypes

(***************************************************************************)
(* What claim() sweeps: rows whose attempts are spent are dead.            *)
(***************************************************************************)
LEMMA SweptRows ==
    ASSUME ProcessInv
    PROVE  /\ Swept \in [Runners -> Rows]
           /\ \A e \in Runners :
                /\ Swept[e].attempts = outbox[e].attempts
                /\ Swept[e].state = "none" <=> outbox[e].state = "none"
                /\ Swept[e].state = "sent" => outbox[e].state = "sent"
                /\ Swept[e].state = "dead" =>
                     outbox[e].state = "dead" \/ outbox[e].attempts = MaxAttempts
                /\ Claimable(e) => Swept[e] = outbox[e]
<1>1. ProcessTypes /\ MaxAttempts \in Nat
  BY EventProcessAssumption DEF ProcessInv
<1>2. ASSUME NEW e \in Runners
      PROVE  /\ Swept[e] \in Rows
             /\ Swept[e].attempts = outbox[e].attempts
             /\ Swept[e].state = "none" <=> outbox[e].state = "none"
             /\ Swept[e].state = "sent" => outbox[e].state = "sent"
             /\ Swept[e].state = "dead" =>
                  outbox[e].state = "dead" \/ outbox[e].attempts = MaxAttempts
             /\ Claimable(e) => Swept[e] = outbox[e]
  <2>1. PICK row \in Rows : row = outbox[e]
    BY <1>1 DEF ProcessTypes
  <2>2. CASE row.state = "pending" /\ row.attempts = MaxAttempts /\ row.hold # "lease"
    <3>1. Swept[e] = [row EXCEPT !.state = "dead", !.hold = "no"]
      BY <2>1, <2>2 DEF Swept
    <3>2. PICK z : z = [row EXCEPT !.state = "dead", !.hold = "no"]
      OBVIOUS
    <3>3. z \in Rows /\ z.state = "dead" /\ z.attempts = row.attempts
      BY <3>2 DEF Rows
    <3>4. ~Claimable(e)
      BY <1>1, <2>1, <2>2 DEF Claimable
    <3> QED
      BY <2>1, <2>2, <3>1, <3>2, <3>3, <3>4
  <2>3. CASE ~(row.state = "pending" /\ row.attempts = MaxAttempts /\ row.hold # "lease")
    <3>1. Swept[e] = row
      BY <2>1, <2>3 DEF Swept
    <3> QED
      BY <2>1, <3>1
  <2> QED
    BY <2>2, <2>3
<1>3. Swept = [e \in Runners |-> Swept[e]]
  BY DEF Swept
<1>4. Swept \in [Runners -> Rows]
  BY <1>2, <1>3
<1> QED
  BY <1>2, <1>4

(***************************************************************************)
(* dispatch() finds no row.                                                *)
(***************************************************************************)
LEMMA SweptTables ==
    ASSUME ProcessInv, NEW p, NEW h, outbox' = Swept, UNCHANGED <<stream, mailbox>>
    PROVE  TablesGo(p, h)
<1>1. stream' = stream /\ mailbox' = mailbox
  OBVIOUS
<1>2. ASSUME NEW e \in Runners PROVE RowOK(outbox'[e], stream'[e], mailbox'[e])
  <2>1. RowOK(outbox[e], stream[e], mailbox[e])
    BY DEF ProcessInv
  <2> QED
    BY <1>1, <2>1, SweptRows DEF RowOK
<1> QED
  BY <1>1, <1>2, SweptRows DEF TablesGo, ProcessInv, ProcessTypes

(***************************************************************************)
(* What the publisher does to the stream and to the mailbox.               *)
(***************************************************************************)
LEMMA PublishedGives ==
    ASSUME ProcessInv, NEW p \in Runners, NEW e \in Runners, Published(p, e)
    PROVE  /\ stream' \in [Runners -> {"none", "stored", "acked"}]
           /\ mailbox' \in [Runners -> {"none", "pending", "processed"}]
           /\ stream'[e] # "none" \/ mailbox'[e] # "none"
           /\ \A f \in Runners : /\ stream'[f] = "acked" => stream[f] = "acked"
                                 /\ mailbox[f] # "none" => mailbox'[f] = mailbox[f]
                                 /\ stream[f] # "none" => stream'[f] = stream[f]
                                 /\ f # e => stream'[f] = stream[f] /\ mailbox'[f] = mailbox[f]
<1>1. ProcessTypes
  BY DEF ProcessInv
<1>2. CASE p \in Jetstream
  <2>1. /\ stream' = [stream EXCEPT ![e] = IF stream[e] = "none" THEN "stored" ELSE stream[e]]
        /\ mailbox' = mailbox
    BY <1>2 DEF Published
  <2> QED
    BY <1>1, <2>1 DEF ProcessTypes
<1>3. CASE p \notin Jetstream
  <2>1. /\ mailbox' = [mailbox EXCEPT ![e] = IF mailbox[e] = "none" THEN "pending" ELSE mailbox[e]]
        /\ stream' = stream
    BY <1>3 DEF Published
  <2> QED
    BY <1>1, <2>1 DEF ProcessTypes
<1> QED
  BY <1>2, <1>3

(***************************************************************************)
(* dispatch() claims the row of e, and row is what it leaves there: sent   *)
(* only when the event was published.                                      *)
(***************************************************************************)
LEMMA DispatchTables ==
    ASSUME ProcessInv, NEW p \in Runners, NEW h, NEW e \in Runners, Claimable(e),
           NEW row \in Rows, row.state # "none", row.attempts > 0,
           row.state = "dead" => row.attempts = MaxAttempts,
           outbox' = [Swept EXCEPT ![e] = row],
           Published(p, e) \/ (UNCHANGED <<stream, mailbox>> /\ row.state # "sent")
    PROVE  TablesGo(p, h)
<1>1. ProcessTypes
  BY DEF ProcessInv
<1>2. /\ outbox' \in [Runners -> Rows] /\ outbox'[e] = row
      /\ \A f \in Runners : f # e => outbox'[f] = Swept[f]
  BY SweptRows
<1>3. /\ stream' \in [Runners -> {"none", "stored", "acked"}]
      /\ mailbox' \in [Runners -> {"none", "pending", "processed"}]
      /\ row.state = "sent" => stream'[e] # "none" \/ mailbox'[e] # "none"
      /\ \A f \in Runners : /\ stream'[f] = "acked" => stream[f] = "acked"
                            /\ mailbox[f] # "none" => mailbox'[f] = mailbox[f]
                            /\ stream[f] # "none" => stream'[f] = stream[f]
                            /\ f # e => stream'[f] = stream[f] /\ mailbox'[f] = mailbox[f]
  <2>1. CASE Published(p, e)
    BY <2>1, PublishedGives
  <2>2. CASE UNCHANGED <<stream, mailbox>> /\ row.state # "sent"
    BY <1>1, <2>2 DEF ProcessTypes
  <2> QED
    BY <2>1, <2>2
<1>4. ASSUME NEW f \in Runners PROVE RowOK(outbox'[f], stream'[f], mailbox'[f])
  <2>1. RowOK(outbox[f], stream[f], mailbox[f])
    BY DEF ProcessInv
  <2>2. CASE f # e
    <3>1. RowOK(Swept[f], stream[f], mailbox[f])
      BY <2>1, SweptRows DEF RowOK
    <3> QED
      BY <1>2, <1>3, <2>2, <3>1
  <2>3. CASE f = e
    <3>1. stream'[f] = "acked" => mailbox'[f] # "none"
      BY <1>3, <2>1 DEF RowOK
    <3> QED
      BY <1>2, <1>3, <2>3, <3>1 DEF RowOK
  <2> QED
    BY <2>2, <2>3
<1>5. \A f \in Runners : outbox[f].state = "none" => outbox'[f].state = "none"
  <2>1. outbox[e].state # "none"
    BY DEF Claimable
  <2> QED
    BY <1>2, <2>1, SweptRows
<1>6. \A f \in Runners : /\ mailbox[f] = "processed" => mailbox'[f] = "processed"
                         /\ mailbox[f] = "pending" => mailbox'[f] = "pending"
  BY <1>3
<1> QED
  BY <1>2, <1>3, <1>4, <1>5, <1>6 DEF TablesGo

(***************************************************************************)
(* The rows that ack(), release() and a lease leave behind.                *)
(***************************************************************************)
LEMMA RowsAfter ==
    ASSUME ProcessInv, NEW e \in Runners, Claimable(e),
           NEW row \in {Acked(outbox[e]), Released(outbox[e]), Leased(outbox[e])}
    PROVE  /\ row \in Rows /\ row.state # "none" /\ row.attempts > 0
           /\ row.state = "dead" => row.attempts = MaxAttempts
           /\ row.state = "sent" => row = Acked(outbox[e])
<1>1. PICK o \in Rows : o = outbox[e]
  BY DEF ProcessInv, ProcessTypes
<1>2. o.state = "pending" /\ o.attempts < MaxAttempts
  BY <1>1 DEF Claimable
<1>3. PICK n \in 1..MaxAttempts : n = o.attempts + 1
  <2>1. o.attempts \in 0..MaxAttempts /\ MaxAttempts \in Nat
    BY EventProcessAssumption DEF Rows
  <2>2. o.attempts + 1 \in 1..MaxAttempts
    BY <1>2, <2>1
  <2> QED
    BY <2>2
<1>4. n \in 0..MaxAttempts /\ n > 0 /\ (n >= MaxAttempts => n = MaxAttempts)
  BY <1>3, EventProcessAssumption
<1>5. CASE row = Acked(outbox[e])
  <2>1. row = [o EXCEPT !.state = "sent", !.attempts = n]
    BY <1>1, <1>3, <1>5 DEF Acked
  <2>2. row \in Rows /\ row.state = "sent" /\ row.attempts = n
    BY <1>4, <2>1 DEF Rows
  <2> QED
    BY <1>4, <1>5, <2>2
<1>6. CASE row = Leased(outbox[e])
  <2>1. row = [o EXCEPT !.attempts = n, !.hold = "lease"]
    BY <1>1, <1>3, <1>6 DEF Leased
  <2>2. row \in Rows /\ row.state = "pending" /\ row.attempts = n
    BY <1>2, <1>4, <2>1 DEF Rows
  <2> QED
    BY <1>4, <2>2
<1>7. CASE row = Released(outbox[e])
  <2>1. CASE n >= MaxAttempts
    <3>1. row = [o EXCEPT !.state = "dead", !.attempts = n, !.hold = "no"]
      BY <1>1, <1>3, <1>7, <2>1 DEF Released
    <3>2. row \in Rows /\ row.state = "dead" /\ row.attempts = n
      BY <1>4, <3>1 DEF Rows
    <3> QED
      BY <1>4, <2>1, <3>2
  <2>2. CASE ~(n >= MaxAttempts)
    <3>1. row = [o EXCEPT !.state = "pending", !.attempts = n, !.hold = "delay"]
      BY <1>1, <1>3, <1>7, <2>2 DEF Released
    <3>2. row \in Rows /\ row.state = "pending" /\ row.attempts = n
      BY <1>4, <3>1 DEF Rows
    <3> QED
      BY <1>4, <3>2
  <2> QED
    BY <2>1, <2>2
<1> QED
  BY <1>5, <1>6, <1>7

(***************************************************************************)
(* A message of the stream is put into the mailbox.                        *)
(***************************************************************************)
LEMMA TransferTables ==
    ASSUME ProcessInv, NEW p, NEW h, NEW e \in Runners, stream[e] = "stored",
           mailbox' = [mailbox EXCEPT ![e] = IF @ = "none" THEN "pending" ELSE @],
           stream' = [stream EXCEPT ![e] = "acked"] \/ stream' = stream, UNCHANGED outbox
    PROVE  TablesGo(p, h)
<1>1. ProcessTypes
  BY DEF ProcessInv
<1>2. /\ mailbox' \in [Runners -> {"none", "pending", "processed"}] /\ mailbox'[e] # "none"
      /\ \A f \in Runners : mailbox[f] # "none" \/ f # e => mailbox'[f] = mailbox[f]
  BY <1>1 DEF ProcessTypes
<1>3. /\ stream' \in [Runners -> {"none", "stored", "acked"}] /\ stream'[e] # "none"
      /\ \A f \in Runners : f # e => stream'[f] = stream[f]
  BY <1>1 DEF ProcessTypes
<1>4. ASSUME NEW f \in Runners PROVE RowOK(outbox'[f], stream'[f], mailbox'[f])
  <2>1. RowOK(outbox[f], stream[f], mailbox[f])
    BY DEF ProcessInv
  <2> QED
    BY <1>2, <1>3, <2>1 DEF RowOK
<1> QED
  BY <1>1, <1>2, <1>3, <1>4 DEF TablesGo, ProcessTypes

(***************************************************************************)
(* The commit of consume().                                                *)
(***************************************************************************)
LEMMA ConsumeTables ==
    ASSUME ProcessInv, NEW p \in Runners, At(p, "consume"), Processed(p),
           UNCHANGED <<outbox, stream>>
    PROVE  TablesGo(p, proc[p].held) /\ mailbox'[proc[p].held] = "processed"
<1>1. ProcessTypes
  BY DEF ProcessInv
<1>2. PICK e \in Runners : e = proc[p].held /\ mailbox[e] = "pending"
  BY DEF ProcessInv, ProcOK, At
<1>3. /\ mailbox' \in [Runners -> {"none", "pending", "processed"}] /\ mailbox'[e] = "processed"
      /\ \A f \in Runners : f # e => mailbox'[f] = mailbox[f]
  BY <1>1, <1>2 DEF ProcessTypes, Processed
<1>4. ASSUME NEW f \in Runners PROVE RowOK(outbox'[f], stream'[f], mailbox'[f])
  <2>1. RowOK(outbox[f], stream[f], mailbox[f])
    BY DEF ProcessInv
  <2> QED
    BY <1>2, <1>3, <2>1 DEF RowOK
<1>5. TablesGo(p, e)
  BY <1>1, <1>2, <1>3, <1>4 DEF TablesGo, ProcessTypes
<1> QED
  BY <1>2, <1>3, <1>5

-----------------------------------------------------------------------------
(***************************************************************************)
(* The steps.  A process that walks on, and one that leaves with status 1, *)
(* in terms of what the step does to the tables and to NATS.               *)
(***************************************************************************)
LEMMA WalkKeeps ==
    ASSUME ProcessInv, NEW p \in Runners, proc[p].pc \in Early \cup Working,
           proc[p].pc # "consume", lock # p, NEW c \in Early \cup Working, c # "consume",
           Goto(p, c), TablesGo(p, NoRunner), UNCHANGED migrationVars, NatsGo,
           c \in Early => outbox'[p].state = "none", c \in Working => run[p].pc = "ok",
           p \in Jetstream /\ c \in OverStream => nats'["stream"] = "ours",
           p \in Jetstream /\ c \in OverConsumer => nats'["consumer"] = "ours"
    PROVE  ProcessInv'
<1>1. PICK x \in Procs : /\ proc' = [proc EXCEPT ![p] = x] /\ x.pc = c
                         /\ x.status = "none" /\ x.held = NoRunner
  BY GotoGives
<1>2. MigrationsGo(p) /\ lock' = lock /\ run' = run
  BY MigrationsStay
<1>3. x.pc \notin {"closing", "exited", "consume"}
  BY <1>1 DEF Early, Working
<1> QED
  BY <1>1, <1>2, <1>3, MovingKeeps

LEMMA LeaveKeeps ==
    ASSUME ProcessInv, NEW p \in Runners, lock # p, Leave(p, "1"), NEW h,
           h \in {NoRunner, proc[p].held}, TablesGo(p, h), UNCHANGED migrationVars, NatsGo
    PROVE  ProcessInv'
<1>1. MigrationsGo(p) /\ lock' = lock
  BY MigrationsStay
<1>2. proc' = [proc EXCEPT ![p] = [NewProcess EXCEPT !.pc = "closing", !.status = "1"]]
  BY DEF Leave
<1> QED
  BY <1>1, <1>2, LeavingKeeps

(***************************************************************************)
(* What a process knows where it is: the lock is only held in migrate.     *)
(***************************************************************************)
LEMMA Outside ==
    ASSUME ProcessInv, NEW p \in Runners,
           proc[p].pc # "migrate" \/ run[p].pc \notin InTransaction
    PROVE  lock # p
BY DEF ProcessInv, MigrationInv, ProcOK

(***************************************************************************)
(* From the settings to the broker.                                        *)
(***************************************************************************)
LEMMA RefusedKeeps ==
    ASSUME ProcessInv, NEW p \in Runners, Refused(p)
    PROVE  ProcessInv'
<1>1. At(p, "load") /\ UNCHANGED migrationVars /\ UNCHANGED tables /\ UNCHANGED nats
  BY DEF Refused
<1>2. lock # p
  BY <1>1, Outside DEF At
<1>3. MigrationsGo(p) /\ lock' = lock /\ TablesGo(p, NoRunner) /\ NatsGo
  BY <1>1, MigrationsStay, TablesStay, NatsStays
<1>4. outbox'[p].state = "none"
  BY <1>1 DEF ProcessInv, ProcOK, At, Early, tables
<1>5. proc' = [proc EXCEPT ![p] = [NewProcess EXCEPT !.pc = "exited", !.status = "2"]]
  BY DEF Refused, Exited
<1> QED
  BY <1>2, <1>3, <1>4, <1>5, LeavingKeeps

LEMMA LoadKeeps ==
    ASSUME ProcessInv, NEW p \in Runners, NEW l \in Lists, Load(p, l)
    PROVE  ProcessInv'
<1>1. At(p, "load") /\ Restart(p, l) /\ UNCHANGED tables /\ UNCHANGED nats
  BY DEF Load
<1>2. lock # p /\ MigrationInv
  BY <1>1, Outside DEF At, ProcessInv
<1>3. l \in Seq(Migration)
  BY MigrationsAssumption DEF Migration, Texts
<1>4. MigrationInv'
  BY <1>1, <1>2, <1>3, RestartKeeps
<1>5. lock' = lock /\ \A q \in Runners : q # p => run'[q] = run[q]
  BY <1>1, <1>2 DEF Restart, MigrationInv
<1>6. MigrationsGo(p) /\ TablesGo(p, NoRunner) /\ NatsGo
  BY <1>1, <1>4, <1>5, TablesStay, NatsStays DEF MigrationsGo
<1>7. PICK c \in {"connect", "open_database"} :
        Goto(p, c) /\ (p \in Jetstream => c = "connect")
  BY DEF Load
<1>8. PICK x \in Procs : /\ proc' = [proc EXCEPT ![p] = x] /\ x.pc = c
                         /\ x.status = "none" /\ x.held = NoRunner
  <2>1. c \in Early \cup Working /\ proc[p].pc \in Early \cup Working /\ proc[p].pc # "consume"
    BY <1>1, <1>7 DEF Early, At
  <2> QED
    BY <1>7, <2>1, GotoGives
<1>9. outbox'[p].state = "none"
  BY <1>1 DEF ProcessInv, ProcOK, At, Early, tables
<1>10. /\ c \notin Working /\ (p \in Jetstream => c \notin OverStream /\ c \notin OverConsumer)
       /\ c \notin {"closing", "exited", "consume"}
  BY <1>7 DEF Working, OverStream, OverConsumer
<1> QED
  BY <1>2, <1>5, <1>6, <1>8, <1>9, <1>10, MovingKeeps

LEMMA ConnectKeeps ==
    ASSUME ProcessInv, NEW p \in Runners, ConnectBroker(p)
    PROVE  ProcessInv'
<1>1. /\ At(p, "connect") /\ Goto(p, "stream_info") /\ UNCHANGED migrationVars
      /\ UNCHANGED tables /\ UNCHANGED nats
  BY DEF ConnectBroker
<1>2. lock # p /\ TablesGo(p, NoRunner) /\ NatsGo
  BY <1>1, Outside, TablesStay, NatsStays DEF At
<1>3. outbox'[p].state = "none"
  BY <1>1 DEF ProcessInv, ProcOK, At, Early, tables
<1>4. proc[p].pc \in Early \cup Working /\ proc[p].pc # "consume"
  BY <1>1 DEF At, Early
<1>5. /\ "stream_info" \in Early \cup Working /\ "stream_info" \notin Working
      /\ "stream_info" \notin OverStream /\ "stream_info" \notin OverConsumer
  BY DEF Early, Working, OverStream, OverConsumer
<1> QED
  BY <1>1, <1>2, <1>3, <1>4, <1>5, WalkKeeps

(***************************************************************************)
(* provision().                                                            *)
(***************************************************************************)
LEMMA InfoKeeps ==
    ASSUME ProcessInv, NEW p \in Runners, Info(p)
    PROVE  ProcessInv'
<1>1. /\ proc[p].pc \in {"stream_info", "consumer_info"} /\ UNCHANGED migrationVars
      /\ UNCHANGED tables /\ UNCHANGED nats
  BY DEF Info
<1>2. lock # p /\ TablesGo(p, NoRunner) /\ NatsGo
  BY <1>1, Outside, TablesStay, NatsStays
<1>3. outbox'[p].state = "none"
  BY <1>1 DEF ProcessInv, ProcOK, Early, tables
<1>4. proc[p].pc \in Early \cup Working /\ proc[p].pc # "consume"
  BY <1>1 DEF Early
<1>5. proc[p].pc = "consumer_info" /\ p \in Jetstream => nats["stream"] = "ours"
  BY DEF ProcessInv, ProcOK, OverStream
<1>6. PICK c \in {"stream_create", "consumer_create", "consumer_info", "open_database"} :
        /\ Goto(p, c)
        /\ c \in {"consumer_info", "consumer_create", "open_database"} /\ p \in Jetstream
             => nats["stream"] = "ours"
        /\ c = "open_database" => nats["consumer"] = "ours"
  <2>1. CASE proc[p].pc = "stream_info"
    BY <2>1 DEF Info, Thing, Creation, Provisioned, Compatible
  <2>2. CASE proc[p].pc = "consumer_info"
    BY <1>5, <2>2 DEF Info, Thing, Creation, Provisioned, Compatible
  <2> QED
    BY <1>1, <2>1, <2>2
<1>7. /\ c \in Early \cup Working /\ c # "consume" /\ c \notin Working
      /\ c \in OverStream => c \in {"consumer_info", "consumer_create", "open_database"}
      /\ c \in OverConsumer => c = "open_database"
  BY <1>6 DEF Early, Working, OverStream, OverConsumer
<1> QED
  BY <1>1, <1>2, <1>3, <1>4, <1>6, <1>7, WalkKeeps

LEMMA CreateKeeps ==
    ASSUME ProcessInv, NEW p \in Runners, Create(p)
    PROVE  ProcessInv'
<1>1. /\ proc[p].pc \in {"stream_create", "consumer_create"} /\ UNCHANGED migrationVars
      /\ UNCHANGED tables /\ Goto(p, Provisioned(proc[p].pc))
  BY DEF Create
<1>2. lock # p /\ TablesGo(p, NoRunner)
  BY <1>1, Outside, TablesStay
<1>3. outbox'[p].state = "none"
  BY <1>1 DEF ProcessInv, ProcOK, Early, tables
<1>4. proc[p].pc \in Early \cup Working /\ proc[p].pc # "consume"
  BY <1>1 DEF Early
<1>5. proc[p].pc = "consumer_create" /\ p \in Jetstream => nats["stream"] = "ours"
  BY DEF ProcessInv, ProcOK, OverStream
<1>6. PICK t \in {"stream", "consumer"} :
        /\ t = Thing(proc[p].pc) /\ (proc[p].pc = "consumer_create" => t = "consumer")
        /\ proc[p].pc = "stream_create" => t = "stream"
  BY <1>1 DEF Thing
<1>7. /\ nats' = [nats EXCEPT ![t] = IF nats[t] = "absent" THEN "ours" ELSE nats[t]]
      /\ nats'[t] = "ours"
  BY <1>6 DEF Create, Compatible
<1>8. NatsGo
  BY <1>7 DEF NatsGo, ProcessInv, ProcessTypes
<1>9. PICK c \in {"consumer_info", "open_database"} :
        /\ Goto(p, c) /\ (c = "open_database" => proc[p].pc = "consumer_create")
        /\ c = "consumer_info" => proc[p].pc = "stream_create"
  BY <1>1 DEF Provisioned
<1>10. /\ p \in Jetstream => nats'["stream"] = "ours"
       /\ c = "open_database" => nats'["consumer"] = "ours"
  BY <1>5, <1>6, <1>7, <1>8, <1>9 DEF NatsGo
<1>11. /\ c \in Early \cup Working /\ c # "consume" /\ c \notin Working
       /\ c \in OverConsumer => c = "open_database"
  BY <1>9 DEF Early, Working, OverConsumer
<1> QED
  BY <1>1, <1>2, <1>3, <1>4, <1>8, <1>9, <1>10, <1>11, WalkKeeps

LEMMA CreateReplyLostKeeps ==
    ASSUME ProcessInv, NEW p \in Runners, CreateReplyLost(p)
    PROVE  ProcessInv'
<1>1. /\ proc[p].pc \in {"stream_create", "consumer_create"} /\ UNCHANGED migrationVars
      /\ UNCHANGED tables /\ Leave(p, "1")
  BY DEF CreateReplyLost
<1>2. lock # p /\ TablesGo(p, NoRunner)
  BY <1>1, Outside, TablesStay
<1>3. NatsGo
  <2>1. PICK t \in {"stream", "consumer"} : t = Thing(proc[p].pc)
    BY DEF Thing
  <2>2. nats' = [nats EXCEPT ![t] = "ours"]
    BY <2>1 DEF CreateReplyLost
  <2> QED
    BY <2>1, <2>2 DEF NatsGo, ProcessInv, ProcessTypes
<1> QED
  BY <1>1, <1>2, <1>3, LeaveKeeps

(***************************************************************************)
(* The database and its migrations.                                        *)
(***************************************************************************)
LEMMA OpenDatabaseKeeps ==
    ASSUME ProcessInv, NEW p \in Runners, OpenDatabase(p)
    PROVE  ProcessInv'
<1>1. /\ At(p, "open_database") /\ Goto(p, "migrate") /\ UNCHANGED migrationVars
      /\ UNCHANGED tables /\ UNCHANGED nats
  BY DEF OpenDatabase
<1>2. lock # p /\ TablesGo(p, NoRunner) /\ NatsGo
  BY <1>1, Outside, TablesStay, NatsStays DEF At
<1>3. outbox'[p].state = "none"
  BY <1>1 DEF ProcessInv, ProcOK, At, Early, tables
<1>4. p \in Jetstream => nats'["stream"] = "ours" /\ nats'["consumer"] = "ours"
  BY <1>1 DEF ProcessInv, ProcOK, At, OverStream, OverConsumer
<1>5. proc[p].pc \in Early \cup Working /\ proc[p].pc # "consume"
  BY <1>1 DEF At, Early
<1>6. "migrate" \in Early \cup Working /\ "migrate" \notin Working
  BY DEF Early, Working
<1> QED
  BY <1>1, <1>2, <1>3, <1>4, <1>5, <1>6, WalkKeeps

LEMMA MigrateKeeps ==
    ASSUME ProcessInv, NEW p \in Runners, Migrate(p)
    PROVE  ProcessInv'
<1>1. /\ At(p, "migrate") /\ MigrationStep(p) /\ UNCHANGED proc /\ UNCHANGED tables
      /\ UNCHANGED nats
  BY DEF Migrate
<1>2. MigrationsGo(p)
  BY <1>1, MigrationsAssumption, MigrationStepKeeps DEF ProcessInv, MigrationsGo
<1>3. TablesGo(p, NoRunner) /\ NatsGo
  BY <1>1, TablesStay, NatsStays
<1>4. PICK x \in Procs : x = proc[p]
  BY DEF ProcessInv, ProcessTypes
<1>5. proc' = [proc EXCEPT ![p] = x]
  BY <1>1, <1>4 DEF ProcessInv, ProcessTypes
<1>6. x.pc = "migrate" /\ ProcOK(p)
  BY <1>1, <1>4 DEF At, ProcessInv
<1>7. "migrate" \notin Working
  BY DEF Working
<1>8. ProcOK(p)'
  BY <1>1, <1>4, <1>6, <1>7 DEF ProcOK, tables
<1> QED
  BY <1>2, <1>3, <1>4, <1>5, <1>8, StepKeeps

LEMMA MigratedKeeps ==
    ASSUME ProcessInv, NEW p \in Runners, Migrated(p)
    PROVE  ProcessInv'
<1>1. /\ At(p, "migrate") /\ run[p].pc = "ok" /\ Goto(p, "enqueue") /\ UNCHANGED migrationVars
      /\ UNCHANGED tables /\ UNCHANGED nats
  BY DEF Migrated
<1>2. lock # p /\ TablesGo(p, NoRunner) /\ NatsGo
  BY <1>1, Outside, TablesStay, NatsStays DEF InTransaction
<1>3. outbox'[p].state = "none"
  BY <1>1 DEF ProcessInv, ProcOK, At, Early, tables
<1>4. p \in Jetstream => nats'["stream"] = "ours" /\ nats'["consumer"] = "ours"
  BY <1>1 DEF ProcessInv, ProcOK, At, OverStream, OverConsumer
<1>5. proc[p].pc \in Early \cup Working /\ proc[p].pc # "consume"
  BY <1>1 DEF At, Early
<1>6. "enqueue" \in Early \cup Working
  BY DEF Early
<1> QED
  BY <1>1, <1>2, <1>3, <1>4, <1>5, <1>6, WalkKeeps

(***************************************************************************)
(* The rounds.                                                             *)
(***************************************************************************)
LEMMA AtWork ==
    ASSUME ProcessInv, NEW p \in Runners, proc[p].pc \in Working
    PROVE  /\ lock # p /\ run[p].pc = "ok" /\ proc[p].status = "none"
           /\ p \in Jetstream => nats["stream"] = "ours" /\ nats["consumer"] = "ours"
<1>1. proc[p].pc # "migrate" /\ proc[p].pc \notin {"closing", "exited"}
  BY DEF Working
<1>2. proc[p].pc \in OverStream /\ proc[p].pc \in OverConsumer
  BY DEF OverStream, OverConsumer
<1> QED
  BY <1>1, <1>2, Outside DEF ProcessInv, ProcOK

LEMMA WorkKeeps ==
    ASSUME ProcessInv, NEW p \in Runners, proc[p].pc \in Working, proc[p].pc # "consume",
           NEW c \in {"loop", "dispatch", "transfer", "select"}, Goto(p, c),
           TablesGo(p, NoRunner), UNCHANGED migrationVars, UNCHANGED nats
    PROVE  ProcessInv'
<1>1. c \in Early \cup Working /\ c \notin Early /\ c # "consume"
  BY DEF Early, Working
<1> QED
  BY <1>1, AtWork, WalkKeeps, NatsStays

LEMMA EnqueueKeeps ==
    ASSUME ProcessInv, NEW p \in Runners, Enqueue(p) \/ EnqueueReplyLost(p)
    PROVE  ProcessInv'
<1>1. /\ At(p, "enqueue") /\ outbox' = [outbox EXCEPT ![p] = Pending] /\ UNCHANGED migrationVars
      /\ UNCHANGED <<stream, mailbox>> /\ UNCHANGED nats
  BY DEF Enqueue, EnqueueReplyLost
<1>2. proc[p].pc \in Working /\ proc[p].pc # "consume" /\ proc[p].pc \in Early
  BY <1>1 DEF At, Working, Early
<1>3. outbox[p].state = "none"
  BY <1>2 DEF ProcessInv, ProcOK
<1>4. TablesGo(p, NoRunner)
  BY <1>1, <1>3, EnqueueTables
<1>5. CASE Enqueue(p)
  <2>1. Goto(p, "loop")
    BY <1>5 DEF Enqueue
  <2> QED
    BY <1>1, <1>2, <1>4, <2>1, WorkKeeps
<1>6. CASE EnqueueReplyLost(p)
  <2>1. Leave(p, "1")
    BY <1>6 DEF EnqueueReplyLost
  <2> QED
    BY <1>1, <1>2, <1>4, <2>1, AtWork, LeaveKeeps, NatsStays
<1> QED
  BY <1>5, <1>6

LEMMA RoundKeeps ==
    ASSUME ProcessInv, NEW p \in Runners, Round(p)
    PROVE  ProcessInv'
<1>1. At(p, "loop") /\ UNCHANGED migrationVars /\ UNCHANGED tables /\ UNCHANGED nats
  BY DEF Round
<1>2. proc[p].pc \in Working
  BY <1>1 DEF At, Working
<1>3. /\ lock # p /\ run[p].pc = "ok" /\ proc[p].status = "none"
      /\ p \in Jetstream => nats["stream"] = "ours" /\ nats["consumer"] = "ours"
  BY <1>2, AtWork
<1>4. MigrationsGo(p) /\ lock' = lock /\ run' = run /\ TablesGo(p, NoRunner) /\ NatsGo
  BY <1>1, MigrationsStay, TablesStay, NatsStays
<1>5. PICK y \in Procs : y = proc[p]
  BY DEF ProcessInv, ProcessTypes
<1>6. PICK k \in Nat : k = y.round + 1
  <2>1. y.round \in Nat
    BY DEF Procs
  <2>2. y.round + 1 \in Nat
    BY <2>1
  <2> QED
    BY <2>2
<1>7. PICK x : x = [y EXCEPT !.pc = "dispatch", !.round = k]
  OBVIOUS
<1>8. x \in Procs
  BY <1>7 DEF Procs, Working
<1>9. x.pc = "dispatch" /\ x.status = y.status /\ x.held = y.held
  BY <1>7 DEF Procs
<1>10. proc' = [proc EXCEPT ![p] = x]
  BY <1>5, <1>6, <1>7 DEF Round
<1>11. y.held = NoRunner
  BY <1>1, <1>5 DEF At, ProcessInv, ProcOK
<1>12. "dispatch" \notin Early
  BY DEF Early
<1> QED
  BY <1>1, <1>3, <1>4, <1>5, <1>8, <1>9, <1>10, <1>11, <1>12, MovingKeeps

LEMMA DispatchNothingKeeps ==
    ASSUME ProcessInv, NEW p \in Runners, DispatchNothing(p)
    PROVE  ProcessInv'
<1>1. /\ At(p, "dispatch") /\ outbox' = Swept /\ UNCHANGED migrationVars
      /\ UNCHANGED <<stream, mailbox>> /\ UNCHANGED nats
  BY DEF DispatchNothing
<1>2. proc[p].pc \in Working /\ proc[p].pc # "consume"
  BY <1>1 DEF At, Working
<1>3. TablesGo(p, NoRunner)
  BY <1>1, SweptTables
<1>4. PICK c \in {"transfer", "select"} : c = AfterDispatch(p)
  BY DEF AfterDispatch
<1>5. CASE Goto(p, AfterDispatch(p))
  BY <1>1, <1>2, <1>3, <1>4, <1>5, WorkKeeps
<1>6. CASE Leave(p, "1")
  BY <1>1, <1>2, <1>3, <1>6, AtWork, LeaveKeeps, NatsStays
<1> QED
  BY <1>5, <1>6 DEF DispatchNothing

LEMMA DispatchSendsKeeps ==
    ASSUME ProcessInv, NEW p \in Runners, NEW e \in Runners, DispatchSends(p, e)
    PROVE  ProcessInv'
<1>1. /\ At(p, "dispatch") /\ Claimable(e) /\ Published(p, e) /\ UNCHANGED migrationVars
      /\ UNCHANGED nats /\ Goto(p, AfterDispatch(p))
  BY DEF DispatchSends
<1>2. proc[p].pc \in Working /\ proc[p].pc # "consume"
  BY <1>1 DEF At, Working
<1>3. PICK row : row = Acked(outbox[e])
  OBVIOUS
<1>4. outbox' = [Swept EXCEPT ![e] = row]
  <2>1. Swept[e] = outbox[e]
    BY <1>1, SweptRows
  <2>2. outbox' = [Swept EXCEPT ![e] = Acked(Swept[e])]
    BY DEF DispatchSends
  <2> QED
    BY <1>3, <2>1, <2>2
<1>5. /\ row \in Rows /\ row.state # "none" /\ row.attempts > 0
      /\ row.state = "dead" => row.attempts = MaxAttempts
  BY <1>1, <1>3, RowsAfter
<1>6. TablesGo(p, NoRunner)
  BY <1>1, <1>4, <1>5, DispatchTables
<1>7. PICK c \in {"transfer", "select"} : c = AfterDispatch(p)
  BY DEF AfterDispatch
<1> QED
  BY <1>1, <1>2, <1>6, <1>7, WorkKeeps

LEMMA DispatchFailsKeeps ==
    ASSUME ProcessInv, NEW p \in Runners, NEW e \in Runners, DispatchFails(p, e)
    PROVE  ProcessInv'
<1>1. /\ At(p, "dispatch") /\ Claimable(e) /\ UNCHANGED migrationVars /\ UNCHANGED nats
      /\ Leave(p, "1")
  BY DEF DispatchFails
<1>2. proc[p].pc \in Working /\ proc[p].pc # "consume"
  BY <1>1 DEF At, Working
<1>3. PICK row \in {Acked(outbox[e]), Released(outbox[e]), Leased(outbox[e])} :
        /\ outbox' = [Swept EXCEPT ![e] = row]
        /\ \/ Published(p, e)
           \/ /\ UNCHANGED <<stream, mailbox>>
              /\ row \in {Released(outbox[e]), Leased(outbox[e])}
  BY DEF DispatchFails
<1>4. /\ row \in Rows /\ row.state # "none" /\ row.attempts > 0
      /\ row.state = "dead" => row.attempts = MaxAttempts
  BY <1>1, <1>3, RowsAfter
<1>5. row \in {Released(outbox[e]), Leased(outbox[e])} => row.state # "sent"
  <2>1. PICK o \in Rows : o = outbox[e]
    BY DEF ProcessInv, ProcessTypes
  <2>2. o.state = "pending"
    BY <1>1, <2>1 DEF Claimable
  <2>3. Leased(o).state = "pending" /\ Released(o).state \in {"dead", "pending"}
    BY <2>2 DEF Leased, Released, Rows
  <2> QED
    BY <2>1, <2>3
<1>6. TablesGo(p, NoRunner)
  BY <1>1, <1>3, <1>4, <1>5, DispatchTables
<1> QED
  BY <1>1, <1>2, <1>6, AtWork, LeaveKeeps, NatsStays

LEMMA TransferNothingKeeps ==
    ASSUME ProcessInv, NEW p \in Runners, TransferNothing(p) \/ SelectNothing(p)
    PROVE  ProcessInv'
<1>1. At(p, "transfer") \/ At(p, "select")
  BY DEF TransferNothing, SelectNothing
<1>2. proc[p].pc \in Working /\ proc[p].pc # "consume"
  BY <1>1 DEF At, Working
<1>3. PICK c \in {"select", "loop"} : Goto(p, c)
  BY DEF TransferNothing, SelectNothing
<1>4. UNCHANGED tables /\ UNCHANGED nats /\ UNCHANGED migrationVars
  BY DEF TransferNothing, SelectNothing
<1> QED
  BY <1>2, <1>3, <1>4, WorkKeeps, TablesStay

LEMMA TransferKeeps ==
    ASSUME ProcessInv, NEW p \in Runners, NEW e \in Runners, Transfer(p, e)
    PROVE  ProcessInv'
<1>1. /\ At(p, "transfer") /\ stream[e] = "stored" /\ UNCHANGED outbox
      /\ mailbox' = [mailbox EXCEPT ![e] = IF @ = "none" THEN "pending" ELSE @]
      /\ stream' = [stream EXCEPT ![e] = "acked"] \/ stream' = stream
  BY DEF Transfer
<1>2. UNCHANGED migrationVars /\ UNCHANGED nats
  BY DEF Transfer
<1>3. proc[p].pc \in Working /\ proc[p].pc # "consume"
  BY <1>1 DEF At, Working
<1>4. TablesGo(p, NoRunner)
  BY <1>1, TransferTables
<1>5. CASE Goto(p, "select")
  BY <1>2, <1>3, <1>4, <1>5, WorkKeeps
<1>6. CASE Leave(p, "1")
  BY <1>2, <1>3, <1>4, <1>6, AtWork, LeaveKeeps, NatsStays
<1> QED
  BY <1>5, <1>6 DEF Transfer

(***************************************************************************)
(* consume() locks a row that nobody has locked.                           *)
(***************************************************************************)
LEMMA SelectKeeps ==
    ASSUME ProcessInv, NEW p \in Runners, NEW e \in Runners, Select(p, e)
    PROVE  ProcessInv'
<1>1. /\ At(p, "select") /\ mailbox[e] = "pending" /\ (\A q \in Runners : proc[q].held # e)
      /\ UNCHANGED migrationVars /\ UNCHANGED tables /\ UNCHANGED nats
  BY DEF Select
<1>2. proc[p].pc \in Working
  BY <1>1 DEF At, Working
<1>3. /\ lock # p /\ run[p].pc = "ok" /\ proc[p].status = "none"
      /\ p \in Jetstream => nats["stream"] = "ours" /\ nats["consumer"] = "ours"
  BY <1>2, AtWork
<1>4. MigrationsGo(p) /\ lock' = lock /\ run' = run /\ TablesGo(p, NoRunner) /\ NatsGo
  BY <1>1, MigrationsStay, TablesStay, NatsStays
<1>5. PICK y \in Procs : y = proc[p]
  BY DEF ProcessInv, ProcessTypes
<1>6. PICK x : x = [y EXCEPT !.pc = "consume", !.held = e]
  OBVIOUS
<1>7. x \in Procs /\ x.pc = "consume" /\ x.status = y.status /\ x.held = e
  BY <1>6 DEF Procs, Working
<1>8. proc' = [proc EXCEPT ![p] = x]
  BY <1>5, <1>6 DEF Select
<1>9. proc'[p] = x
  BY <1>8 DEF ProcessInv, ProcessTypes
<1>10. "consume" \notin Early
  BY DEF Early
<1>11. mailbox' = mailbox
  BY <1>1 DEF tables
<1>12. ProcOK(p)'
  BY <1>1, <1>3, <1>4, <1>5, <1>7, <1>9, <1>10, <1>11 DEF ProcOK
<1> QED
  BY <1>1, <1>4, <1>7, <1>8, <1>12, StepKeeps

LEMMA ConsumeKeeps ==
    ASSUME ProcessInv, NEW p \in Runners, Consume(p) \/ ConsumeReplyLost(p)
    PROVE  ProcessInv'
<1>1. At(p, "consume") /\ Processed(p) /\ UNCHANGED <<outbox, stream>>
  BY DEF Consume, ConsumeReplyLost
<1>2. UNCHANGED migrationVars /\ UNCHANGED nats
  BY DEF Consume, ConsumeReplyLost
<1>3. PICK e : e = proc[p].held
  OBVIOUS
<1>4. TablesGo(p, e) /\ mailbox'[e] = "processed"
  BY <1>1, <1>3, ConsumeTables
<1>5. proc[p].pc \in Working
  BY <1>1 DEF At, Working
<1>6. /\ lock # p /\ run[p].pc = "ok" /\ proc[p].status = "none"
      /\ p \in Jetstream => nats["stream"] = "ours" /\ nats["consumer"] = "ours"
  BY <1>5, AtWork
<1>7. MigrationsGo(p) /\ lock' = lock /\ run' = run /\ NatsGo
  BY <1>2, MigrationsStay, NatsStays
<1>8. CASE Leave(p, "0") /\ e = p
  <2>1. proc' = [proc EXCEPT ![p] = [NewProcess EXCEPT !.pc = "closing", !.status = "0"]]
    BY <1>8 DEF Leave
  <2>2. mailbox'[p] = "processed"
    BY <1>4, <1>8
  <2> QED
    BY <1>3, <1>4, <1>6, <1>7, <2>1, <2>2, LeavingKeeps
<1>9. CASE Leave(p, "1")
  BY <1>2, <1>3, <1>4, <1>6, <1>7, <1>9, LeaveKeeps
<1>10. CASE proc' = [proc EXCEPT ![p].pc = "loop", ![p].held = NoRunner]
  <2>1. PICK y \in Procs : y = proc[p]
    BY DEF ProcessInv, ProcessTypes
  <2>2. PICK x : x = [y EXCEPT !.pc = "loop", !.held = NoRunner]
    OBVIOUS
  <2>3. x \in Procs /\ x.pc = "loop" /\ x.status = y.status /\ x.held = NoRunner
    BY <2>2 DEF Procs, Working
  <2>4. proc' = [proc EXCEPT ![p] = x]
    BY <1>10, <2>1, <2>2
  <2>5. "loop" \notin Early
    BY DEF Early
  <2> QED
    BY <1>2, <1>3, <1>4, <1>6, <1>7, <2>1, <2>3, <2>4, <2>5, MovingKeeps
<1> QED
  BY <1>3, <1>8, <1>9, <1>10 DEF Consume, ConsumeReplyLost

(***************************************************************************)
(* The ways out.                                                           *)
(***************************************************************************)
LEMMA ThrowsKeeps ==
    ASSUME ProcessInv, NEW p \in Runners, Throws(p)
    PROVE  ProcessInv'
<1>1. /\ MayThrow(p) /\ Leave(p, "1") /\ UNCHANGED migrationVars /\ UNCHANGED tables
      /\ UNCHANGED nats
  BY DEF Throws
<1>2. lock # p
  BY <1>1, Outside DEF MayThrow, At, InTransaction
<1> QED
  BY <1>1, <1>2, LeaveKeeps, TablesStay, NatsStays

LEMMA CloseAllKeeps ==
    ASSUME ProcessInv, NEW p \in Runners, CloseAll(p)
    PROVE  ProcessInv'
<1>1. /\ At(p, "closing") /\ Restart(p, <<>>) /\ UNCHANGED tables /\ UNCHANGED nats
  BY DEF CloseAll
<1>2. lock # p /\ MigrationInv /\ <<>> \in Seq(Migration)
  BY <1>1, Outside DEF At, ProcessInv
<1>3. MigrationInv'
  BY <1>1, <1>2, RestartKeeps
<1>4. lock' = lock /\ \A q \in Runners : q # p => run'[q] = run[q]
  BY <1>1, <1>2 DEF Restart, MigrationInv
<1>5. MigrationsGo(p) /\ TablesGo(p, NoRunner) /\ NatsGo
  BY <1>1, <1>3, <1>4, TablesStay, NatsStays DEF MigrationsGo
<1>6. PICK s \in {"none", "0", "1", "2", "killed"} : s = proc[p].status
  BY DEF ProcessInv, ProcessTypes, Procs
<1>7. proc' = [proc EXCEPT ![p] = [NewProcess EXCEPT !.pc = "exited", !.status = s]]
  BY <1>6 DEF CloseAll, Exited
<1>8. /\ s = "0" => mailbox'[p] = "processed"
      /\ s = "2" => outbox'[p].state = "none"
  BY <1>1, <1>6 DEF ProcessInv, ProcOK, tables
<1> QED
  BY <1>2, <1>4, <1>5, <1>7, <1>8, LeavingKeeps

LEMMA KilledKeeps ==
    ASSUME ProcessInv, NEW p \in Runners, Killed(p)
    PROVE  ProcessInv'
<1>1. Die(p) /\ UNCHANGED tables /\ UNCHANGED nats
  BY DEF Killed
<1>2. MigrationInv' /\ lock' # p
  BY <1>1, MigrationsAssumption, DieKeeps DEF ProcessInv
<1>3. /\ \A q \in Runners : q # p => run'[q] = run[q]
      /\ \A q \in Runners : q # p => (lock' = q => lock = q)
  BY <1>1, MigrationsAssumption DEF Die, ProcessInv, MigrationInv
<1>4. MigrationsGo(p) /\ TablesGo(p, NoRunner) /\ NatsGo
  BY <1>1, <1>2, <1>3, TablesStay, NatsStays DEF MigrationsGo
<1>5. proc' = [proc EXCEPT ![p] = [NewProcess EXCEPT !.pc = "exited", !.status = "killed"]]
  BY DEF Killed, Exited
<1> QED
  BY <1>2, <1>4, <1>5, LeavingKeeps

LEMMA RelaunchKeeps ==
    ASSUME ProcessInv, NEW p \in Runners, Relaunch(p)
    PROVE  ProcessInv'
<1>1. /\ At(p, "exited") /\ outbox[p].state = "none" /\ UNCHANGED migrationVars
      /\ UNCHANGED tables /\ UNCHANGED nats
  BY DEF Relaunch
<1>2. lock # p
  BY <1>1, Outside DEF At
<1>3. MigrationsGo(p) /\ lock' = lock /\ TablesGo(p, NoRunner) /\ NatsGo
  BY <1>1, MigrationsStay, TablesStay, NatsStays
<1>4. PICK x : x = NewProcess
  OBVIOUS
<1>5. x \in Procs /\ x.pc = "load" /\ x.status = "none" /\ x.held = NoRunner
  BY <1>4 DEF NewProcess, Procs, Early
<1>6. proc' = [proc EXCEPT ![p] = x]
  BY <1>4 DEF Relaunch
<1>7. "load" \notin Working /\ "load" \notin OverStream /\ "load" \notin OverConsumer
  BY DEF Working, OverStream, OverConsumer
<1>8. outbox'[p].state = "none"
  BY <1>1 DEF tables
<1> QED
  BY <1>2, <1>3, <1>5, <1>6, <1>7, <1>8, MovingKeeps

LEMMA StopSignalKeeps ==
    ASSUME ProcessInv, NEW p \in Runners, StopSignal(p)
    PROVE  ProcessInv'
<1>1. UNCHANGED migrationVars /\ UNCHANGED tables /\ UNCHANGED nats
  BY DEF StopSignal
<1>2. MigrationsGo(p) /\ lock' = lock /\ run' = run /\ TablesGo(p, NoRunner) /\ NatsGo
  BY <1>1, MigrationsStay, TablesStay, NatsStays
<1>3. PICK y \in Procs : y = proc[p]
  BY DEF ProcessInv, ProcessTypes
<1>4. PICK x : x = [y EXCEPT !.stop = TRUE]
  OBVIOUS
<1>5. x \in Procs /\ x.pc = y.pc /\ x.status = y.status /\ x.held = y.held
  BY <1>4 DEF Procs
<1>6. proc' = [proc EXCEPT ![p] = x]
  BY <1>3, <1>4 DEF StopSignal
<1>7. proc'[p] = x
  BY <1>6 DEF ProcessInv, ProcessTypes
<1>8. ProcOK(p)
  BY DEF ProcessInv
<1>9. ProcOK(p)'
  BY <1>1, <1>2, <1>3, <1>5, <1>7, <1>8 DEF ProcOK, tables
<1> QED
  BY <1>2, <1>3, <1>5, <1>6, <1>9, StepKeeps

(***************************************************************************)
(* What happens to no process: time passes, somebody else is faster.       *)
(***************************************************************************)
LEMMA NobodyMoves ==
    ASSUME ProcessInv, UNCHANGED migrationVars, UNCHANGED proc,
           TablesGo(NoRunner, NoRunner), NatsGo
    PROVE  ProcessInv'
<1>1. MigrationsGo(NoRunner) /\ proc' = proc
  BY MigrationsStay
<1>2. \A q \in Runners : ProcOK(q)'
  BY <1>1, MigrationsAssumption, OthersKept
<1>3. ProcessTypes'
  BY <1>1 DEF ProcessInv, ProcessTypes, TablesGo, NatsGo
<1>4. \A e \in Runners : RowOK(outbox'[e], stream'[e], mailbox'[e])
  BY DEF TablesGo
<1>5. OneHolder'
  BY <1>1 DEF ProcessInv, OneHolder
<1> QED
  BY <1>1, <1>2, <1>3, <1>4, <1>5 DEF ProcessInv, MigrationsGo

LEMMA TimePassesKeeps ==
    ASSUME ProcessInv, NEW e \in Runners, TimePasses(e)
    PROVE  ProcessInv'
<1>1. UNCHANGED migrationVars /\ UNCHANGED proc /\ UNCHANGED <<stream, mailbox>> /\ UNCHANGED nats
  BY DEF TimePasses
<1>2. ProcessTypes
  BY DEF ProcessInv
<1>3. PICK o \in Rows : o = outbox[e]
  BY <1>2 DEF ProcessTypes
<1>4. PICK row : row = [o EXCEPT !.hold = "no"]
  OBVIOUS
<1>5. row \in Rows /\ row.state = o.state /\ row.attempts = o.attempts
  BY <1>4 DEF Rows
<1>6. outbox' = [outbox EXCEPT ![e] = row]
  BY <1>3, <1>4 DEF TimePasses
<1>7. /\ outbox' \in [Runners -> Rows]
      /\ \A f \in Runners : /\ outbox'[f].state = outbox[f].state
                            /\ outbox'[f].attempts = outbox[f].attempts
  BY <1>2, <1>3, <1>5, <1>6 DEF ProcessTypes
<1>8. stream' = stream /\ mailbox' = mailbox
  BY <1>1
<1>9. ASSUME NEW f \in Runners PROVE RowOK(outbox'[f], stream'[f], mailbox'[f])
  <2>1. RowOK(outbox[f], stream[f], mailbox[f])
    BY DEF ProcessInv
  <2> QED
    BY <1>7, <1>8, <2>1 DEF RowOK
<1>10. TablesGo(NoRunner, NoRunner)
  BY <1>2, <1>7, <1>8, <1>9 DEF TablesGo, ProcessTypes
<1> QED
  BY <1>1, <1>10, NobodyMoves, NatsStays

LEMMA ForeignCreateKeeps ==
    ASSUME ProcessInv, NEW t \in {"stream", "consumer"}, ForeignCreate(t)
    PROVE  ProcessInv'
<1>1. UNCHANGED migrationVars /\ UNCHANGED proc /\ UNCHANGED tables
  BY DEF ForeignCreate
<1>2. NatsGo
  BY DEF ForeignCreate, NatsGo, ProcessInv, ProcessTypes
<1> QED
  BY <1>1, <1>2, NobodyMoves, TablesStay

-----------------------------------------------------------------------------
(***************************************************************************)
(* The invariant holds when the processes are started ...                  *)
(***************************************************************************)
LEMMA ProcessStart ==
    ASSUME ProcessInit
    PROVE  ProcessInv
<1>1. NoRunner \notin Runners /\ MaxAttempts \in Nat
  BY MigrationsAssumption, EventProcessAssumption
<1>2. PICK n : n = NewRun(<<>>)
  OBVIOUS
<1>3. n \in Runs /\ RunOK(n, <<>>) /\ n.pc = "start"
  <2>1. <<>> \in Seq(Migration)
    OBVIOUS
  <2>2. "start" \in {"start", "ok", "uncertain", "invalid", "drift", "failed"} /\ "start" # "ok"
    OBVIOUS
  <2> QED
    BY <1>2, <2>1, <2>2, NewRunFits
<1>4. MigrationInv
  <2>1. ledger = <<>> /\ schema = <<>> /\ lock = NoRunner /\ run = [r \in Runners |-> n]
    BY <1>2 DEF ProcessInit, MigrationsInit
  <2>2. OneStory(schema, ledger) /\ ledger \in Seq(Migration) /\ schema \in Seq(Texts)
    BY <2>1 DEF OneStory
  <2>3. run \in [Runners -> Runs] /\ \A r \in Runners : run[r] = n
    BY <1>3, <2>1
  <2>4. n.pc \notin InTransaction
    BY <1>3 DEF InTransaction
  <2> QED
    BY <1>1, <1>3, <2>1, <2>2, <2>3, <2>4 DEF MigrationInv
<1>5. PICK x : x = NewProcess
  OBVIOUS
<1>6. x \in Procs /\ x.pc = "load" /\ x.status = "none" /\ x.held = NoRunner
  BY <1>5 DEF NewProcess, Procs, Early
<1>7. PICK row : row = [state |-> "none", attempts |-> 0, hold |-> "no"]
  OBVIOUS
<1>8. row \in Rows /\ row.state = "none" /\ row.attempts = 0
  <2>1. 0 \in 0..MaxAttempts
    BY <1>1
  <2> QED
    BY <1>7, <2>1 DEF Rows
<1>9. /\ proc = [p \in Runners |-> x] /\ outbox = [e \in Runners |-> row]
      /\ stream = [e \in Runners |-> "none"] /\ mailbox = [e \in Runners |-> "none"]
      /\ nats \in [{"stream", "consumer"} -> {"absent", "other"}]
  BY <1>5, <1>7 DEF ProcessInit
<1>10. /\ \A p \in Runners : proc[p] = x /\ outbox[p] = row
       /\ \A p \in Runners : stream[p] = "none" /\ mailbox[p] = "none"
  BY <1>9
<1>11. ProcessTypes
  BY <1>6, <1>8, <1>9 DEF ProcessTypes
<1>12. \A e \in Runners : RowOK(outbox[e], stream[e], mailbox[e])
  BY <1>8, <1>10 DEF RowOK
<1>13. lock = NoRunner
  BY DEF ProcessInit, MigrationsInit
<1>14. "load" \notin Working /\ "load" \notin OverStream /\ "load" \notin OverConsumer
  BY DEF Working, OverStream, OverConsumer
<1>15. \A p \in Runners : ProcOK(p)
  BY <1>1, <1>6, <1>8, <1>10, <1>13, <1>14 DEF ProcOK
<1>16. OneHolder
  BY <1>6, <1>10 DEF OneHolder
<1> QED
  BY <1>4, <1>11, <1>12, <1>15, <1>16 DEF ProcessInv

(***************************************************************************)
(* ... and every step keeps it.                                            *)
(***************************************************************************)
LEMMA ProcessStepKeeps ==
    ASSUME ProcessInv, NEW p \in Runners, ProcessStep(p)
    PROVE  ProcessInv'
<1>1. CASE \/ Refused(p) \/ (\E l \in Lists : Load(p, l)) \/ ConnectBroker(p) \/ Info(p)
           \/ Create(p) \/ CreateReplyLost(p) \/ OpenDatabase(p) \/ Migrate(p) \/ Migrated(p)
  BY <1>1, RefusedKeeps, LoadKeeps, ConnectKeeps, InfoKeeps, CreateKeeps,
     CreateReplyLostKeeps, OpenDatabaseKeeps, MigrateKeeps, MigratedKeeps
<1>2. CASE \/ Enqueue(p) \/ EnqueueReplyLost(p) \/ Round(p) \/ DispatchNothing(p)
           \/ \E e \in Runners : DispatchSends(p, e) \/ DispatchFails(p, e)
  BY <1>2, EnqueueKeeps, RoundKeeps, DispatchNothingKeeps, DispatchSendsKeeps,
     DispatchFailsKeeps
<1>3. CASE \/ TransferNothing(p) \/ (\E e \in Runners : Transfer(p, e) \/ Select(p, e))
           \/ SelectNothing(p) \/ Consume(p) \/ ConsumeReplyLost(p)
  BY <1>3, TransferNothingKeeps, TransferKeeps, SelectKeeps, ConsumeKeeps
<1>4. CASE Throws(p) \/ CloseAll(p)
  BY <1>4, ThrowsKeeps, CloseAllKeeps
<1> QED
  BY <1>1, <1>2, <1>3, <1>4 DEF ProcessStep

LEMMA ProcessNextKeeps ==
    ASSUME ProcessInv, [ProcessNext]_processVars
    PROVE  ProcessInv'
<1>1. CASE UNCHANGED processVars
  <2>1. UNCHANGED migrationVars /\ UNCHANGED proc /\ UNCHANGED tables /\ UNCHANGED nats
    BY <1>1 DEF processVars, tables
  <2> QED
    BY <2>1, NobodyMoves, TablesStay, NatsStays
<1>2. ASSUME NEW p \in Runners,
             ProcessStep(p) \/ StopSignal(p) \/ Killed(p) \/ Relaunch(p) \/ TimePasses(p)
      PROVE  ProcessInv'
  BY <1>2, ProcessStepKeeps, StopSignalKeeps, KilledKeeps, RelaunchKeeps, TimePassesKeeps
<1>3. ASSUME NEW t \in {"stream", "consumer"}, ForeignCreate(t)
      PROVE  ProcessInv'
  BY <1>3, ForeignCreateKeeps
<1> QED
  BY <1>1, <1>2, <1>3 DEF ProcessNext

(***************************************************************************)
(* The processes' tables, migrations and claims fit together after any     *)
(* interleaving of any number of processes of any releases.                *)
(***************************************************************************)
THEOREM ProcessInvariant == ProcessSpec => []ProcessInv
<1>1. ProcessInit => ProcessInv
  BY ProcessStart
<1>2. ProcessInv /\ [ProcessNext]_processVars => ProcessInv'
  BY ProcessNextKeeps
<1> QED
  BY <1>1, <1>2, PTL DEF ProcessSpec

(***************************************************************************)
(* The exit status of events-example.ts: 0 is only left by a process whose *)
(* own event was consumed, 2 by one that recorded nothing.                 *)
(***************************************************************************)
THEOREM ExitStatusCorrect == ProcessSpec => []ExitStatusIsTrue
<1>1. ProcessInv => ExitStatusIsTrue
  BY DEF ProcessInv, ProcOK, ExitStatusIsTrue
<1> QED
  BY <1>1, ProcessInvariant, PTL

(***************************************************************************)
(* A recorded event is never lost between outbox, stream and mailbox, for  *)
(* any number of processes that dispatch, transfer and consume it.         *)
(***************************************************************************)
THEOREM RecordedCorrect == ProcessSpec => []RecordedIsKept
<1>1. ProcessInv => RecordedIsKept
  BY DEF ProcessInv, RowOK, RecordedIsKept
<1> QED
  BY <1>1, ProcessInvariant, PTL

(***************************************************************************)
(* runEvents works on the tables only over its own history, its own stream *)
(* and its own consumer; a mailbox row has one holder, while it is         *)
(* pending; whoever has left holds neither a row nor the lock.             *)
(***************************************************************************)
THEOREM OwnershipCorrect == ProcessSpec => []ResourcesAreOwned
<1>1. ASSUME ProcessInv, NEW p \in Runners, proc[p].pc \in Working
      PROVE  /\ IsPrefix(run[p].list, ledger)
             /\ p \in Jetstream => nats["stream"] = "ours" /\ nats["consumer"] = "ours"
  <2>1. run[p].pc = "ok" /\ run[p] \in Runs /\ ledger \in Seq(Migration)
    BY <1>1, AtWork DEF ProcessInv, MigrationInv
  <2>2. Begins(run[p].list, ledger)
    BY <1>1, <2>1 DEF ProcessInv, MigrationInv, RunOK
  <2>3. run[p].list \in Seq(Migration)
    BY <2>1 DEF Runs
  <2> QED
    BY <1>1, <2>1, <2>2, <2>3, AtWork, BeginsIsPrefix
<1>2. ASSUME ProcessInv, NEW p \in Runners
      PROVE  /\ proc[p].held # NoRunner =>
                  /\ mailbox[proc[p].held] = "pending"
                  /\ \A q \in Runners : proc[q].held = proc[p].held => q = p
             /\ proc[p].held # NoRunner => At(p, "consume")
             /\ lock = p => At(p, "migrate")
  BY <1>2 DEF ProcessInv, ProcOK, OneHolder, At
<1>3. ProcessInv => ResourcesAreOwned
  BY <1>1, <1>2 DEF ResourcesAreOwned
<1> QED
  BY <1>3, ProcessInvariant, PTL

(***************************************************************************)
(* The steps that reach the history, the schema, the lock or a runner.     *)
(***************************************************************************)
LEMMA WhoMigrates ==
    ASSUME [ProcessNext]_processVars, migrationVars' # migrationVars
    PROVE  \E p \in Runners : MigrationStep(p) \/ (\E l : Restart(p, l)) \/ Die(p)
<1>1. ~UNCHANGED processVars
  BY DEF processVars
<1>2. ASSUME NEW p \in Runners, ProcessStep(p)
      PROVE  MigrationStep(p) \/ \E l : Restart(p, l)
  BY <1>2 DEF ProcessStep, Refused, Load, ConnectBroker, Info, Create, CreateReplyLost,
     OpenDatabase, Migrate, Migrated, Enqueue, EnqueueReplyLost, Round, DispatchNothing,
     DispatchSends, DispatchFails, TransferNothing, Transfer, Select, SelectNothing,
     Consume, ConsumeReplyLost, Throws, CloseAll
<1>3. ASSUME NEW p \in Runners, StopSignal(p) \/ Killed(p) \/ Relaunch(p) \/ TimePasses(p)
      PROVE  Die(p)
  BY <1>3 DEF StopSignal, Killed, Relaunch, TimePasses
<1>4. ASSUME NEW t, ForeignCreate(t)
      PROVE  FALSE
  BY <1>4 DEF ForeignCreate
<1> QED
  BY <1>1, <1>2, <1>3, <1>4 DEF ProcessNext

(***************************************************************************)
(* Contract D05 of Database.migrate: however many releases race, fail and  *)
(* are restarted, every recorded migration was executed once, in version   *)
(* order, and nothing else was; and success is reported only over the      *)
(* runner's own list.                                                      *)
(***************************************************************************)
THEOREM MigrationsCorrect == ProcessSpec => MigrationsAreSound
<1>1. ASSUME ProcessInv PROVE SchemaMatchesLedger
  <2>1. ledger \in Seq(Migration) /\ schema \in Seq(Texts) /\ OneStory(schema, ledger)
    BY <1>1 DEF ProcessInv, MigrationInv
  <2>2. /\ DOMAIN ledger = 1..Len(ledger) /\ DOMAIN schema = 1..Len(schema)
        /\ schema = [i \in 1..Len(schema) |-> schema[i]]
    BY <2>1
  <2>3. Len(schema) = Len(ledger) /\ \A i \in 1..Len(ledger) : schema[i] = ledger[i].sql
    BY <2>1 DEF OneStory
  <2>4. schema = [i \in DOMAIN ledger |-> ledger[i].sql]
    BY <2>2, <2>3
  <2> QED
    BY <2>1, <2>4 DEF OneStory, SchemaMatchesLedger
<1>2. ASSUME ProcessInv, [ProcessNext]_processVars, migrationVars' # migrationVars
      PROVE  SuccessMeansMyHistory
  <2>1. MigrationInv /\ run \in [Runners -> Runs] /\ NoRunner \notin Runners
    BY <1>2, MigrationsAssumption DEF ProcessInv, MigrationInv
  <2>2. PICK p \in Runners : MigrationStep(p) \/ (\E l : Restart(p, l)) \/ Die(p)
    BY <1>2, WhoMigrates
  <2>3. CASE MigrationStep(p)
    <3>1. /\ \A q \in Runners : q # p => run'[q] = run[q]
          /\ run[p].pc # "ok" /\ run'[p].pc = "ok" => ledger' = run[p].list
      BY <2>1, <2>3, MigrationStepKeeps
    <3> QED
      BY <3>1 DEF SuccessMeansMyHistory
  <2>4. CASE (\E l : Restart(p, l)) \/ Die(p)
    <3>1. (\A q \in Runners : q # p => run'[q] = run[q]) /\ run'[p].pc = "start"
      BY <2>1, <2>4 DEF Restart, Die, NewRun
    <3> QED
      BY <3>1 DEF SuccessMeansMyHistory
  <2> QED
    BY <2>2, <2>3, <2>4
<1>3. ProcessInv /\ ProcessInv' /\ [ProcessNext]_processVars
        => [SchemaMatchesLedger' /\ SuccessMeansMyHistory]_migrationVars
  <2>1. ASSUME ProcessInv' PROVE SchemaMatchesLedger'
    <3>1. ProcessInv => SchemaMatchesLedger
      BY <1>1
    <3> QED
      BY <1>1, <2>1, <3>1, PTL
  <2> QED
    BY <1>2, <2>1
<1> QED
  BY <1>3, ProcessInvariant, PTL DEF ProcessSpec, MigrationsAreSound

-----------------------------------------------------------------------------
\* The ways in which a step moves its process.
Leaves(p) ==
    /\ ~At(p, "exited")
    /\ proc'[p].pc \in (IF At(p, "closing") THEN {"exited"} ELSE {"closing", "exited"})
    /\ proc'[p].round = 0

Walks(p) ==
    /\ proc'[p].round = proc[p].round
    /\ \/ At(p, "load") /\ proc'[p].pc \in Starting
       \/ /\ proc[p].pc \in Starting /\ proc'[p].pc \in Starting
          /\ Order[proc'[p].pc] < Order[proc[p].pc] /\ run'[p] = run[p]
       \/ /\ At(p, "migrate") /\ proc'[p].pc = "migrate"
          /\ 0 <= MigrationLeft(run'[p]) /\ MigrationLeft(run'[p]) < MigrationLeft(run[p])
       \/ At(p, "migrate") /\ proc'[p].pc = "enqueue"
       \/ /\ proc[p].pc \in Working /\ proc'[p].pc \in Working
          /\ Order[proc'[p].pc] < Order[proc[p].pc]

Counts(p) ==
    /\ At(p, "loop") /\ proc'[p].pc = "dispatch"
    /\ proc[p].round < MaxRounds /\ proc'[p].round = proc[p].round + 1

Alone(p) == \A q \in Runners : q # p => proc'[q] = proc[q] /\ run'[q] = run[q]

(***************************************************************************)
(* The order of the places.                                                *)
(***************************************************************************)
LEMMA OrderOfPlaces ==
    /\ Order["connect"] = 6 /\ Order["stream_info"] = 5 /\ Order["stream_create"] = 4
    /\ Order["consumer_info"] = 3 /\ Order["consumer_create"] = 2
    /\ Order["open_database"] = 1 /\ Order["migrate"] = 0 /\ Order["enqueue"] = 5
    /\ Order["dispatch"] = 4 /\ Order["transfer"] = 3 /\ Order["select"] = 2
    /\ Order["consume"] = 1 /\ Order["loop"] = 0
BY DEF Order

(***************************************************************************)
(* A process moved by Goto keeps its round, and nobody else moves.         *)
(***************************************************************************)
LEMMA GotoMoves ==
    ASSUME ProcessInv, NEW p \in Runners, NEW c, Goto(p, c)
    PROVE  /\ proc'[p].pc = c /\ proc'[p].round = proc[p].round
           /\ \A q \in Runners : q # p => proc'[q] = proc[q]
<1>1. PICK y \in Procs : y = proc[p] /\ proc \in [Runners -> Procs]
  BY DEF ProcessInv, ProcessTypes
<1>2. PICK x : x = [y EXCEPT !.pc = c]
  OBVIOUS
<1>3. x.pc = c /\ x.round = y.round
  BY <1>2 DEF Procs
<1>4. proc' = [proc EXCEPT ![p] = x]
  BY <1>1, <1>2 DEF Goto
<1>5. proc'[p] = x /\ \A q \in Runners : q # p => proc'[q] = proc[q]
  BY <1>1, <1>4
<1> QED
  BY <1>1, <1>3, <1>5

(***************************************************************************)
(* A process that leaves, and one that exits.                              *)
(***************************************************************************)
LEMMA LeaveMoves ==
    ASSUME ProcessInv, NEW p \in Runners, NEW s,
           \/ Leave(p, s) /\ proc[p].pc \notin {"closing", "exited"}
           \/ proc' = [proc EXCEPT ![p] = Exited(s)] /\ ~At(p, "exited")
    PROVE  Leaves(p) /\ \A q \in Runners : q # p => proc'[q] = proc[q]
<1>1. proc \in [Runners -> Procs]
  BY DEF ProcessInv, ProcessTypes
<1>2. CASE Leave(p, s) /\ proc[p].pc \notin {"closing", "exited"}
  <2>1. PICK x : x = [NewProcess EXCEPT !.pc = "closing", !.status = s]
    OBVIOUS
  <2>2. x.pc = "closing" /\ x.round = 0
    BY <2>1 DEF NewProcess
  <2>3. proc'[p] = x /\ \A q \in Runners : q # p => proc'[q] = proc[q]
    BY <1>1, <1>2, <2>1 DEF Leave
  <2> QED
    BY <1>2, <2>2, <2>3 DEF Leaves, At
<1>3. CASE proc' = [proc EXCEPT ![p] = Exited(s)] /\ ~At(p, "exited")
  <2>1. PICK x : x = Exited(s)
    OBVIOUS
  <2>2. x.pc = "exited" /\ x.round = 0
    BY <2>1 DEF Exited, NewProcess
  <2>3. proc'[p] = x /\ \A q \in Runners : q # p => proc'[q] = proc[q]
    BY <1>1, <1>3, <2>1
  <2> QED
    BY <1>3, <2>2, <2>3 DEF Leaves
<1> QED
  BY <1>2, <1>3

(***************************************************************************)
(* The steps left in migrate() are a natural number ...                    *)
(***************************************************************************)
LEMMA MigrationLeftIsNatural ==
    ASSUME NEW x \in Runs, NEW L, RunOK(x, L)
    PROVE  MigrationLeft(x) \in Nat
<1>1. Len(x.list) \in Nat /\ x.next \in Nat
  BY DEF Runs
<1>2. x.pc = "apply" => x.next <= Len(x.list) + 1
  BY DEF RunOK, Applying
<1>3. x.pc = "record" => x.next <= Len(x.list)
  BY DEF RunOK
<1> QED
  BY <1>1, <1>2, <1>3 DEF MigrationLeft

(***************************************************************************)
(* ... and each step of the runner makes it smaller.                       *)
(***************************************************************************)
LEMMA MigrationAdvances ==
    ASSUME MigrationInv, NEW r \in Runners, NoRunner \notin Runners, MigrationStep(r)
    PROVE  MigrationLeft(run'[r]) < MigrationLeft(run[r])
<1>1. PICK x \in Runs : x = run[r] /\ RunOK(x, ledger) /\ run \in [Runners -> Runs]
  BY DEF MigrationInv
<1>2. Len(x.list) \in Nat /\ x.next \in Nat /\ Len(ledger) \in Nat
  BY DEF Runs, MigrationInv
<1>3. PICK y : y = run'[r]
  OBVIOUS
<1>4. CASE \E how \in {"invalid", "drift", "failed", "ok", "uncertain"} : End(r, how)
  <2>1. PICK how \in {"invalid", "drift", "failed", "ok", "uncertain"} : End(r, how)
    BY <1>4
  <2>2. y.pc = how
    BY <1>1, <1>3, <2>1 DEF End, NewRun
  <2>3. MigrationLeft(y) = 0
    BY <2>2 DEF MigrationLeft
  <2>4. x.pc \in {"start", "locked", "apply", "record"}
    BY <1>1, <2>1, <1>3, <2>2 DEF MigrationStep, Refuse, TakeLock, Compare, Drift, Execute,
       Record, Commit, Fail
  <2>5. /\ x.pc = "apply" => x.next <= Len(x.list) + 1
        /\ x.pc = "record" => x.next <= Len(x.list)
    BY <1>1 DEF RunOK, Applying
  <2>6. MigrationLeft(x) > 0
    <3>1. /\ x.pc = "start" => MigrationLeft(x) = 2 * Len(x.list) + 4
          /\ x.pc = "locked" => MigrationLeft(x) = 2 * Len(x.list) + 3
          /\ x.pc = "apply" => MigrationLeft(x) = 2 * (Len(x.list) - x.next) + 4
          /\ x.pc = "record" => MigrationLeft(x) = 2 * (Len(x.list) - x.next) + 3
      BY DEF MigrationLeft
    <3> QED
      BY <1>2, <2>4, <2>5, <3>1
  <2> QED
    BY <1>1, <1>3, <2>3, <2>6
<1>5. CASE TakeLock(r)
  <2>1. x.pc = "start" /\ y = [x EXCEPT !.pc = "locked"]
    BY <1>1, <1>3, <1>5 DEF TakeLock
  <2>2. y.pc = "locked" /\ y.list = x.list
    BY <2>1 DEF Runs
  <2>3. MigrationLeft(x) = 2 * Len(x.list) + 4 /\ MigrationLeft(y) = 2 * Len(x.list) + 3
    BY <2>1, <2>2 DEF MigrationLeft
  <2> QED
    BY <1>1, <1>2, <1>3, <2>3
<1>6. CASE Compare(r)
  <2>1. x.pc = "locked" /\ y = [x EXCEPT !.pc = "apply", !.next = Len(ledger) + 1]
    BY <1>1, <1>3, <1>6 DEF Compare
  <2>2. y.pc = "apply" /\ y.list = x.list /\ y.next = Len(ledger) + 1
    BY <2>1 DEF Runs
  <2>3. /\ MigrationLeft(x) = 2 * Len(x.list) + 3
        /\ MigrationLeft(y) = 2 * (Len(x.list) - (Len(ledger) + 1)) + 4
    BY <2>1, <2>2 DEF MigrationLeft
  <2> QED
    BY <1>1, <1>2, <1>3, <2>3
<1>7. CASE Execute(r)
  <2>1. PICK more : x.pc = "apply" /\ y = [x EXCEPT !.pc = "record", !.executed = more]
    BY <1>1, <1>3, <1>7 DEF Execute
  <2>2. y.pc = "record" /\ y.list = x.list /\ y.next = x.next
    BY <2>1 DEF Runs
  <2>3. /\ MigrationLeft(x) = 2 * (Len(x.list) - x.next) + 4
        /\ MigrationLeft(y) = 2 * (Len(x.list) - x.next) + 3
    BY <2>1, <2>2 DEF MigrationLeft
  <2> QED
    BY <1>1, <1>2, <1>3, <2>3
<1>8. CASE Record(r)
  <2>1. PICK more :
           /\ x.pc = "record"
           /\ y = [x EXCEPT !.pc = "apply", !.next = x.next + 1, !.wrote = more]
    BY <1>1, <1>3, <1>8 DEF Record
  <2>2. y.pc = "apply" /\ y.list = x.list /\ y.next = x.next + 1
    BY <2>1 DEF Runs
  <2>3. /\ MigrationLeft(x) = 2 * (Len(x.list) - x.next) + 3
        /\ MigrationLeft(y) = 2 * (Len(x.list) - (x.next + 1)) + 4
    BY <2>1, <2>2 DEF MigrationLeft
  <2> QED
    BY <1>1, <1>2, <1>3, <2>3
<1> QED
  BY <1>4, <1>5, <1>6, <1>7, <1>8 DEF MigrationStep, Refuse, Drift, Commit, Fail

(***************************************************************************)
(* Every step of a process moves it on, and moves nobody else.             *)
(***************************************************************************)
LEMMA StepMoves ==
    ASSUME ProcessInv, NEW p \in Runners, ProcessStep(p)
    PROVE  Alone(p) /\ (Leaves(p) \/ Walks(p) \/ Counts(p))
<1>1. run \in [Runners -> Runs] /\ NoRunner \notin Runners /\ MigrationInv
  BY MigrationsAssumption DEF ProcessInv, MigrationInv
<1>2. UNCHANGED migrationVars => run' = run
  BY DEF migrationVars
<1>3. ASSUME NEW l, Restart(p, l) PROVE \A q \in Runners : q # p => run'[q] = run[q]
  BY <1>1, <1>3 DEF Restart
<1>4. CASE Refused(p) \/ Throws(p) \/ CreateReplyLost(p) \/ EnqueueReplyLost(p)
           \/ (\E e \in Runners : DispatchFails(p, e)) \/ ConsumeReplyLost(p)
  <2>1. /\ proc[p].pc \notin {"closing", "exited"} /\ UNCHANGED migrationVars
        /\ (\E s : Leave(p, s)) \/ \E s : proc' = [proc EXCEPT ![p] = Exited(s)]
    BY <1>4 DEF Refused, Throws, MayThrow, CreateReplyLost, EnqueueReplyLost, DispatchFails,
       ConsumeReplyLost, At
  <2> QED
    BY <1>2, <2>1, LeaveMoves DEF Alone, At
<1>5. CASE CloseAll(p)
  <2>1. At(p, "closing") /\ (\E s : proc' = [proc EXCEPT ![p] = Exited(s)])
        /\ Restart(p, <<>>)
    BY <1>5 DEF CloseAll
  <2> QED
    BY <1>3, <2>1, LeaveMoves DEF Alone, At
<1>6. ASSUME NEW l, Load(p, l) PROVE Alone(p) /\ Walks(p)
  <2>1. PICK c \in {"connect", "open_database"} : Goto(p, c)
    BY <1>6 DEF Load
  <2> QED
    BY <1>3, <1>6, <2>1, GotoMoves DEF Load, Alone, Walks, Starting
<1>7. CASE ConnectBroker(p) \/ Info(p) \/ Create(p) \/ OpenDatabase(p)
  <2>1. PICK c \in Starting : /\ Goto(p, c) /\ UNCHANGED migrationVars
                              /\ proc[p].pc \in Starting /\ Order[c] < Order[proc[p].pc]
    BY <1>7, OrderOfPlaces DEF ConnectBroker, Info, Create, OpenDatabase, At, Starting,
       Creation, Provisioned
  <2> QED
    BY <1>2, <2>1, GotoMoves DEF Alone, Walks
<1>8. CASE Migrate(p)
  <2>1. At(p, "migrate") /\ MigrationStep(p) /\ proc' = proc
    BY <1>8 DEF Migrate
  <2>2. /\ \A q \in Runners : q # p => run'[q] = run[q]
        /\ MigrationInv'
    BY <1>1, <2>1, MigrationStepKeeps
  <2>3. MigrationLeft(run'[p]) < MigrationLeft(run[p])
    BY <1>1, <2>1, MigrationAdvances
  <2>4. 0 <= MigrationLeft(run'[p])
    <3>1. run'[p] \in Runs /\ RunOK(run'[p], ledger')
      BY <2>2 DEF MigrationInv
    <3>2. MigrationLeft(run'[p]) \in Nat
      BY <3>1, MigrationLeftIsNatural
    <3> QED
      BY <3>2
  <2> QED
    BY <2>1, <2>2, <2>3, <2>4 DEF Alone, Walks, At
<1>9. CASE Migrated(p)
  BY <1>2, <1>9, GotoMoves DEF Migrated, Alone, Walks
<1>10. CASE Round(p)
  <2>1. PICK y \in Procs : y = proc[p] /\ proc \in [Runners -> Procs]
    BY DEF ProcessInv, ProcessTypes
  <2>2. PICK x : x = [y EXCEPT !.pc = "dispatch", !.round = y.round + 1]
    OBVIOUS
  <2>3. x.pc = "dispatch" /\ x.round = y.round + 1
    BY <2>2 DEF Procs
  <2>4. proc' = [proc EXCEPT ![p] = x]
    BY <1>10, <2>1, <2>2 DEF Round
  <2>5. proc'[p] = x /\ \A q \in Runners : q # p => proc'[q] = proc[q]
    BY <2>1, <2>4
  <2> QED
    BY <1>2, <1>10, <2>1, <2>3, <2>5 DEF Round, Alone, Counts
<1>11. CASE Enqueue(p) \/ DispatchNothing(p) \/ (\E e \in Runners : DispatchSends(p, e))
            \/ TransferNothing(p) \/ (\E e \in Runners : Transfer(p, e)) \/ SelectNothing(p)
  <2>1. /\ proc[p].pc \in Working /\ UNCHANGED migrationVars
        /\ proc[p].pc \notin {"closing", "exited"}
        /\ \/ Leave(p, "1")
           \/ \E c \in Working : Goto(p, c) /\ Order[c] < Order[proc[p].pc]
    BY <1>11, OrderOfPlaces DEF Enqueue, DispatchNothing, DispatchSends, AfterDispatch,
       TransferNothing, Transfer, SelectNothing, At, Working
  <2>2. CASE Leave(p, "1")
    BY <1>2, <2>1, <2>2, LeaveMoves DEF Alone
  <2>3. ASSUME NEW c \in Working, Goto(p, c), Order[c] < Order[proc[p].pc]
        PROVE  Alone(p) /\ Walks(p)
    BY <1>2, <2>1, <2>3, GotoMoves DEF Alone, Walks
  <2> QED
    BY <2>1, <2>2, <2>3
<1>12. CASE (\E e \in Runners : Select(p, e)) \/ (Consume(p) /\ ~Leave(p, "0"))
  <2>1. PICK y \in Procs : y = proc[p] /\ proc \in [Runners -> Procs]
    BY DEF ProcessInv, ProcessTypes
  <2>2. PICK c \in {"consume", "loop"}, e \in Runners \cup {NoRunner} :
           /\ proc' = [proc EXCEPT ![p].pc = c, ![p].held = e]
           /\ c = "consume" => At(p, "select")
           /\ c = "loop" => At(p, "consume")
           /\ UNCHANGED migrationVars
    BY <1>12 DEF Select, Consume
  <2>3. PICK x : x = [y EXCEPT !.pc = c, !.held = e]
    OBVIOUS
  <2>4. x.pc = c /\ x.round = y.round
    BY <2>3 DEF Procs
  <2>5. proc' = [proc EXCEPT ![p] = x]
    BY <2>1, <2>2, <2>3
  <2>6. proc'[p] = x /\ \A q \in Runners : q # p => proc'[q] = proc[q]
    BY <2>1, <2>5
  <2>7. Order[c] < Order[proc[p].pc] /\ c \in Working /\ proc[p].pc \in Working
    BY <2>2, OrderOfPlaces DEF At, Working
  <2> QED
    BY <1>2, <2>1, <2>2, <2>4, <2>6, <2>7 DEF Alone, Walks
<1>13. CASE Consume(p) /\ Leave(p, "0")
  <2>1. proc[p].pc \notin {"closing", "exited"} /\ UNCHANGED migrationVars
    BY <1>13 DEF Consume, At
  <2> QED
    BY <1>2, <1>13, <2>1, LeaveMoves DEF Alone
<1> QED
  BY <1>4, <1>5, <1>6, <1>7, <1>8, <1>9, <1>10, <1>11, <1>12, <1>13 DEF ProcessStep

(***************************************************************************)
(* The number of a process's round is in the bounds of the loop.           *)
(***************************************************************************)
RoundsOK == \A p \in Runners : proc[p].round \in 0..MaxRounds

(***************************************************************************)
(* No step takes a process past its last round (the loop of runEvents).    *)
(***************************************************************************)
LEMMA RoundsKept ==
    ASSUME ProcessInv, RoundsOK, [ProcessNext]_processVars
    PROVE  RoundsOK'
<1>0. proc \in [Runners -> Procs] /\ MaxRounds \in Nat
  BY EventProcessAssumption DEF ProcessInv, ProcessTypes
<1>1. ASSUME NEW p \in Runners, ProcessStep(p) PROVE RoundsOK'
  <2>1. Alone(p) /\ (Leaves(p) \/ Walks(p) \/ Counts(p))
    BY <1>1, StepMoves
  <2>2. proc'[p].round \in 0..MaxRounds
    BY <1>0, <2>1 DEF RoundsOK, Leaves, Walks, Counts
  <2> QED
    BY <2>1, <2>2 DEF RoundsOK, Alone
<1>2. ASSUME NEW p \in Runners, Killed(p) PROVE RoundsOK'
  <2>1. Leaves(p) /\ \A q \in Runners : q # p => proc'[q] = proc[q]
    BY <1>2, LeaveMoves DEF Killed
  <2> QED
    BY <1>0, <2>1 DEF RoundsOK, Leaves
<1>3. ASSUME NEW p \in Runners, Relaunch(p) PROVE RoundsOK'
  <2>1. NewProcess.round = 0 /\ proc' = [proc EXCEPT ![p] = NewProcess]
    BY <1>3 DEF NewProcess, Relaunch
  <2> QED
    BY <1>0, <2>1 DEF RoundsOK
<1>4. ASSUME NEW p \in Runners, StopSignal(p) PROVE RoundsOK'
  <2>1. PICK y \in Procs : y = proc[p]
    BY <1>0
  <2>2. PICK x : x = [y EXCEPT !.stop = TRUE]
    OBVIOUS
  <2>3. x.round = y.round /\ proc' = [proc EXCEPT ![p] = x]
    BY <1>4, <2>1, <2>2 DEF StopSignal, Procs
  <2> QED
    BY <1>0, <2>1, <2>3 DEF RoundsOK
<1>5. CASE UNCHANGED processVars \/ (\E p \in Runners : TimePasses(p))
           \/ \E t \in {"stream", "consumer"} : ForeignCreate(t)
  <2>1. proc' = proc
    BY <1>5 DEF processVars, TimePasses, ForeignCreate
  <2> QED
    BY <2>1 DEF RoundsOK
<1> QED
  BY <1>1, <1>2, <1>3, <1>4, <1>5 DEF ProcessNext

(***************************************************************************)
(* What a process has before it, in numbers.                               *)
(***************************************************************************)
LEMMA Ahead ==
    ASSUME NEW x, NEW y
    PROVE  /\ x.pc = "load" => Stage(x) = 3 /\ StepsLeft(x, y) = 0
           /\ x.pc \in Starting =>
                Stage(x) = 2 /\ StepsLeft(x, y) = Order[x.pc] + MigrationLeft(y)
           /\ x.pc \in Working =>
                Stage(x) = 1 /\ StepsLeft(x, y) = 5 * (MaxRounds - x.round) + Order[x.pc]
           /\ x.pc = "closing" => Stage(x) = 0 /\ StepsLeft(x, y) = 1
           /\ x.pc = "exited" => Stage(x) = 0 /\ StepsLeft(x, y) = 0
<1>1. CASE x.pc \in {"load", "closing", "exited"}
  BY <1>1 DEF Stage, StepsLeft, Starting, Working
<1>2. CASE x.pc \in Starting
  BY <1>2 DEF Stage, StepsLeft, Starting, Working
<1>3. CASE x.pc \in Working
  BY <1>3 DEF Stage, StepsLeft, Starting, Working
<1> QED
  BY <1>1, <1>2, <1>3

(***************************************************************************)
(* A step that moves a process on brings it closer.                        *)
(***************************************************************************)
LEMMA MovesAreCloser ==
    ASSUME ProcessInv, ProcessInv', RoundsOK, RoundsOK', NEW p \in Runners,
           Leaves(p) \/ Walks(p) \/ Counts(p)
    PROVE  Closer(p)
<1>1. PICK x \in Procs : x = proc[p] /\ x.round \in 0..MaxRounds
  BY DEF ProcessInv, ProcessTypes, RoundsOK
<1>2. PICK z \in Procs : z = proc'[p] /\ z.round \in 0..MaxRounds
  BY DEF ProcessInv, ProcessTypes, RoundsOK
<1>3. PICK y \in Runs : y = run[p] /\ RunOK(y, ledger)
  BY DEF ProcessInv, MigrationInv
<1>4. PICK v \in Runs : v = run'[p] /\ RunOK(v, ledger')
  BY DEF ProcessInv, MigrationInv
<1>5. MigrationLeft(y) \in Nat /\ MigrationLeft(v) \in Nat /\ MaxRounds \in Nat
  BY <1>3, <1>4, MigrationLeftIsNatural, EventProcessAssumption
<1>6. \A c \in Starting \cup Working : Order[c] \in 0..6
  BY OrderOfPlaces DEF Starting, Working
<1>7. CASE Leaves(p)
  <2>1. x.pc # "exited" /\ z.pc \in (IF x.pc = "closing" THEN {"exited"} ELSE {"closing", "exited"})
    BY <1>1, <1>2, <1>7 DEF Leaves, At
  <2>2. Stage(z) = 0 /\ StepsLeft(z, v) \in {0, 1}
        /\ (z.pc = "exited" => StepsLeft(z, v) = 0)
    BY <2>1, Ahead
  <2>3. CASE x.pc = "closing"
    <3>1. Stage(x) = 0 /\ StepsLeft(x, y) = 1
      BY <2>3, Ahead
    <3> QED
      BY <1>1, <1>2, <1>3, <1>4, <2>1, <2>2, <2>3, <3>1 DEF Closer
  <2>4. CASE x.pc # "closing"
    <3>1. x.pc = "load" \/ x.pc \in Starting \/ x.pc \in Working
      BY <2>1, <2>4 DEF Procs, Early, Starting, Working
    <3>2. Stage(x) \in {1, 2, 3}
      BY <3>1, Ahead
    <3> QED
      BY <1>1, <1>2, <1>3, <1>4, <2>2, <3>2 DEF Closer
  <2> QED
    BY <2>3, <2>4
<1>8. CASE Walks(p)
  <2>0. x.round = z.round
    BY <1>1, <1>2, <1>8 DEF Walks
  <2>1. CASE x.pc = "load" /\ z.pc \in Starting
    <3>1. Stage(x) = 3 /\ Stage(z) = 2 /\ StepsLeft(z, v) = Order[z.pc] + MigrationLeft(v)
      BY <2>1, Ahead
    <3> QED
      BY <1>1, <1>2, <1>3, <1>4, <1>5, <1>6, <2>1, <3>1 DEF Closer
  <2>2. CASE /\ x.pc \in Starting /\ z.pc \in Starting
             /\ Order[z.pc] < Order[x.pc] /\ v = y
    <3>1. /\ Stage(x) = 2 /\ StepsLeft(x, y) = Order[x.pc] + MigrationLeft(y)
          /\ Stage(z) = 2 /\ StepsLeft(z, v) = Order[z.pc] + MigrationLeft(v)
      BY <2>2, Ahead
    <3> QED
      BY <1>1, <1>2, <1>3, <1>4, <1>5, <1>6, <2>2, <3>1 DEF Closer
  <2>3. CASE /\ x.pc = "migrate" /\ z.pc = "migrate"
             /\ MigrationLeft(v) < MigrationLeft(y)
    <3>1. x.pc \in Starting /\ z.pc \in Starting
      BY <2>3 DEF Starting
    <3>2. /\ Stage(x) = 2 /\ StepsLeft(x, y) = Order[x.pc] + MigrationLeft(y)
          /\ Stage(z) = 2 /\ StepsLeft(z, v) = Order[z.pc] + MigrationLeft(v)
      BY <3>1, Ahead
    <3>3. Order[x.pc] = 0 /\ Order[z.pc] = 0
      BY <2>3, OrderOfPlaces
    <3> QED
      BY <1>1, <1>2, <1>3, <1>4, <1>5, <2>3, <3>2, <3>3 DEF Closer
  <2>4. CASE x.pc = "migrate" /\ z.pc = "enqueue"
    <3>1. x.pc \in Starting /\ z.pc \in Working
      BY <2>4 DEF Starting, Working
    <3>2. /\ Stage(x) = 2 /\ Stage(z) = 1
          /\ StepsLeft(z, v) = 5 * (MaxRounds - z.round) + Order[z.pc]
      BY <3>1, Ahead
    <3>3. 0 <= StepsLeft(z, v)
      BY <1>2, <1>5, <1>6, <3>1, <3>2
    <3> QED
      BY <1>1, <1>2, <1>3, <1>4, <3>2, <3>3 DEF Closer
  <2>5. CASE x.pc \in Working /\ z.pc \in Working /\ Order[z.pc] < Order[x.pc]
    <3>1. /\ Stage(x) = 1 /\ StepsLeft(x, y) = 5 * (MaxRounds - x.round) + Order[x.pc]
          /\ Stage(z) = 1 /\ StepsLeft(z, v) = 5 * (MaxRounds - z.round) + Order[z.pc]
      BY <2>5, Ahead
    <3>2. 0 <= StepsLeft(z, v) /\ StepsLeft(z, v) < StepsLeft(x, y)
      BY <1>1, <1>2, <1>5, <1>6, <2>0, <2>5, <3>1
    <3> QED
      BY <1>1, <1>2, <1>3, <1>4, <3>1, <3>2 DEF Closer
  <2> QED
    BY <1>1, <1>2, <1>3, <1>4, <1>8, <2>1, <2>2, <2>3, <2>4, <2>5 DEF Walks, At
<1>9. CASE Counts(p)
  <2>1. x.pc = "loop" /\ z.pc = "dispatch" /\ z.round = x.round + 1
    BY <1>1, <1>2, <1>9 DEF Counts, At
  <2>2. x.pc \in Working /\ z.pc \in Working
    BY <2>1 DEF Working
  <2>3. /\ Stage(x) = 1 /\ StepsLeft(x, y) = 5 * (MaxRounds - x.round) + Order[x.pc]
        /\ Stage(z) = 1 /\ StepsLeft(z, v) = 5 * (MaxRounds - z.round) + Order[z.pc]
    BY <2>2, Ahead
  <2>4. Order[x.pc] = 0 /\ Order[z.pc] = 4
    BY <2>1, OrderOfPlaces
  <2>5. 0 <= StepsLeft(z, v) /\ StepsLeft(z, v) < StepsLeft(x, y)
    BY <1>1, <1>2, <1>5, <2>1, <2>3, <2>4
  <2> QED
    BY <1>1, <1>2, <1>3, <1>4, <2>3, <2>5 DEF Closer
<1> QED
  BY <1>7, <1>8, <1>9

(***************************************************************************)
(* EveryStepIsProgress: each step of runEvents brings its process closer   *)
(* to the exit, for any number of processes, rounds and migrations.        *)
(***************************************************************************)
THEOREM ProgressCorrect == ProcessSpec => EveryStepIsProgress
<1> DEFINE Same(p) == proc'[p].pc = proc[p].pc /\ run'[p] = run[p]
           Again(p) == /\ proc[p].pc = "exited" /\ proc'[p].pc = "load"
                       /\ outbox[p].state = "none"
<1>1. ProcessInit => RoundsOK
  BY EventProcessAssumption DEF ProcessInit, RoundsOK, NewProcess
<1>2. ProcessInv /\ RoundsOK /\ [ProcessNext]_processVars => RoundsOK'
  BY RoundsKept
<1>3. ASSUME ProcessInv, ProcessInv', RoundsOK, RoundsOK', ProcessNext, NEW q \in Runners
      PROVE  Same(q) \/ Closer(q) \/ Again(q)
  <2>0. proc \in [Runners -> Procs] /\ run \in [Runners -> Runs]
    BY <1>3 DEF ProcessInv, ProcessTypes, MigrationInv
  <2>1. ASSUME NEW p \in Runners, ProcessStep(p) PROVE Same(q) \/ Closer(q)
    <3>1. Alone(p) /\ (Leaves(p) \/ Walks(p) \/ Counts(p))
      BY <1>3, <2>1, StepMoves
    <3>2. CASE q = p
      BY <1>3, <3>1, <3>2, MovesAreCloser
    <3>3. CASE q # p
      BY <3>1, <3>3 DEF Alone
    <3> QED
      BY <3>2, <3>3
  <2>2. ASSUME NEW p \in Runners, Killed(p) PROVE Same(q) \/ Closer(q)
    <3>1. Leaves(p) /\ \A r \in Runners : r # p => proc'[r] = proc[r]
      BY <1>3, <2>2, LeaveMoves DEF Killed
    <3>2. \A r \in Runners : r # p => run'[r] = run[r]
      BY <2>0, <2>2 DEF Killed, Die
    <3>3. CASE q = p
      BY <1>3, <3>1, <3>3, MovesAreCloser
    <3>4. CASE q # p
      BY <3>1, <3>2, <3>4
    <3> QED
      BY <3>3, <3>4
  <2>3. ASSUME NEW p \in Runners, Relaunch(p) PROVE Same(q) \/ Again(q)
    <3>1. /\ NewProcess.pc = "load" /\ proc' = [proc EXCEPT ![p] = NewProcess] /\ run' = run
          /\ proc[p].pc = "exited" /\ outbox[p].state = "none"
      BY <2>3 DEF NewProcess, Relaunch, migrationVars, At
    <3> QED
      BY <2>0, <3>1
  <2>4. ASSUME NEW p \in Runners, StopSignal(p) PROVE Same(q)
    <3>1. PICK y \in Procs : y = proc[p]
      BY <2>0
    <3>2. PICK x : x = [y EXCEPT !.stop = TRUE]
      OBVIOUS
    <3>3. x.pc = y.pc /\ proc' = [proc EXCEPT ![p] = x] /\ run' = run
      BY <2>4, <3>1, <3>2 DEF StopSignal, Procs, migrationVars
    <3> QED
      BY <2>0, <3>1, <3>3
  <2>5. CASE (\E p \in Runners : TimePasses(p))
             \/ \E t \in {"stream", "consumer"} : ForeignCreate(t)
    BY <2>5 DEF TimePasses, ForeignCreate, migrationVars
  <2> HIDE DEF Same, Again
  <2> QED
    BY <1>3, <2>1, <2>2, <2>3, <2>4, <2>5 DEF ProcessNext
<1>4. ProcessInv /\ ProcessInv' /\ RoundsOK /\ RoundsOK' /\ [ProcessNext]_processVars
        => [\A p \in Runners : Same(p) \/ Closer(p) \/ Again(p)]_processVars
  BY <1>3
<1>5. [\A p \in Runners : Same(p) \/ Closer(p) \/ Again(p)]_processVars
        => [\A p \in Runners :
              \/ proc'[p].pc = proc[p].pc /\ run'[p] = run[p]
              \/ Closer(p)
              \/ proc[p].pc = "exited" /\ proc'[p].pc = "load"
                   /\ outbox[p].state = "none"]_processVars
  OBVIOUS
<1> QED
  BY <1>1, <1>2, <1>4, <1>5, ProcessInvariant, PTL DEF ProcessSpec, EveryStepIsProgress
=============================================================================
