----------------------------- MODULE Migrations -----------------------------
(***************************************************************************)
(* Database.migrate of shared/postgres/index.ts: several processes start   *)
(* at once, each with its own list of migrations, against one database.    *)
(* Each runner is one transaction: the advisory lock, the ledger compared  *)
(* with the list, the missing migrations applied and recorded, the commit. *)
(*                                                                         *)
(* A migration is a pair of a version and a text (the code compares the    *)
(* SHA-256 of the text).  The schema is the sequence of the texts that     *)
(* have been executed; schema changes are transactional.                   *)
(* Module EventProcess composes it with the processes that migrate.        *)
(***************************************************************************)
EXTENDS Integers, Sequences

CONSTANTS
    Runners,
    Lists,      \* the lists of migrations that runners are started with
    NoRunner

ASSUME MigrationsAssumption ==
    /\ NoRunner \notin Runners
    /\ \A l \in Lists : l \in Seq([version : Int, sql : STRING])

VARIABLES
    ledger,    \* the committed rows of n2f_migrations, by version
    schema,    \* the committed schema: the texts executed so far
    lock,      \* the runner that holds the advisory lock, or NoRunner
    run        \* each runner: its list, where it is, what it wrote

migrationVars == <<ledger, schema, lock, run>>

(***************************************************************************)
(* Versions are positive and increasing, texts are not empty.              *)
(***************************************************************************)
ValidList(l) ==
    /\ \A i \in DOMAIN l : l[i].version > 0 /\ l[i].sql # ""
    /\ \A i \in 1 .. Len(l) - 1 : l[i].version < l[i + 1].version

NewRun(l) == [pc |-> "start", list |-> l, next |-> 0, wrote |-> <<>>, executed |-> <<>>]

MigrationsInit ==
    /\ ledger = <<>>
    /\ schema = <<>>
    /\ lock = NoRunner
    /\ run = [r \in Runners |-> NewRun(<<>>)]

-----------------------------------------------------------------------------
\* The call ends; what its transaction held in memory is gone.
End(r, how) == run' = [run EXCEPT ![r] = [NewRun(@.list) EXCEPT !.pc = how]]

\* The list is refused before anything is sent.
Refuse(r) ==
    /\ run[r].pc = "start"
    /\ ~ValidList(run[r].list)
    /\ End(r, "invalid")
    /\ UNCHANGED <<ledger, schema, lock>>

\* Mutant: no advisory lock.
TakeLock_Nobody(r) ==
    /\ run[r].pc = "start"
    /\ ValidList(run[r].list)
    /\ run' = [run EXCEPT ![r].pc = "locked"]
    /\ UNCHANGED <<ledger, schema, lock>>

\* The transaction begins and waits for the advisory lock.
TakeLock(r) ==
    /\ run[r].pc = "start"
    /\ ValidList(run[r].list)
    /\ lock = NoRunner
    /\ lock' = r
    /\ run' = [run EXCEPT ![r].pc = "locked"]
    /\ UNCHANGED <<ledger, schema>>

\* The ledger is a prefix of the list, version by version and text by text.
Agrees(l) ==
    /\ Len(ledger) <= Len(l)
    /\ \A i \in DOMAIN ledger : ledger[i] = l[i]

\* The ledger is read and compared; the first missing migration is next.
Compare(r) ==
    /\ run[r].pc = "locked"
    /\ Agrees(run[r].list)
    /\ run' = [run EXCEPT ![r].pc = "apply", ![r].next = Len(ledger) + 1]
    /\ UNCHANGED <<ledger, schema, lock>>

\* The history differs: the transaction is rolled back.
Drift(r) ==
    /\ run[r].pc = "locked"
    /\ ~Agrees(run[r].list)
    /\ End(r, "drift")
    /\ lock' = NoRunner
    /\ UNCHANGED <<ledger, schema>>

\* The text of the next migration is executed ...
Execute(r) ==
    /\ run[r].pc = "apply"
    /\ run[r].next <= Len(run[r].list)
    /\ run' = [run EXCEPT ![r].pc = "record",
                          ![r].executed = Append(@, run[r].list[run[r].next].sql)]
    /\ UNCHANGED <<ledger, schema, lock>>

\* ... and recorded.
Record(r) ==
    /\ run[r].pc = "record"
    /\ run' = [run EXCEPT ![r].pc = "apply", ![r].next = @ + 1,
                          ![r].wrote = Append(@, run[r].list[run[r].next])]
    /\ UNCHANGED <<ledger, schema, lock>>

\* COMMIT: the schema and the ledger change together and the lock is free.
\* The caller is told ok, or that the outcome is uncertain.
Commit(r, how) ==
    /\ run[r].pc = "apply"
    /\ run[r].next > Len(run[r].list)
    /\ ledger' = ledger \o run[r].wrote
    /\ schema' = schema \o run[r].executed
    /\ lock' = NoRunner
    /\ End(r, how)

\* A statement fails or the deadline passes: the transaction is rolled back.
Fail(r) ==
    /\ run[r].pc \in {"start", "locked", "apply", "record"}
    /\ End(r, "failed")
    /\ lock' = IF lock = r THEN NoRunner ELSE lock
    /\ UNCHANGED <<ledger, schema>>

\* A process is started, with its release's list, or has exited.
Restart(r, l) ==
    /\ run' = [run EXCEPT ![r] = NewRun(l)]
    /\ UNCHANGED <<ledger, schema, lock>>

\* The process dies: the server rolls its transaction back.
Die(r) ==
    /\ run' = [run EXCEPT ![r] = NewRun(<<>>)]
    /\ lock' = IF lock = r THEN NoRunner ELSE lock
    /\ UNCHANGED <<ledger, schema>>

MigrationStep(r) ==
    \/ Refuse(r)
    \/ TakeLock(r)
    \/ Compare(r)
    \/ Drift(r)
    \/ Execute(r)
    \/ Record(r)
    \/ Commit(r, "ok")
    \/ Commit(r, "uncertain")
    \/ Fail(r)

-----------------------------------------------------------------------------
(***************************************************************************)
(* Contract D05: the schema is what the ledger says: each recorded         *)
(* migration was executed exactly once, in version order, and nothing else *)
(* was, whichever runners raced, failed or were restarted.                 *)
(***************************************************************************)
SchemaMatchesLedger ==
    /\ schema = [i \in DOMAIN ledger |-> ledger[i].sql]
    /\ \A i \in 1 .. Len(ledger) - 1 : ledger[i].version < ledger[i + 1].version

(***************************************************************************)
(* A runner that reports success leaves a database whose history is at     *)
(* that moment its own list, and it never reports success over a history   *)
(* that differs.                                                           *)
(***************************************************************************)
SuccessMeansMyHistory ==
    \A r \in Runners :
        run[r].pc # "ok" /\ run'[r].pc = "ok" => ledger' = run[r].list

(***************************************************************************)
(* Migrations are sound whatever releases race, fail and restart: after    *)
(* every step schema and ledger tell one story, and success is only        *)
(* reported over one's own.                                                *)
(***************************************************************************)
MigrationsAreSound == [][SchemaMatchesLedger' /\ SuccessMeansMyHistory]_migrationVars
=============================================================================
