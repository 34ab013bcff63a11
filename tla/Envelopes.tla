----------------------------- MODULE Envelopes -----------------------------
(***************************************************************************)
(* What the event tables have in common: the event identifiers, the        *)
(* envelope contents, the attempt limit, and the one INSERT statement that *)
(* both the outbox and the mailbox use (events/postgres/store.ts, insert). *)
(*                                                                         *)
(* An envelope is an event ID together with its content; two envelopes     *)
(* with the same ID are equal exactly when their contents are (the code    *)
(* compares the two texts as jsonb).                                       *)
(***************************************************************************)
EXTENDS Naturals

CONSTANTS
    Events,       \* event IDs
    Contents,     \* what an envelope with a given ID may say
    NoEvent,      \* "no event" in the state of a process
    NoContent,    \* the content of a row that does not exist
    MaxAttempts   \* 5 in the code, for both tables

ASSUME EventsAssumption == NoEvent \notin Events
ASSUME ContentsAssumption == NoContent \notin Contents
ASSUME MaxAttemptsAssumption == MaxAttempts \in Nat \ {0}

-----------------------------------------------------------------------------
(***************************************************************************)
(* INSERT ... ON CONFLICT(event_id) DO UPDATE SET envelope = t.envelope    *)
(* WHERE the stored envelope equals the new one.  A missing row is         *)
(* inserted with the column defaults `fresh`; a row with the same envelope *)
(* is rewritten with itself, its state, attempts and lease untouched; a    *)
(* row with another envelope is not touched and the statement reports no   *)
(* row, which the code turns into the conflict events.id_reused.           *)
(***************************************************************************)
InsertAccepts(row, c) == row.state = "absent" \/ row.content = c

\* Mutant: a repeated insert starts the row afresh.
InsertRow_Resets(row, fresh) == fresh

InsertRow(row, fresh) == IF row.state = "absent" THEN fresh ELSE row
=============================================================================
