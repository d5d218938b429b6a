------------------------------- MODULE Replay -------------------------------
(***************************************************************************)
(* The operator's replay tool (indexer/src/db/replay.ts): the preflight     *)
(* that says what a replay or a retry will do to the database, the command  *)
(* line that demands the token of that plan, and the transaction it runs.   *)
(* A database is its cursor, its derived tables, the identities in          *)
(* ingested_events, the identities of the open rows of event_failures, and  *)
(* whether the latter table exists.  An identity is <<ledger, place>>.      *)
(***************************************************************************)
EXTENDS Projection, FiniteSets, FiniteSetsExt

DERIVED_TABLES == DOMAIN EmptyTables

LEDGER_SCOPED_TABLES ==
  {"contributions", "payouts", "defaults", "circle_audit_events"}

\* A slip of cursorAfterReplay: the poller resumes after the ledger.
cursorAfterReplay_Inclusive(from) == from

\* The poller fetches from the ledger after the cursor.
cursorAfterReplay(from) == IF from = 0 THEN 0 ELSE from - 1

resolveReplayMode(from, fullWipe) ==
  IF fullWipe \/ from = 0 THEN "full" ELSE "partial"

\* The token names the mode and the ledger, and nothing of what is in the
\* database.
replayConfirmationToken(mode, from) == <<mode, from>>

FromLedger(ids, from) == {id \in ids : id[1] >= from}

-----------------------------------------------------------------------------
(* What a replay does.                                                     *)

\* The rows of a table that a partial replay from this ledger keeps.
Kept(table, from) ==
  [k \in {x \in DOMAIN table : table[x].ledger < from} |-> table[k]]

\* Only the tables whose rows carry a ledger are trimmed.
wipeFromLedger(t, from) ==
  [t EXCEPT !.contributions = Kept(@, from), !.payouts = Kept(@, from),
            !.circle_audit_events = Kept(@, from),
            !.defaults = [d \in {x \in DOMAIN @ : x.ledger < from} |-> @[d]]]

\* In full mode every derived table is emptied, whatever the ledger; the dedup
\* rows of earlier ledgers stay, and the evidence.
prepareReplay(db, mode, from) ==
  [db EXCEPT !.tables = IF mode = "full" THEN EmptyTables
                                         ELSE wipeFromLedger(@, from),
             !.ingested = @ \ FromLedger(@, from),
             !.cursor = cursorAfterReplay(from)]

\* Nothing is deleted: the cursor goes back, if it has passed the ledger.
prepareFailedEventRetry(db, from) ==
  [db EXCEPT !.cursor = IF from > @ THEN @ ELSE cursorAfterReplay(from)]

-----------------------------------------------------------------------------
(* The preflight.                                                          *)

Rows(t, table) ==
  IF table = "defaults" THEN BagCardinality(t.defaults)
                        ELSE Cardinality(DOMAIN t[table])

RowsFrom(t, table, from) == Rows(t, table) - Rows(wipeFromLedger(t, from), table)

\* A retry without a ledger starts at the oldest open failure.
startLedger(db, args) ==
  IF args.retryFailed /\ args.from = 0 /\ db.hasEvidence /\ db.failures # {}
    THEN Min({id[1] : id \in db.failures})
    ELSE args.from

\* A slip of deletedRows: the counts of a partial replay are those of a full one.
deletedRows_Whole(db, mode, from, table) ==
  IF mode # "retry-failed" THEN Rows(db.tables, table) ELSE 0

\* The rows that the plan announces to delete from a derived table.
deletedRows(db, mode, from, table) ==
  IF mode = "full" THEN Rows(db.tables, table)
  ELSE IF mode = "partial" /\ table \in LEDGER_SCOPED_TABLES
    THEN RowsFrom(db.tables, table, from)
  ELSE 0

\* The warnings.  openFailures is a set of identities, empty also if the table
\* is missing: only the tool's own count tells the two apart.
preflightWarnings(db, mode, from) ==
  LET inRange == FromLedger(db.ingested, from)
      Warn(name, condition) == IF condition THEN {name} ELSE {}
  IN  Warn("ahead_of_cursor", from > db.cursor)
      \cup Warn("no_events", mode # "retry-failed" /\ inRange = {}
                             /\ from <= db.cursor)
      \cup Warn("history_lost", mode = "full" /\ from > 0)
      \cup Warn("counted_twice",
                mode = "partial" /\ RowsFrom(db.tables, "defaults", from) > 0)
      \cup Warn("nothing_to_retry",
                /\ mode = "retry-failed" /\ db.hasEvidence
                /\ FromLedger(db.failures, from) = {})

buildPreflight(db, args) ==
  LET from == startLedger(db, args)
      mode == IF args.retryFailed THEN "retry-failed"
                                  ELSE resolveReplayMode(from, ~args.partial)
      events == Cardinality(FromLedger(db.ingested, from))
  IN  [mode |-> mode, fromLedger |-> from,
       deletes |-> [table \in DERIVED_TABLES |->
                      deletedRows(db, mode, from, table)],
       eventsDeleted |-> IF mode = "retry-failed" THEN 0 ELSE events,
       eventsPreservedBefore |-> Cardinality(db.ingested) - events,
       openFailures |-> FromLedger(db.failures, from),
       cursorAfter |-> cursorAfterReplay(from),
       warnings |-> preflightWarnings(db, mode, from),
       confirmationToken |-> replayConfirmationToken(mode, from)]

-----------------------------------------------------------------------------
(* The command line: [from, partial, retryFailed, dryRun, confirm], with -1  *)
(* for no --from and <<>> for no token (nothing is typed on a terminal).     *)

\* A dry run shows the preflight of a full replay, whatever the other flags
\* are: the plan of the same command without --dry-run may be another one.
dryRunPlan(db, args) ==
  buildPreflight(db, [args EXCEPT !.partial = FALSE, !.retryFailed = FALSE])

\* A retry without --from has its default.
parsed(args) == [args EXCEPT !.from = Max({@, 0})]

\* How the command ends.  A retry fails in its transaction when the table of
\* the failures is missing: the preflight cannot count it and does not stop.
replayOutcome(db, args) ==
  LET plan == buildPreflight(db, parsed(args))
  IN  IF args.from = -1 /\ ~args.retryFailed THEN "usage"
      ELSE IF args.partial /\ args.retryFailed THEN "usage"
      ELSE IF args.dryRun THEN "dry_run"
      ELSE IF args.retryFailed /\ db.hasEvidence /\ plan.openFailures = {}
        THEN "nothing_to_retry"
      ELSE IF args.confirm # plan.confirmationToken THEN "cancelled"
      ELSE IF args.retryFailed /\ ~db.hasEvidence THEN "error"
      ELSE "prepared"

\* The database after the command.
replayed(db, args) ==
  LET plan == buildPreflight(db, parsed(args))
  IN  IF replayOutcome(db, args) # "prepared" THEN db
      ELSE IF plan.mode = "retry-failed"
        THEN prepareFailedEventRetry(db, plan.fromLedger)
      ELSE prepareReplay(db, plan.mode, plan.fromLedger)
=============================================================================
