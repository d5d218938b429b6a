------------------------------ MODULE Indexer ------------------------------
(***************************************************************************)
(* The indexer's ingestion (indexer/src/indexer.ts): the poll cycle that    *)
(* reads the durable cursor, fetches a batch of ledgers and commits them    *)
(* one transaction per ledger; events that fail and the evidence kept of    *)
(* them (eventFailures.ts); and the operator's replays and retries          *)
(* (db/replay.ts).  A database transaction is one action.  The poller's     *)
(* memory is lost in a crash; the RPC may fail, lag behind or answer        *)
(* between any two steps.                                                   *)
(***************************************************************************)
EXTENDS Replay

CONSTANTS
  Chain,                 \* the contract events of each ledger, in order
  START_LEDGER,
  BACKFILL_MAX_LEDGERS,
  BACKFILL_MAX_EVENTS,
  Builds,                \* the event names that the build deployed at first
                         \* may understand
  Commands,              \* the replay commands that operators give: see
                         \* replayOutcome
  MaxOperations          \* bound: replays and retries

ASSUME ChainAssumption ==
  /\ START_LEDGER \in 0..Len(Chain)
  /\ BACKFILL_MAX_LEDGERS \in Nat \ {0}
  /\ BACKFILL_MAX_EVENTS \in Nat
  /\ \A b \in Builds : b \subseteq Projected
  /\ Commands \subseteq
       [from : {-1} \cup Nat,
        partial : BOOLEAN, retryFailed : BOOLEAN, dryRun : BOOLEAN,
        confirm : {<<>>} \cup ({"full", "partial", "retry-failed"} \X Nat)]
  /\ MaxOperations \in Nat

VARIABLES
  cursor,        \* indexer_state.last_ledger
  tables,        \* the derived tables
  ingested,      \* ingested_events
  failures,      \* the open rows of event_failures
  hasEvidence,   \* whether the event_failures migration has been applied
  supported,     \* the event names the running build understands
  pc,            \* where the poller is
  lastLedger,    \* runPollCycle's copy of the cursor
  toLedger,      \* the end of the batch
  items,         \* fetched events of the batch that are still to be committed
  shuttingDown,
  operations,    \* how often an operator has intervened
  unrecorded,    \* history: skipped events whose evidence could not be written
  highWater,     \* history: the highest cursor since the tables were built
  reordered,     \* history: an event was applied after a later one
  partial,       \* history: a partial replay has taken place
  jumped,        \* history: a replay has moved the cursor forward
  emptied        \* history: a full replay has emptied the tables, of events too
                 \* that are not taken in again

database == <<cursor, tables, ingested, failures, unrecorded, highWater,
              reordered>>
memory == <<pc, lastLedger, toLedger, items>>
deployment == <<hasEvidence, supported>>
history == <<partial, jumped, emptied>>
vars == <<database, memory, deployment, shuttingDown, operations, history>>

-----------------------------------------------------------------------------
(* Events.                                                                 *)

\* The canonical identity of an event: its ledger and its place in it.
EventId == UNION {{<<l, i>> : i \in DOMAIN Chain[l]} : l \in DOMAIN Chain}

event(id) == Chain[id[1]][id[2]]

Before(a, b) == a[1] < b[1] \/ (a[1] = b[1] /\ a[2] < b[2])

\* The events that announce a circle.
Creation == {id \in EventId : event(id).name = "circle_created"}

\* A ledger is a sequence of events.  A circle is announced once, by the
\* factory, in the ledger in which it begins to emit events at the latest; its
\* address is none of the two fixed ones; and START_LEDGER lies before the
\* first of them, as docs/RUNBOOK.md asks for.
ASSUME ChainOrder ==
  LET IsSequence(s) == Len(s) \in Nat /\ DOMAIN s = 1..Len(s)
      Fixed == {"factory", "reputation"}
  IN  /\ IsSequence(Chain) /\ \A l \in DOMAIN Chain : IsSequence(Chain[l])
      /\ \A c \in Creation : /\ event(c).contract = "factory"
                             /\ event(c).circle \notin Fixed
                             /\ START_LEDGER < c[1]
      /\ \A c, d \in Creation : event(c).circle = event(d).circle => c = d
      /\ \A id \in EventId : event(id).contract \notin Fixed =>
           \E c \in Creation : event(c).circle = event(id).contract
                              /\ c[1] <= id[1]

\* The events of a circle and of its announcement.
AboutCircle ==
  {id \in EventId : event(id).name \in Projected \ {"score_updated", "increment"}}

\* A circle emits its own events.  It is initialized once, before anything else
\* is heard of it, and announced before it emits anything more: create_circle
\* does both.  What settles a round settles it in one invocation.  The rows that
\* keep the ledger keep that of their event.
ASSUME ChainEvents ==
  /\ \A id \in AboutCircle \ Creation : event(id).circle = event(id).contract
                                       /\ event(id).contract \notin {"factory", "reputation"}
  /\ \A id \in EventId :
       /\ event(id).name \in NeedsCircleRow => event(id).ledger = id[1]
       /\ event(id).name = "initialized" =>
            LET members == event(id).members
            IN  Len(members) \in Nat /\ DOMAIN members = 1..Len(members)
  /\ \A a \in AboutCircle : \A b \in AboutCircle \ {a} :
       event(a).circle = event(b).circle =>
         /\ event(a).name = "initialized" => Before(a, b)
         /\ a \in Creation /\ event(b).name # "initialized" => Before(a, b)
         /\ /\ {event(a).name, event(b).name}
                 \subseteq {"payout", "exceptional_settlement"}
            /\ event(a).round = event(b).round
            => a[1] = b[1]

\* Op applied to the events of a ledger one after the other, in order.
\* (Choosing from the singleton: so that TLC evaluates after[i - 1] once.)
InLedger(Op(_, _), base, l, ids) ==
  LET after[i \in 0..Len(Chain[l])] ==
        IF i = 0 THEN base
        ELSE IF <<l, i>> \notin ids THEN after[i - 1]
        ELSE CHOOSE v \in {Op(before, <<l, i>>) : before \in {after[i - 1]}} :
               TRUE
  IN  after

\* Op applied to all the events, in canonical order: by ledger, then by place.
Through(Op(_, _), base, ids) ==
  LET after[l \in 0..Len(Chain)] ==
        IF l = 0 THEN base
        ELSE InLedger(Op, after[l - 1], l, ids)[Len(Chain[l])]
  IN  after

TypeOK ==
  /\ cursor \in Nat /\ DOMAIN tables = DERIVED_TABLES
  /\ ingested \subseteq EventId /\ failures \subseteq EventId
  /\ unrecorded \subseteq EventId
  /\ hasEvidence \in BOOLEAN /\ supported \in Builds \cup {Projected}
  /\ pc \in {"stopped", "idle", "head", "fetch", "process", "backoff"}
  /\ lastLedger \in Nat /\ toLedger \in 0..Len(Chain)
  /\ items \subseteq EventId
  /\ shuttingDown \in BOOLEAN /\ operations \in 0..MaxOperations
  /\ highWater \in Nat
  /\ {reordered, partial, jumped, emptied} \subseteq BOOLEAN

Init ==
  /\ cursor = 0 /\ tables = EmptyTables /\ ingested = {} /\ failures = {}
  /\ hasEvidence \in BOOLEAN /\ supported \in Builds
  /\ pc = "stopped" /\ lastLedger = 0 /\ toLedger = 0 /\ items = {}
  /\ shuttingDown = FALSE /\ operations = 0
  /\ unrecorded = {} /\ highWater = 0
  /\ reordered = FALSE /\ partial = FALSE
  /\ jumped = FALSE /\ emptied = FALSE

-----------------------------------------------------------------------------
(* The ledger transaction.                                                 *)

\* One event in its savepoint: a duplicate is skipped, an event that the build
\* does not understand or whose handler throws leaves no trace but its failure.
ingestEventInTx(s, id) ==
  IF id \in s.ingested THEN s
  ELSE IF event(id).name \notin supported \/ Rejects(s.tables, event(id))
    THEN [s EXCEPT !.failed = @ \cup {id}]
    ELSE [s EXCEPT !.tables = Handle(@, event(id)),
                   !.ingested = @ \cup {id}, !.succeeded = @ \cup {id}]

\* The evidence of the ledger has a savepoint of its own: if it cannot be
\* written, the ledger commits without it.
recordLedgerFailureEvidence(failed, succeeded) ==
  \/ /\ hasEvidence
     /\ failures' = (failures \cup failed) \ succeeded
     /\ unrecorded' = unrecorded \ (failed \cup succeeded)
  \/ /\ failures' = failures
     /\ unrecorded' = (unrecorded \cup (failed \ failures)) \ succeeded

\* All of a ledger's events, its evidence and the cursor commit together.
processLedger(l, ids) ==
  \E after \in {InLedger(ingestEventInTx,
                         [tables |-> tables, ingested |-> ingested,
                          failed |-> {}, succeeded |-> {}],
                         l, ids)[Len(Chain[l])]} :
    /\ tables' = after.tables
    /\ ingested' = after.ingested
    /\ recordLedgerFailureEvidence(after.failed, after.succeeded)
    /\ cursor' = l
    /\ highWater' = Max({highWater, l})
    /\ reordered' = (reordered \/ \E a \in after.succeeded, b \in ingested :
                                    Before(a, b))

-----------------------------------------------------------------------------
(* The poll cycle.                                                         *)

\* runPollCycle starts from the durable cursor, never from memory.
BeginCycle ==
  /\ lastLedger' = IF cursor = 0 THEN START_LEDGER ELSE cursor
  /\ pc' = "head"

\* What the cycle keeps in memory goes with it.
EndCycle(then) == pc' = then /\ lastLedger' = 0 /\ toLedger' = 0 /\ items' = {}

\* The timer's tick, refused while a cycle is in flight or a stop is asked for.
tick ==
  /\ pc = "idle" /\ ~shuttingDown
  /\ BeginCycle
  /\ UNCHANGED <<database, toLedger, items, deployment, shuttingDown,
                 operations, history>>

batchEnd(from, h) == Min({h, from + BACKFILL_MAX_LEDGERS - 1})

\* getLatestLedger answers h, any ledger up to the last: the chain grows and
\* the RPC may lag.  An answer behind the cursor is a contradiction that fails
\* the cycle, one that is not ahead of it ends the cycle.
ObserveHead(h) ==
  LET to == batchEnd(lastLedger + 1, h)
  IN  /\ pc = "head"
      /\ \/ /\ to > lastLedger
            /\ pc' = "fetch" /\ toLedger' = to
            /\ UNCHANGED <<lastLedger, items>>
         \/ to = lastLedger /\ EndCycle("idle")
         \/ to < lastLedger /\ EndCycle("backoff")
      /\ UNCHANGED <<database, deployment, shuttingDown, operations, history>>

InRange(from, to) == {id \in EventId : id[1] \in from..to}

\* The circles whose events are asked for: those in the database, and those
\* that a creation event of the batch, if it can be parsed, announces.
KnownCircles(range) ==
  DOMAIN tables.circles
    \cup {event(id).circle : id \in {x \in range :
            x \in Creation /\ "circle_created" \in supported}}

Fetched(from, to) ==
  LET range == InRange(from, to)
      contracts == {"factory", "reputation"} \cup KnownCircles(range)
  IN  {id \in range : event(id).contract \in contracts}

\* A slip of Halve: the length of the batch for its end.
Halve_LengthForEnd(from, end) == Max({1, (end - from) \div 2})

\* A batch that is too dense is halved, down to one ledger.
Halve(from, end) == from + Max({1, (end - from) \div 2})

TooMany == Cardinality(Fetched(lastLedger + 1, toLedger)) > BACKFILL_MAX_EVENTS

\* Both fetches, up to date or not at all: a page that fails, an RPC that lags
\* or a cursor that does not advance fails the cycle (CycleFails).
FetchEvents ==
  /\ pc = "fetch" /\ ~shuttingDown /\ ~TooMany
  /\ items' = {id \in Fetched(lastLedger + 1, toLedger) :
                 event(id).name \notin Ignored}
  /\ pc' = "process"
  /\ UNCHANGED <<database, lastLedger, toLedger, deployment,
                 shuttingDown, operations, history>>

ShrinkBatch ==
  /\ pc = "fetch" /\ ~shuttingDown /\ TooMany /\ toLedger > lastLedger + 1
  /\ toLedger' = Halve(lastLedger, toLedger)
  /\ UNCHANGED <<database, pc, lastLedger, items, deployment,
                 shuttingDown, operations, history>>

\* The next ledger with events, in one transaction.
CommitLedger ==
  LET l == Min({id[1] : id \in items})
      ids == {id \in items : id[1] = l}
  IN  /\ pc = "process" /\ ~shuttingDown /\ items # {}
      /\ processLedger(l, ids)
      /\ items' = items \ ids
      /\ UNCHANGED <<pc, lastLedger, toLedger, deployment, shuttingDown,
                     operations, history>>

\* No events left: the ledgers after the last event are covered by an empty
\* transaction, if there are any, and the cycle ends.
FinishBatch ==
  /\ pc = "process" /\ ~shuttingDown /\ items = {}
  /\ IF cursor < toLedger THEN processLedger(toLedger, {})
                          ELSE UNCHANGED database
  /\ EndCycle("idle")
  /\ UNCHANGED <<deployment, shuttingDown, operations, history>>

\* An RPC error, a transient database error (the transaction rolls back), a
\* range the RPC cannot serve, a batch of one ledger that is still too dense,
\* or a stop request seen at a ledger boundary.
CycleFails ==
  /\ pc \in {"head", "fetch", "process"}
  /\ EndCycle("backoff")
  /\ UNCHANGED <<database, deployment, shuttingDown, operations, history>>

BackoffElapses ==
  /\ pc = "backoff"
  /\ pc' = "idle"
  /\ UNCHANGED <<database, lastLedger, toLedger, items, deployment,
                 shuttingDown, operations, history>>

-----------------------------------------------------------------------------
(* Starting, stopping, crashing, upgrading.                                *)

\* The first tick comes at once.
startIndexer ==
  /\ pc = "stopped"
  /\ shuttingDown' = FALSE
  /\ BeginCycle
  /\ UNCHANGED <<database, toLedger, items, deployment, operations,
                 history>>

stopIndexer ==
  /\ pc # "stopped" /\ ~shuttingDown
  /\ shuttingDown' = TRUE
  /\ UNCHANGED <<database, memory, deployment, operations, history>>

\* The cycle in flight has finished; only then does the process exit.
Stopped ==
  /\ shuttingDown /\ pc = "idle"
  /\ pc' = "stopped"
  /\ UNCHANGED <<database, lastLedger, toLedger, items, deployment,
                 shuttingDown, operations, history>>

Crash ==
  /\ pc # "stopped"
  /\ EndCycle("stopped")
  /\ UNCHANGED <<database, deployment, shuttingDown, operations, history>>

\* A build that understands every event, with its migrations.
Upgrade ==
  /\ pc = "stopped" /\ (supported # Projected \/ ~hasEvidence)
  /\ supported' = Projected /\ hasEvidence' = TRUE
  /\ UNCHANGED <<database, memory, shuttingDown, operations, history>>

-----------------------------------------------------------------------------
(* The operator's interventions, which the replay tool asks to be made      *)
(* while the poller is stopped.                                             *)

replayDb == [cursor |-> cursor, tables |-> tables, ingested |-> ingested,
             failures |-> failures, hasEvidence |-> hasEvidence]

\* A command that ends in "prepared"; the others change nothing.  One
\* transaction, on the database that the preflight of the command has read.
Replay(args) ==
  /\ pc = "stopped" /\ operations < MaxOperations
  /\ replayOutcome(replayDb, args) = "prepared"
  /\ operations' = operations + 1
  /\ \E after \in {replayed(replayDb, args)} :
       /\ tables' = after.tables
       /\ ingested' = after.ingested
       /\ cursor' = after.cursor
       /\ LET mode == buildPreflight(replayDb, parsed(args)).mode
         IN  /\ highWater' = IF mode = "full" THEN cursor' ELSE highWater
             /\ reordered' = (reordered /\ mode # "full")
             /\ partial' = (mode = "partial" \/ (partial /\ mode # "full"))
             /\ emptied' = IF mode = "full"
                             THEN ingested' # {} \/ (emptied /\ cursor' # 0)
                             ELSE emptied
       /\ jumped' = (cursor' > cursor \/ (jumped /\ cursor' # 0))
  /\ UNCHANGED <<memory, deployment, shuttingDown, failures, unrecorded>>

-----------------------------------------------------------------------------
Next ==
  \/ startIndexer \/ stopIndexer \/ Stopped \/ Crash \/ Upgrade
  \/ tick
  \/ \E h \in 0..Len(Chain) : ObserveHead(h)
  \/ FetchEvents \/ ShrinkBatch \/ CommitLedger \/ FinishBatch
  \/ CycleFails \/ BackoffElapses
  \/ \E args \in Commands : Replay(args)

Spec == Init /\ [][Next]_vars

\* The poller is started again whenever it has stopped; its
\* timer and its backoff fire.  The RPC and the database, however often they
\* fail, answer again and again: a step of the cycle that is possible again
\* and again is taken.
Fairness ==
  /\ WF_vars(startIndexer) /\ WF_vars(Stopped)
  /\ WF_vars(tick) /\ WF_vars(BackoffElapses)
  /\ SF_vars(ObserveHead(Len(Chain)))
  /\ SF_vars(FetchEvents) /\ SF_vars(ShrinkBatch)
  /\ SF_vars(CommitLedger) /\ SF_vars(FinishBatch)

FairSpec == Spec /\ Fairness

-----------------------------------------------------------------------------
(* Properties.                                                             *)

\* The tables after the given events, applied in the order of the chain.
Apply(t, id) == Handle(t, event(id))
Project(ids) == Through(Apply, EmptyTables, ids)[Len(Chain)]

\* circle_members.defaults is the one column a partial replay counts twice.
WithoutCounters(t) ==
  [t EXCEPT !.circle_members = [k \in DOMAIN @ |-> [@[k] EXCEPT !.defaults = 0]]]

\* START_LEDGER lies before the first event, not only before the first circle.
NothingBeforeStart == \A id \in EventId : START_LEDGER < id[1]

\* Crashes, restarts, transient errors, lagging RPC answers, batches cut in two
\* and replays notwithstanding, the tables are what applying the ingested
\* events once each in chain order gives, as soon as the poller is back where
\* it was before a rewind: unless a retry has applied an event late, or a full
\* replay has emptied the tables from the middle on, or a replay after a partial
\* one has passed over events that the partial one was to take in again; the
\* preflight warns of both.
TablesAreProjection ==
  cursor >= highWater /\ ~reordered /\ ~emptied =>
    IF ~partial THEN tables = Project(ingested)
    ELSE ~jumped /\ NothingBeforeStart =>
           WithoutCounters(tables) = WithoutCounters(Project(ingested))

\* No default is entered twice and none is lost, also by a retry: the table
\* without a unique key holds one row for each ingested default event.
DefaultsOnce ==
  LET ids == {id \in ingested : event(id).name = "default"}
      Of(d) == {id \in ids : /\ event(id).circle = d.circle
                             /\ event(id).member = d.member
                             /\ event(id).round = d.round}
  IN  /\ ~emptied => BagCardinality(tables.defaults) = Cardinality(ids)
      /\ \A d \in DOMAIN tables.defaults : Of(d) # {}

\* What the preflight of a command that would go through announces is what
\* becomes of the database: the rows deleted of every table, the events to be
\* taken in again, and the cursor (which a retry ahead of it, of which the
\* preflight warns, leaves alone).
AnnouncesDeletions(args) ==
  LET plan  == buildPreflight(replayDb, parsed(args))
      after == replayed(replayDb, args)
  IN  /\ \A t \in DERIVED_TABLES :
           plan.deletes[t] = Rows(tables, t) - Rows(after.tables, t)
      /\ plan.eventsDeleted = Cardinality(ingested) - Cardinality(after.ingested)
      /\ \/ plan.cursorAfter = after.cursor
         \/ args.retryFailed /\ "ahead_of_cursor" \in plan.warnings

\* Without a warning of lost history or of a counter that goes up twice, taking
\* the deleted events in again gives the tables back as they were.
WarnsOfHarm(args) ==
  LET plan  == buildPreflight(replayDb, parsed(args))
      after == replayed(replayDb, args)
  IN  /\ plan.warnings \cap {"history_lost", "counted_twice"} = {}
      /\ tables = Project(ingested)
      => tables = Through(Apply, after.tables, ingested \ after.ingested)
                    [Len(Chain)]

\* The commands with the token that their preflight asks for.
Confirmed ==
  {[a EXCEPT !.confirm = buildPreflight(replayDb, parsed(a)).confirmationToken] :
     a \in [from : -1..Len(Chain) + 1, partial : BOOLEAN,
            retryFailed : BOOLEAN, dryRun : {FALSE}, confirm : {<<>>}]}

\* An operator who reads the preflight and confirms gets no surprise, whatever
\* the plan.
PreflightKeepsItsWord ==
  pc = "stopped" =>
    \A args \in {a \in Confirmed : replayOutcome(replayDb, a) = "prepared"} :
      AnnouncesDeletions(args) /\ WarnsOfHarm(args)

\* The tables are made of the ingested events, each of them once, and a
\* replay that might change that says so before it is confirmed.
ProjectedOnce == TablesAreProjection /\ DefaultsOnce /\ PreflightKeepsItsWord

\* The event is skipped, and the operators know: it is an open failure, or its
\* ledger's evidence could not be written.
Skipped(id) == id \in failures \cup unrecorded

\* The event belongs to a circle whose creation event is skipped.
Undiscovered(id) ==
  \E c \in Creation : Skipped(c) /\ event(c).circle = event(id).contract

\* The cursor never passes an event that is lost without a trace: behind it
\* every event is ingested, or skipped, or belongs to a circle that was not
\* discovered because the event that announces it is skipped; a retry from the
\* oldest failure goes back far enough for all of them.  (A replay from a
\* ledger that the poller has not reached, which prepareReplay does not refuse,
\* skips the ledgers in between; after a full replay from the middle on, the
\* circles announced earlier are not known any more.)
NothingLost ==
  ~jumped /\ ~emptied => \A id \in EventId :
    START_LEDGER < id[1] /\ id[1] <= cursor /\ event(id).name \notin Ignored
      => id \in ingested \/ Skipped(id) \/ Undiscovered(id)

\* Whatever fails and however often the process dies, the indexer reaches the
\* end of the chain once the operators no longer stop it.
CatchesUp == <>[]~shuttingDown => <>[](cursor = Len(Chain))
=============================================================================
