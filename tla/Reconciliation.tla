--------------------------- MODULE Reconciliation ---------------------------
(***************************************************************************)
(* The operator's tools, run beside a contract that moves on and an indexer *)
(* that follows it: the per-circle diagnostic of the API                    *)
(* (indexer/src/circleReconciliation.ts), the difference report with its    *)
(* repair (indexer/src/db/reconcile.ts), and the read-only audits           *)
(* (indexer/src/db/audit.ts, restoreVerify.ts).  Each query and each        *)
(* batch of contract reads is one step; other parties move between them.    *)
(***************************************************************************)
EXTENDS CircleEvents

CONSTANTS
  MaxMoves,      \* bound: steps of the others during a difference run (a
                 \* diagnosis is disturbed once, which already voids it)
  MaxRepaired    \* bound: a tool starts only with fewer fields repaired

VARIABLE tool    \* the run in progress, or what it has just told

toolVars == <<allVars, tool>>

Idle == [pc |-> "idle"]
Indexed == CircleAddress \in DOMAIN tables.circles
Lagging == pending # <<>>

\* The contract's views: get_status, is_closed, is_paused and, while there is a
\* current round, get_current_round.
ChainViews == [status |-> status, closed |-> closed, paused |-> paused]

HasCurrentRound == status \in {"Pending", "Active"}

Repairs == {a \in altered : a.by = "repair"}
Losses == {a \in altered : a.by = "loss"}

-----------------------------------------------------------------------------
(* The diagnostic of one circle: reconcileCircle.                          *)

Tell(outcome, class) ==
  tool' = [pc |-> "told", moves |-> tool.moves, outcome |-> outcome,
           class |-> class]

MayStart ==
  /\ tool.pc \in {"idle", "told"}
  /\ Cardinality(Repairs) < MaxRepaired

ReadRow ==
  /\ MayStart
  /\ tool' = IF Indexed
               THEN [pc |-> "cursor", moves |-> 0, row |-> Row]
               ELSE [pc |-> "told", moves |-> 0, outcome |-> "not_indexed",
                     class |-> ""]
  /\ UNCHANGED allVars

ReadCursor ==
  /\ tool.pc = "cursor"
  /\ tool' = [pc |-> "head", moves |-> tool.moves, row |-> tool.row,
              behind |-> Lagging]
  /\ UNCHANGED allVars

Classification(behind) == IF behind THEN "possibly_stale" ELSE "drift"

\* The RPC's latest ledger against the cursor read before it.  Ledgers without
\* events count too: the cursor may be behind with nothing left to ingest.
ReadHead ==
  /\ tool.pc = "head"
  /\ \/ Tell("rpc_unavailable", "")
     \/ \E idleLedgers \in BOOLEAN :
          tool' = [pc |-> "views", moves |-> tool.moves, row |-> tool.row,
                   class |-> Classification(tool.behind \/ idleLedgers)]
  /\ UNCHANGED allVars

ReadViews ==
  /\ tool.pc = "views"
  /\ \/ Tell("rpc_unavailable", "")
     \/ tool' = [pc |-> "rows", moves |-> tool.moves, row |-> tool.row,
                 class |-> tool.class, chain |-> ChainViews]
  /\ UNCHANGED allVars

ReadRows ==
  /\ tool.pc = "rows"
  /\ tool' = [pc |-> "round", moves |-> tool.moves, row |-> tool.row,
              class |-> tool.class, chain |-> tool.chain,
              members |-> tables.circle_members, payouts |-> tables.payouts]
  /\ UNCHANGED allVars

\* A slip of StatusAgrees: Closed is compared with what get_status says.
StatusAgrees_NoClosed(row, chain) == row.status = chain.status

\* The indexer's own Closed stands for is_closed on top of a final status.
StatusAgrees(row, chain) ==
  IF row.status = "Closed"
    THEN chain.closed /\ chain.status \in {"Completed", "Cancelled"}
    ELSE ~chain.closed /\ row.status = chain.status

\* The payouts there should be, given the status and the round that were read;
\* none is expected when the round could not be read.
ExpectedPayouts(chain, roundRead) ==
  CASE chain.status = "Completed" -> {N}
    [] chain.status = "Cancelled" -> {0}
    [] OTHER -> roundRead

\* The fields that differ.  roundRead holds the current round, if it was read.
Mismatches(t, roundRead) ==
  {f \in {"member_order", "status", "paused", "current_round", "payout_count",
          "payout_recipient", "payout_amount"} :
     CASE f = "member_order" ->
            \E i \in Rounds : t.members[<<CircleAddress, members[i + 1]>>].payout_order # i
       [] f = "status" -> ~StatusAgrees(t.row, t.chain)
       [] f = "paused" -> t.row.paused # t.chain.paused
       [] f = "current_round" -> \E r \in roundRead : t.row.current_round # r
       [] f = "payout_count" ->
            \E n \in ExpectedPayouts(t.chain, roundRead) :
              Cardinality(DOMAIN t.payouts) # n
       [] f = "payout_recipient" ->
            \E k \in DOMAIN t.payouts : t.payouts[k].recipient # members[k[2] + 1]
       [] f = "payout_amount" ->
            \E k \in DOMAIN t.payouts :
              /\ ~t.payouts[k].is_exceptional
              /\ t.payouts[k].amount # round_amount * N}

Conclude(roundRead) ==
  IF Mismatches(tool, roundRead) = {} THEN Tell("match", "")
                                      ELSE Tell("mismatch", tool.class)

\* get_current_round is asked only if the status that was read has one; by now
\* it may be gone, which leaves the round unread.
ReadRound ==
  /\ tool.pc = "round"
  /\ IF tool.chain.status \notin {"Pending", "Active"} THEN Conclude({})
     ELSE \/ Tell("rpc_unavailable", "")
          \/ Conclude(IF HasCurrentRound THEN {round.round_index} ELSE {})
  /\ UNCHANGED allVars

Diagnosing == {"cursor", "head", "views", "rows", "round"}

CircleReport == ReadRow \/ ReadCursor \/ ReadHead \/ ReadViews \/ ReadRows
                \/ ReadRound

-----------------------------------------------------------------------------
(* The difference report and its repair.                                   *)

Difference(field, m, indexed, canonical) ==
  IF indexed = canonical THEN <<>>
  ELSE <<[field |-> field, member |-> m, indexed |-> indexed,
          canonical |-> canonical]>>

\* A contract read that fails leaves its entity out of the comparison.
IfRead(readable, differences) == IF readable THEN differences ELSE <<>>

StartReport ==
  /\ MayStart
  /\ Indexed
  /\ tool' = [pc |-> "canonical", moves |-> 0, row |-> Row]
  /\ UNCHANGED allVars

\* The three views are asked together; without status and config the circle,
\* its members included, is unreadable.
ReadCanonical ==
  /\ tool.pc = "canonical"
  /\ \/ tool' = Idle
     \/ \E roundReadable \in BOOLEAN :
          tool' = [pc |-> "members", moves |-> tool.moves,
                   differences |->
                     Difference("status", "", tool.row.status, status)
                     \o IfRead(roundReadable /\ HasCurrentRound,
                          Difference("current_round", "",
                            tool.row.current_round, round.round_index))]
  /\ UNCHANGED allVars

ReadMembers ==
  /\ tool.pc = "members"
  /\ tool' = [pc |-> "member", moves |-> tool.moves,
              differences |-> tool.differences, todo |-> members,
              rows |-> tables.circle_members]
  /\ UNCHANGED allVars

\* One member, in an order the query leaves open (here the rotation's):
\* get_collateral and get_defaults together, then its reputation row and score.
ReadMember ==
  LET m == Head(tool.todo)
      row == tool.rows[<<CircleAddress, m>>]
      found(views, score) ==
        tool.differences
        \o IfRead(views,
             Difference("collateral", m, row.collateral, collateral[m])
             \o Difference("defaults", m, row.defaults, defaults[m]))
        \o IfRead(score /\ m \in DOMAIN tables.reputation,
             Difference("score", m, tables.reputation[m], awarded[m]))
  IN  /\ tool.pc = "member"
      /\ \E views, score \in BOOLEAN :
           tool' = IF Len(tool.todo) > 1
                     THEN [tool EXCEPT !.todo = Tail(@),
                                       !.differences = found(views, score)]
                     ELSE [pc |-> "report", moves |-> tool.moves,
                           differences |-> found(views, score)]
      /\ UNCHANGED allVars

\* What the column named by a difference holds now.
Column(t, d) ==
  CASE d.field = "status" -> t.circles[CircleAddress].status
    [] d.field = "current_round" -> t.circles[CircleAddress].current_round
    [] d.field = "collateral" ->
         t.circle_members[<<CircleAddress, d.member>>].collateral
    [] d.field = "defaults" ->
         t.circle_members[<<CircleAddress, d.member>>].defaults
    [] d.field = "score" -> t.reputation[d.member]

SetColumn(t, d) ==
  CASE d.field = "status" ->
         [t EXCEPT !.circles[CircleAddress].status = d.canonical]
    [] d.field = "current_round" ->
         [t EXCEPT !.circles[CircleAddress].current_round = d.canonical]
    [] d.field = "collateral" ->
         [t EXCEPT !.circle_members[<<CircleAddress, d.member>>].collateral =
            d.canonical]
    [] d.field = "defaults" ->
         [t EXCEPT !.circle_members[<<CircleAddress, d.member>>].defaults =
            d.canonical]
    [] d.field = "score" -> [t EXCEPT !.reputation[d.member] = d.canonical]

\* A slip of Applies: the update is not conditional.
Applies_Always(t, d) == TRUE

\* The conditional UPDATE: only the value the report saw is replaced.
Applies(t, d) == Column(t, d) = d.indexed

\* repairDifferences takes them in the order of the report; the rest of a run
\* may be given up at any difference (an operator's interrupt, --max-repairs).
RepairNext ==
  /\ tool.pc = "report" /\ tool.differences # <<>>
  /\ LET d == Head(tool.differences)
     IN  IF Applies(tables, d)
           THEN /\ tables' = SetColumn(tables, d)
                /\ altered' = altered \cup
                     {[by |-> "repair", field |-> d.field,
                       member |-> d.member, round |-> 0,
                       seen |-> IF d.field = "status" THEN d.indexed ELSE ""]}
           ELSE UNCHANGED <<tables, altered>>
  /\ tool' = [pc |-> "report", moves |-> tool.moves,
              differences |-> Tail(tool.differences)]
  /\ UNCHANGED <<vars, rejected, pending>>

EndReport == tool.pc = "report" /\ tool' = Idle /\ UNCHANGED allVars

DifferenceReport == StartReport \/ ReadCanonical \/ ReadMembers
                    \/ ReadMember
                    \/ RepairNext \/ EndReport

-----------------------------------------------------------------------------

\* The contract and the indexer move on.  An invocation between the diagnostic's
\* reads of the cursor and of the chain's head shows up as lag.
Elsewhere ==
  \/ tool.pc \in {"idle", "told"} /\ EventNext /\ tool' = Idle
  \/ /\ tool.pc \notin {"idle", "told"}
     /\ tool.moves < IF tool.pc \in Diagnosing THEN 1 ELSE MaxMoves
     /\ \/ /\ Invocation
           /\ tool' = IF tool.pc = "head"
                        THEN [tool EXCEPT !.moves = @ + 1, !.behind = TRUE]
                        ELSE [tool EXCEPT !.moves = @ + 1]
        \/ (Ingest \/ IngestLosing) /\ tool' = [tool EXCEPT !.moves = @ + 1]

ToolInit == EventInit /\ tool = Idle

ToolNext == Elsewhere \/ CircleReport \/ DifferenceReport

ToolSpec == ToolInit /\ [][ToolNext]_toolVars

-----------------------------------------------------------------------------
(* The audits.                                                             *)

\* checkCircleStatusConsistency, its status violations.
StatusViolation ==
  \/ Row.status = "Completed" /\ Row.current_round # Row.member_count
  \/ Row.status = "Active" /\ Row.current_round >= Row.member_count
  \/ Row.status = "Pending" /\ Row.current_round > 0

PaidRounds == {k[2] : k \in DOMAIN tables.payouts}

\* checkCircleRoundDrift: COALESCE makes a circle without payouts look like one
\* whose round 0 is paid.
RoundDrift ==
  /\ Row.status \in {"Active", "Completed"}
  /\ Row.current_round # Max(PaidRounds \cup {0}) + 1

ContributionCount(r) ==
  Cardinality({k \in DOMAIN tables.contributions : k[3] = r})

\* A slip of ContributionMismatch: a round without contributions counts.
ContributionMismatch_CountsEmpty ==
  {r \in PaidRounds : ContributionCount(r) # Row.member_count}

\* checkContributionConsistency: a paid round without any contribution joins to
\* NULL and is left out by the comparison.
ContributionMismatch ==
  {r \in PaidRounds : /\ ContributionCount(r) > 0
                      /\ ContributionCount(r) # Row.member_count}

OrphanedMembers == Row.member_count > 0 /\ DOMAIN tables.circle_members = {}

\* restoreVerify's checkProjectionConsistency.
ProjectionConsistent ==
  /\ Row.status \in {"Pending", "Active", "Completed", "Cancelled", "Closed"}
  /\ Row.current_round <= Row.member_count
  /\ Row.member_count > 0 /\ Row.round_amount > 0

-----------------------------------------------------------------------------
(* What the tools may be trusted with.                                     *)

Quietly == tool.moves = 0
SettledRounds == 0..(rounds_completed - 1)

\* When nobody moved during the run: the diagnostic says "match" only if every
\* field it compares is right, says "mismatch" only of a circle whose events
\* are pending, lost or repaired, and says "drift" only if waiting cannot help.
\* The difference report invents nothing either, except the status of a closed
\* circle, which get_status never calls Closed, and the collateral, which the
\* tables keep as deposited.
ReportsAreHonest ==
  /\ (tool.pc = "told" /\ Quietly) =>
       /\ tool.outcome = "match" =>
            /\ Row.status = RowStatus /\ Row.paused = paused
            /\ HasCurrentRound => Row.current_round = rounds_completed
            /\ PaidRounds = SettledRounds
       /\ tool.outcome = "mismatch" => Lagging \/ altered # {}
       /\ tool.class = "drift" => ~Lagging /\ altered # {}
  /\ (tool.pc = "report" /\ Quietly /\ ~Lagging /\ altered = {}) =>
       \A i \in DOMAIN tool.differences :
         LET d == tool.differences[i]
         IN  \/ d.field = "status" /\ closed
             \/ d.field = "collateral"
                  /\ (closed \/ \E r \in Rounds : d.member \in defaulted[r])

\* However the repairs and the events they anticipate interleave, once all
\* events are ingested the status is the contract's, unless the completion was
\* lost or a repair took back a Closed that its report had seen.  If nothing was
\* lost the round and the scores are the contract's too, and a default counter
\* is never too low, and too high only if it was itself repaired: an event that
\* was pending then counts once more.
RepairsHold ==
  CaughtUp =>
    /\ \/ Row.status = RowStatus
       \/ /\ closed /\ Row.status = status
          /\ \E a \in Repairs : a.field = "status" /\ a.seen = "Closed"
       \/ /\ ~closed /\ Row.status = "Active"
          /\ \E a \in Losses : a.field = "completed"
    /\ Losses = {} =>
         /\ Row.current_round = rounds_completed
         /\ \A m \in DOMAIN tables.reputation :
              tables.reputation[m] = awarded[m]
         /\ \A m \in MemberSet :
              /\ MemberRow(m).defaults >= defaults[m]
              /\ MemberRow(m).defaults > defaults[m] =>
                   \E a \in Repairs : a.field = "defaults" /\ a.member = m

\* The audits on a database that has caught up.  With nothing lost they raise
\* two false alarms and no other: round drift for every circle in its first
\* round, and a contribution mismatch for the exceptional rounds in which
\* somebody paid.
\* A lost completion or a lost contribution to a settled round is found; a lost
\* join, default, score or round start leaves every audit as it was.
AuditsTell ==
  (CaughtUp /\ Repairs = {} /\ Cardinality(altered) <= 1) =>
    LET falseDrift == Row.status = "Active" /\ rounds_completed = 0
        partial == {r \in SettledRounds : Cardinality(contributed[r]) \in 1..(N - 1)}
        AsExpected == /\ ~StatusViolation /\ ~OrphanedMembers
                      /\ ProjectionConsistent
                      /\ RoundDrift <=> falseDrift
                      /\ ContributionMismatch = partial
    IN  /\ altered = {} => AsExpected
        /\ \A a \in altered :
             /\ a.field \in {"joined", "default", "score_updated",
                             "round_started"} => AsExpected
             /\ (a.field = "completed" /\ ~closed) => StatusViolation
             /\ (/\ a.field = "contributed" /\ a.round \in SettledRounds
                 /\ Cardinality(contributed[a.round]) > 1)
                  => a.round \in ContributionMismatch
=============================================================================
