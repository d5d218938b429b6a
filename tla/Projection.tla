----------------------------- MODULE Projection -----------------------------
(***************************************************************************)
(* What the indexer's event handlers (indexer/src/indexer.ts) do to the     *)
(* tables of its database (indexer/src/db/schema.sql and migrations): one   *)
(* operator per handler, from the tables and an event to the tables.        *)
(* A table is a function from its unique key to the other columns that the  *)
(* chain determines; defaults, the one table without a unique key, is a     *)
(* bag.  0 and "" stand for NULL in columns that may hold it.               *)
(***************************************************************************)
EXTENDS Integers, Sequences, SequencesExt, Bags

EmptyTables ==
  [circles |-> <<>>, circle_members |-> <<>>, contributions |-> <<>>,
   payouts |-> <<>>, defaults |-> EmptyBag, circle_audit_events |-> <<>>,
   reputation |-> <<>>]

-----------------------------------------------------------------------------
(* The SQL the handlers use.                                               *)

\* INSERT ... ON CONFLICT DO UPDATE of the whole row.
Upsert(table, key, row) ==
  [k \in DOMAIN table \cup {key} |-> IF k = key THEN row ELSE table[k]]

\* INSERT ... ON CONFLICT DO NOTHING.
InsertOrIgnore(table, key, row) ==
  IF key \in DOMAIN table THEN table ELSE Upsert(table, key, row)

\* UPDATE circles ... WHERE address = c, silently without effect when there is
\* no such row.
UpdateCircle(t, c, Change(_)) ==
  IF c \in DOMAIN t.circles THEN [t EXCEPT !.circles[c] = Change(@)] ELSE t

-----------------------------------------------------------------------------
(* The handlers.                                                           *)

NewCircle(creator, amount, count) ==
  [creator |-> creator, round_amount |-> amount, member_count |-> count,
   status |-> "Pending", current_round |-> 0, paused |-> FALSE,
   total_released |-> 0, close_reason |-> ""]

\* Usually second: fills in the creator that initialized leaves blank.
handleFactoryCircleCreated(t, e) ==
  IF e.circle \in DOMAIN t.circles
    THEN IF t.circles[e.circle].creator = ""
           THEN [t EXCEPT !.circles[e.circle].creator = e.creator]
           ELSE t
    ELSE [t EXCEPT !.circles =
            Upsert(@, e.circle, NewCircle(e.creator, 0, 0))]

\* One member row per slot of the rotation; rows that exist are kept.
handleCircleInitialized(t, e) ==
  LET slot == [k \in {<<e.circle, m>> : m \in Range(e.members)} |->
                 [payout_order |-> (CHOOSE i \in DOMAIN e.members :
                                      e.members[i] = k[2]) - 1,
                  join_order |-> 0, collateral |-> 0, defaults |-> 0]]
      row  == IF e.circle \in DOMAIN t.circles
                THEN [t.circles[e.circle] EXCEPT
                        !.round_amount = e.round_amount,
                        !.member_count = Len(e.members)]
                ELSE NewCircle("", e.round_amount, Len(e.members))
  IN  [t EXCEPT !.circles = Upsert(@, e.circle, row),
                !.circle_members = [k \in DOMAIN @ \cup DOMAIN slot |->
                                      IF k \in DOMAIN @ THEN @[k] ELSE slot[k]]]

\* The row exists: see Rejects.
handleCircleJoined(t, e) ==
  [t EXCEPT !.circle_members[<<e.circle, e.member>>] =
     [@ EXCEPT !.join_order = e.join_order, !.collateral = e.amount]]

SetStatus(t, e, status) ==
  UpdateCircle(t, e.circle, LAMBDA row : [row EXCEPT !.status = status])

handleCircleActive(t, e) == SetStatus(t, e, "Active")

\* A slip of handleCircleContributed: the round is left out of the key.
handleCircleContributed_OncePerMember(t, e) ==
  [t EXCEPT !.contributions =
     InsertOrIgnore(@, <<e.circle, e.member, 0>>,
                    [amount |-> e.amount, ledger |-> e.ledger])]

handleCircleContributed(t, e) ==
  [t EXCEPT !.contributions =
     InsertOrIgnore(@, <<e.circle, e.member, e.round>>,
                    [amount |-> e.amount, ledger |-> e.ledger])]

SetRound(t, e, r) ==
  UpdateCircle(t, e.circle, LAMBDA row : [row EXCEPT !.current_round = r])

\* A slip of handleCirclePayout: the round that was paid stays the current one.
handleCirclePayout_SameRound(t, e) ==
  SetRound([t EXCEPT !.payouts =
              InsertOrIgnore(@, <<e.circle, e.round>>,
                [recipient |-> e.member, amount |-> e.amount,
                 ledger |-> e.ledger, is_exceptional |-> FALSE,
                 defaulted_count |-> 0])],
           e, e.round)

\* The round moves on whether or not the payout row was there already.
handleCirclePayout(t, e) ==
  SetRound([t EXCEPT !.payouts =
              InsertOrIgnore(@, <<e.circle, e.round>>,
                [recipient |-> e.member, amount |-> e.amount,
                 ledger |-> e.ledger, is_exceptional |-> FALSE,
                 defaulted_count |-> 0])],
           e, e.round + 1)

Counted(row) == [row EXCEPT !.defaults = @ + 1]

\* The two effects that are not idempotent: a plain INSERT and a counter.
handleCircleDefault(t, e) ==
  LET k   == <<e.circle, e.member>>
      row == [circle |-> e.circle, member |-> e.member, round |-> e.round,
              penalty |-> e.amount, ledger |-> e.ledger]
  IN  [t EXCEPT !.defaults = @ (+) SetToBag({row}),
                !.circle_members =
                   [j \in DOMAIN @ |->
                      IF j = k THEN Counted(t.circle_members[j])
                               ELSE t.circle_members[j]]]

handleCircleRoundStarted(t, e) == SetRound(t, e, e.round)

\* Writes the row before the payout event of the same round, which then leaves
\* it alone.
handleCircleExceptionalSettlement(t, e) ==
  LET k == <<e.circle, e.round>>
  IN  [t EXCEPT !.payouts =
         Upsert(@, k,
           IF k \in DOMAIN @
             THEN [@[k] EXCEPT !.is_exceptional = TRUE,
                               !.defaulted_count = e.defaulted_count]
             ELSE [recipient |-> e.member, amount |-> e.amount,
                   ledger |-> e.ledger, is_exceptional |-> TRUE,
                   defaulted_count |-> e.defaulted_count])]

handleCircleCompleted(t, e) == SetStatus(t, e, "Completed")

Audited(t, e, released, reason) ==
  [t EXCEPT !.circle_audit_events =
     InsertOrIgnore(@, <<e.circle, e.name>>,
       [triggered_by |-> e.member, ledger |-> e.ledger,
        total_released |-> released, close_reason |-> reason])]

handleCircleCancelled(t, e) == Audited(SetStatus(t, e, "Cancelled"), e, 0, "")

handleCircleClosed(t, e) ==
  Audited(UpdateCircle(t, e.circle, LAMBDA row :
            [row EXCEPT !.status = "Closed", !.total_released = e.amount,
                        !.close_reason = e.reason]),
          e, e.amount, e.reason)

handleCirclePaused(t, e) ==
  UpdateCircle(t, e.circle, LAMBDA row : [row EXCEPT !.paused = TRUE])

handleCircleResumed(t, e) ==
  UpdateCircle(t, e.circle, LAMBDA row : [row EXCEPT !.paused = FALSE])

\* The event carries the score itself, not an increment.
handleReputationScoreUpdated(t, e) ==
  [t EXCEPT !.reputation = Upsert(@, e.member, e.score)]

\* The legacy shape: <<"reputation", "increment", member>> as topics.  The
\* handler takes the wallet from the second of them.
handleReputationIncrement(t, e) ==
  [t EXCEPT !.reputation = Upsert(@, e.topics[2], e.score)]

-----------------------------------------------------------------------------
(* Routing.                                                                *)

\* Events the registry documents as no-ops.
Ignored == {"collateral_released", "caller_added", "caller_removed"}

\* The events with a handler.
Projected ==
  {"circle_created", "initialized", "joined", "active", "contributed",
   "payout", "default", "round_started", "exceptional_settlement",
   "completed", "cancelled", "closed", "paused", "resumed",
   "score_updated", "increment"}

\* routeEvent's dispatch.
Handle(t, e) ==
  CASE e.name = "circle_created" -> handleFactoryCircleCreated(t, e)
    [] e.name = "initialized"    -> handleCircleInitialized(t, e)
    [] e.name = "joined"         -> handleCircleJoined(t, e)
    [] e.name = "active"         -> handleCircleActive(t, e)
    [] e.name = "contributed"    -> handleCircleContributed(t, e)
    [] e.name = "payout"         -> handleCirclePayout(t, e)
    [] e.name = "default"        -> handleCircleDefault(t, e)
    [] e.name = "round_started"  -> handleCircleRoundStarted(t, e)
    [] e.name = "exceptional_settlement" ->
         handleCircleExceptionalSettlement(t, e)
    [] e.name = "completed"      -> handleCircleCompleted(t, e)
    [] e.name = "cancelled"      -> handleCircleCancelled(t, e)
    [] e.name = "closed"         -> handleCircleClosed(t, e)
    [] e.name = "paused"         -> handleCirclePaused(t, e)
    [] e.name = "resumed"        -> handleCircleResumed(t, e)
    [] e.name = "score_updated"  -> handleReputationScoreUpdated(t, e)
    [] e.name = "increment"      -> handleReputationIncrement(t, e)

\* The handlers whose INSERT has a foreign key on circles(address).
NeedsCircleRow == {"contributed", "payout", "default", "cancelled", "closed",
                   "exceptional_settlement"}

\* The errors a well-formed event can meet: no member row for a join, and
\* foreign keys that do not hold.
Rejects(t, e) ==
  \/ e.name = "joined" /\ <<e.circle, e.member>> \notin DOMAIN t.circle_members
  \/ e.name \in NeedsCircleRow /\ e.circle \notin DOMAIN t.circles
=============================================================================
