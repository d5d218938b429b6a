---------------------------- MODULE CircleEvents ----------------------------
(***************************************************************************)
(* The circle contract composed with the indexer's handlers: every entry    *)
(* point publishes its events, and the handlers apply them to the tables    *)
(* later, in the order of the chain, the events of one invocation in one    *)
(* database transaction.  An event that fails in its savepoint is skipped   *)
(* for good.  Module Indexer is about how order and exactly-once            *)
(* application come about; this one is about what the tables then say of    *)
(* the contract.  Token freezes and revocation, which only withhold         *)
(* invocations, are left out.                                               *)
(***************************************************************************)
EXTENDS Circle, Projection

CONSTANTS
  CircleAddress,   \* the circle's contract address
  Creator,         \* the wallet that created it through the factory
  MaxLag,          \* bound: invocations the indexer may be behind
  Losable,         \* the names of events that may fail in their savepoint
  MaxLost          \* bound: how many do

VARIABLES
  tables,          \* the indexer's derived tables
  rejected,        \* the names of events a handler refused
  pending,         \* the events not ingested yet, invocation by invocation
  altered          \* what else made the tables: events lost, fields repaired

eventVars == <<tables, rejected, pending, altered>>
allVars == <<vars, eventVars>>

-----------------------------------------------------------------------------
(* The events of one invocation, in the order they are published.          *)

Ev(name, m, r, amount) ==
  [name |-> name, circle |-> CircleAddress, ledger |-> ledger,
   member |-> m, round |-> r, amount |-> amount]

\* circle/initialized, then factory/circle_created in the same transaction.
InitializedEvents ==
  <<[name |-> "initialized", circle |-> CircleAddress, ledger |-> ledger,
     members |-> members, round_amount |-> round_amount],
    [name |-> "circle_created", circle |-> CircleAddress, ledger |-> ledger,
     creator |-> Creator]>>

\* The last join publishes active before its own joined.
JoinedEvents(m) ==
  (IF joined \cup {m} = MemberSet THEN <<Ev("active", m, 0, 0)>> ELSE <<>>)
    \o <<[name |-> "joined", circle |-> CircleAddress, ledger |-> ledger,
          member |-> m, join_order |-> Cardinality(joined \cup {m}),
          amount |-> CollateralDue]>>

DefaultEvent(m) ==
  Ev("default", m, round.round_index, PenaltyOf(collateral[m]))

\* The reputation contract's event, the payout, and what follows it.
SettledEvents(pot) ==
  LET r == round.round_index
  IN  <<[name |-> "score_updated", ledger |-> ledger,
         member |-> round.recipient, score |-> awarded[round.recipient] + 1],
        Ev("payout", round.recipient, r, pot)>>
      \o IF r + 1 >= N
           THEN <<Ev("completed", round.recipient, r, 0)>>
           ELSE <<Ev("round_started", members[r + 2], r + 1, 0)>>

\* The members of S in rotation order: the contract's loops over the members.
InRotation(S) ==
  LET upTo[i \in 0..N] ==
        IF i = 0 THEN <<>>
        ELSE IF members[i] \in S THEN Append(upTo[i - 1], members[i])
        ELSE upTo[i - 1]
  IN  upTo[N]

\* One default per member flagged now, then the marker of the exceptional
\* settlement.
ExceptionalEvents ==
  LET flagged == InRotation(Delinquent)
      paid    == contributed[round.round_index]
  IN  [i \in DOMAIN flagged |-> DefaultEvent(flagged[i])]
      \o <<[name |-> "exceptional_settlement", circle |-> CircleAddress,
            ledger |-> ledger, member |-> round.recipient,
            round |-> round.round_index, amount |-> SettlementPot,
            defaulted_count |-> N - Cardinality(paid)]>>

\* The release of each deposit is an event the indexer ignores.
ClosedEvents(closer) ==
  LET released == InRotation({m \in MemberSet : collateral[m] > 0})
  IN  [i \in DOMAIN released |->
         Ev("collateral_released", released[i], 0, collateral[released[i]])]
      \o <<[name |-> "closed", circle |-> CircleAddress, ledger |-> ledger,
            member |-> closer, amount |-> Total(collateral),
            reason |-> IF status = "Completed" THEN "completed"
                                               ELSE "cancelled"]>>

-----------------------------------------------------------------------------
(* Ingestion in chain order.                                               *)

Apply(s, e) ==
  IF e.name \in Ignored THEN s
  ELSE IF Rejects(s.tables, e) THEN [s EXCEPT !.rejected = @ \cup {e.name}]
  ELSE [s EXCEPT !.tables = Handle(@, e)]

Applied(s, events) == FoldLeft(Apply, s, events)

Deliver(events) ==
  LET after == Applied([tables |-> tables, rejected |-> rejected], events)
  IN  tables' = after.tables /\ rejected' = after.rejected

Ingest ==
  /\ pending # <<>>
  /\ Deliver(Head(pending))
  /\ pending' = Tail(pending)
  /\ UNCHANGED <<vars, altered>>

Lost(e) == [by |-> "loss", field |-> e.name,
            member |-> IF "member" \in DOMAIN e THEN e.member ELSE "",
            round |-> IF "round" \in DOMAIN e THEN e.round ELSE 0,
            seen |-> ""]

\* One event of the invocation fails and its savepoint is rolled back; the
\* others, and the cursor, go on.
IngestLosing ==
  /\ pending # <<>>
  /\ Cardinality({a \in altered : a.by = "loss"}) < MaxLost
  /\ \E i \in DOMAIN Head(pending) :
       /\ Head(pending)[i].name \in Losable
       /\ Deliver(RemoveAt(Head(pending), i))
       /\ altered' = altered \cup {Lost(Head(pending)[i])}
  /\ pending' = Tail(pending)
  /\ UNCHANGED vars

EventInit ==
  /\ Init
  /\ tables = EmptyTables /\ rejected = {}
  /\ pending = <<>> /\ altered = {}

Publish(events) ==
  /\ Len(pending) < MaxLag
  /\ pending' = Append(pending, events)
  /\ UNCHANGED <<tables, rejected, altered>>

Invocation ==
  \/ initialize /\ Publish(InitializedEvents)
  \/ \E a \in Address :
       \/ join(a) /\ Publish(JoinedEvents(a))
       \/ cancel(a) /\ Publish(<<Ev("cancelled", a, 0, 0)>>)
       \/ contribute(a)
            /\ Publish(<<Ev("contributed", a, round.round_index, round_amount)>>)
       \/ mark_default(a) /\ Publish(<<DefaultEvent(a)>>)
       \/ close(a) /\ Publish(ClosedEvents(a))
       \/ pause(a) /\ Publish(<<Ev("paused", a, 0, 0)>>)
       \/ resume(a) /\ Publish(<<Ev("resumed", a, 0, 0)>>)
  \/ payout /\ Publish(SettledEvents(round_amount * N))
  \/ settle_round
       /\ Publish(ExceptionalEvents \o SettledEvents(SettlementPot))

Quiet == (AdvanceLedger \/ add_authorized_caller) /\ UNCHANGED eventVars

EventNext ==
  \/ Invocation
  \/ Quiet
  \/ Ingest
  \/ IngestLosing

EventSpec == EventInit /\ [][EventNext]_allVars

-----------------------------------------------------------------------------
(* What the tables say of the contract.                                    *)

Row == tables.circles[CircleAddress]
MemberRow(m) == tables.circle_members[<<CircleAddress, m>>]

\* The indexer has caught up.
CaughtUp == pending = <<>> /\ status # "Uninitialized"

\* What the status column of the row should say: Closed on top of the rest.
RowStatus == IF closed THEN "Closed" ELSE status

Flags == {x \in MemberSet \X Rounds : x[1] \in defaulted[x[2]]}

\* The circle's row follows the contract: the status, the round (the number of
\* settled rounds, also after the last), the pause flag and what close released.
RowFollows ==
  /\ Row.status = RowStatus
  /\ Row.current_round = rounds_completed
  /\ Row.paused = paused
  /\ Row.member_count = N /\ Row.round_amount = round_amount
  /\ Row.creator = Creator
  /\ Row.close_reason = IF ~closed THEN ""
                        ELSE IF status = "Completed" THEN "completed"
                        ELSE "cancelled"

\* The history tables hold the contract's records and nothing else: each
\* contribution, one payout per settled round, to the member whose turn it was
\* and marked exceptional exactly when somebody had not paid, one default per
\* flag although two entry points raise them, join positions without gaps, and
\* the awarded scores.
HistoryFollows ==
  /\ {<<k[2], k[3]>> : k \in DOMAIN tables.contributions} =
       {x \in MemberSet \X Rounds : x[1] \in contributed[x[2]]}
  /\ DOMAIN tables.payouts =
       {<<CircleAddress, r>> : r \in 0..(rounds_completed - 1)}
  /\ \A r \in 0..(rounds_completed - 1) :
       LET p == tables.payouts[<<CircleAddress, r>>]
           missing == N - Cardinality(contributed[r])
       IN  /\ p.recipient = members[r + 1]
           /\ p.is_exceptional = (missing > 0)
           /\ p.defaulted_count = missing
  /\ {<<d.member, d.round>> : d \in DOMAIN tables.defaults} = Flags
  /\ \A d \in DOMAIN tables.defaults :
       /\ tables.defaults[d] = 1
       /\ \A e \in DOMAIN tables.defaults :
            d.member = e.member /\ d.round = e.round => d = e
  /\ \A m \in MemberSet : MemberRow(m).defaults = defaults[m]
  /\ {MemberRow(m).join_order : m \in joined} = 1..Cardinality(joined)
  /\ \A m \in MemberSet :
       (m \in DOMAIN tables.reputation \/ awarded[m] > 0)
         => tables.reputation[m] = awarded[m]

\* Whenever the indexer has caught up with the chain and no event was lost, the
\* tables agree with the contract; and no event is ever refused on the way:
\* every join finds its member row and every insert its circle.
TablesFollowContract ==
  altered = {} =>
    /\ rejected = {}
    /\ CaughtUp => RowFollows /\ HistoryFollows

Deposits(t) ==
  [k \in DOMAIN t.circle_members |-> t.circle_members[k].collateral]
Contributions(t) ==
  [k \in DOMAIN t.contributions |-> t.contributions[k].amount]
Payouts(t) == [k \in DOMAIN t.payouts |-> t.payouts[k].amount]
Releases(t) == [k \in DOMAIN t.circles |-> t.circles[k].total_released]

\* The token balance of the contract can then be computed from the tables
\* alone: deposits and contributions, less payouts and what close released.
BooksBalance ==
  (CaughtUp /\ altered = {}) =>
    vault = SumOf(Deposits(tables)) + SumOf(Contributions(tables))
            - SumOf(Payouts(tables)) - SumOf(Releases(tables))
=============================================================================
