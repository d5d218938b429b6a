-------------------------------- MODULE Api --------------------------------
(***************************************************************************)
(* What the indexer's HTTP API (indexer/src/api.ts) answers and what the    *)
(* SDK's IndexerClient (sdk/src/client.ts) makes of it.  An endpoint is a   *)
(* sequence of stages, each a set of queries that run in parallel; every    *)
(* query sees the tables as of the ledger that was committed last when it   *)
(* ran, so that the parts of one answer may come from different ledgers.    *)
(* Module Service runs the queries on the pool's connections, beside the    *)
(* poller that commits the ledgers.                                         *)
(***************************************************************************)
EXTENDS Projection, GroupRounds, Sums, FiniteSets, FiniteSetsExt

CONSTANTS
  Ledgers,              \* the events of each ledger, in order
  Addresses,            \* the circle addresses that are asked for
  Members,              \* the wallets that are asked for
  Limit,                \* rows per page
  MaxRows,              \* MAX_LIMIT of the grouped history
  CSV_EXPORT_MAX_ROWS,
  INDEXER_LAG_ALERT_LEDGERS,
  MaxPages              \* pages an IndexerClient iterator fetches

ASSUME ApiAssumption ==
  /\ Limit \in Nat \ {0} /\ MaxPages \in Nat \ {0}
  /\ MaxRows \in Nat /\ CSV_EXPORT_MAX_ROWS \in Nat
  /\ INDEXER_LAG_ALERT_LEDGERS \in Nat

\* A ledger is a sequence of events that have a handler.
ASSUME LedgersAssumption ==
  LET IsSequence(s) == Len(s) \in Nat /\ DOMAIN s = 1..Len(s)
  IN  /\ IsSequence(Ledgers)
      /\ \A v \in DOMAIN Ledgers :
           /\ IsSequence(Ledgers[v])
           /\ \A i \in DOMAIN Ledgers[v] :
                LET e == Ledgers[v][i]
                IN  /\ e.name \in Projected
                    /\ e.name = "contributed" => e.ledger \in Nat /\ e.round \in Nat

Version == 0..Len(Ledgers)

\* The result of a health check's query that failed.
Failed == -1

\* The derived tables after each ledger.
Tables ==
  LET after[v \in Version] ==
        IF v = 0 THEN EmptyTables
        ELSE FoldLeft(Handle, after[v - 1], Ledgers[v])
  IN  after

-----------------------------------------------------------------------------
(* Lists and pages.                                                        *)

FinalCircles == DOMAIN Tables[Len(Ledgers)].circles
FinalContributions == Tables[Len(Ledgers)].contributions

CreatedIn == [c \in FinalCircles |->
                Min({v \in Version : c \in DOMAIN Tables[v].circles})]

\* What breaks ties, an address or a serial number: no two rows have the same.
Numbering(rows) ==
  CHOOSE number \in Injection(rows, 1..Cardinality(rows)) : TRUE

Alphabet == Numbering(FinalCircles)
Serial == Numbering(DOMAIN FinalContributions)

\* ORDER BY created_ledger, address, as pairs of a row and one further down.
ByCreation ==
  {p \in FinalCircles \X FinalCircles :
     \/ CreatedIn[p[1]] < CreatedIn[p[2]]
     \/ CreatedIn[p[1]] = CreatedIn[p[2]] /\ Alphabet[p[1]] < Alphabet[p[2]]}

\* ORDER BY created_ledger DESC, address.
ByCreationDescending ==
  {p \in FinalCircles \X FinalCircles :
     \/ CreatedIn[p[1]] > CreatedIn[p[2]]
     \/ CreatedIn[p[1]] = CreatedIn[p[2]] /\ Alphabet[p[1]] < Alphabet[p[2]]}

\* ORDER BY ledger DESC, round_index DESC, id DESC.
ByLedgerDescending ==
  {p \in (DOMAIN FinalContributions) \X (DOMAIN FinalContributions) :
     LET ledger(k) == FinalContributions[k].ledger
     IN  \/ ledger(p[1]) > ledger(p[2])
         \/ /\ ledger(p[1]) = ledger(p[2])
            /\ \/ p[1][3] > p[2][3]
               \/ p[1][3] = p[2][3] /\ Serial[p[1]] > Serial[p[2]]}

\* The rows of a set one after the other: as many stand before the next one as
\* there are above it.
InOrder(rows, before) ==
  [i \in 1..Cardinality(rows) |->
     CHOOSE k \in rows : Cardinality({j \in rows : <<j, k>> \in before}) = i - 1]

\* The rows of a list as of a ledger.
RowsAt(list, m, v) ==
  IF list = "contributions"
    THEN {k \in DOMAIN Tables[v].contributions : k[2] = m}
    ELSE DOMAIN Tables[v].circles

\* The same in the order of the list.
ListAt(list, m, v) ==
  InOrder(RowsAt(list, m, v),
          CASE list = "asc"           -> ByCreation
            [] list = "desc"          -> ByCreationDescending
            [] list = "contributions" -> ByLedgerDescending)

\* LIMIT and OFFSET.
PageOf(rows, page) ==
  SubSeq(rows, (page - 1) * Limit + 1, Min({page * Limit, Len(rows)}))

totalPages(total) == (total + Limit - 1) \div Limit

-----------------------------------------------------------------------------
(* The endpoints: the stages of their queries.                             *)

listCircles == <<{"rows", "count"}>>
circlesSummary == <<{"count"}>>

\* A slip of circleDetail: all of its queries at once.
circleDetail_Parallel == <<{"circle", "members", "state"}>>

\* latestLedger is read last.
circleDetail == <<{"circle"}, {"members"}, {"state"}>>

circleMembers == <<{"circle"}, {"members", "totals"}>>
circleRounds == <<{"circle"}, {"payouts", "contributions", "defaults"}>>
circleHistory == <<{"circle"}, {"rows"}, {"count"}>>
memberContributions == <<{"rows", "count"}>>
memberReputation ==
  <<{"reputation"}, {"rows"}, {"count"}, {"contributions"}, {"defaults"}>>
auditEvents == <<{"circle"}, {"rows"}, {"count"}>>
exportCsv == <<{"circle"}, {"count"}, {"members"}, {"contributions"},
               {"defaults"}, {"payouts"}>>
indexerState == <<{"state", "events", "entities", "statuses"}>>

eventFailures == <<{"failures"}>>

\* The database and the RPC first, then what is compared with the RPC's ledger.
runAllHealthChecks == <<{"db", "rpc"}, {"lag", "drift", "failures"}>>

Stages ==
  [circles |-> listCircles, summary |-> circlesSummary,
   detail |-> circleDetail, members |-> circleMembers,
   rounds |-> circleRounds, history |-> circleHistory,
   contributions |-> memberContributions, reputation |-> memberReputation,
   audit |-> auditEvents, export |-> exportCsv, state |-> indexerState,
   failures |-> eventFailures, health |-> runAllHealthChecks]

Endpoints == DOMAIN Stages

\* The endpoints of one circle answer 404 when its row is not there yet.
OfCircle == {"detail", "members", "rounds", "history", "audit", "export"}

\* What is answered before any query: a parameter that its parser refuses, an
\* origin that is not allowed, a rate limit.
parseError == 400
corsRejection == 403
rateLimit == 429

-----------------------------------------------------------------------------
(* Rounds, grouped from four reads (indexer/src/groupRounds.ts).           *)

\* The round of each row of the three histories, as of three ledgers.
PaidRounds(c, v) == {k[2] : k \in {x \in DOMAIN Tables[v].payouts : x[1] = c}}
ContributedRounds(c, v) ==
  {k[3] : k \in {x \in DOMAIN Tables[v].contributions : x[1] = c}}
DefaultedRounds(c, v) ==
  {d.round : d \in {x \in DOMAIN Tables[v].defaults : x.circle = c}}

\* The ledgers are ones that the contract has written, so that after each of
\* them, though not between two, the tables agree with each other (theorem
\* TablesFollow of module EventProofs): the round that a circle is in has not
\* been paid out, nobody defaults twice in a round or pays without a deposit,
\* and a round is settled normally when every member has paid.
ASSUME ContractAssumption ==
  \A v \in Version : \A c \in DOMAIN Tables[v].circles :
    LET t == Tables[v]
    IN  /\ t.circles[c].status \in {"Active", "Cancelled"} =>
             t.circles[c].current_round \notin PaidRounds(c, v)
        /\ \A d \in DOMAIN t.defaults : d.circle = c => t.defaults[d] = 1
        /\ \A k \in DOMAIN t.contributions :
             k[1] = c => t.circle_members[<<c, k[2]>>].collateral > 0
        /\ \A p \in DOMAIN t.payouts : p[1] = c /\ ~t.payouts[p].is_exceptional =>
             \A k \in DOMAIN t.circle_members :
               k[1] = c => <<c, k[2], p[2]>> \in DOMAIN t.contributions

-----------------------------------------------------------------------------
(* Requests.                                                               *)

\* A request: where it is in its stages (todo: queries waiting for a
\* connection, running: queries that hold one), the ledger at which each query
\* that has finished saw the tables, and the status of the answer, 0 before.
Call(endpoint, list, c, m, page) ==
  [endpoint |-> endpoint, list |-> list, circle |-> c, member |-> m,
   page |-> page, stage |-> 1, todo |-> Stages[endpoint][1], running |-> {},
   at |-> <<>>, status |-> 0]

\* The client has nothing under way.
NoCall == [endpoint |-> "none", list |-> "", circle |-> "", member |-> "",
           page |-> 0, stage |-> 1, todo |-> {}, running |-> {}, at |-> <<>>,
           status |-> 200]

\* A slip of withTransaction: no isolation level beyond the default.
SnapshotOf_ReadCommitted(call, version) == version

\* The export's transaction is REPEATABLE READ: its first query fixes what all
\* of them see.  Any other query sees the latest commit.
SnapshotOf(call, version) ==
  IF call.endpoint = "export" /\ call.at # <<>>
    THEN Min({call.at[q] : q \in DOMAIN call.at})
    ELSE version

RowsOf(c, v) ==
  LET t == Tables[v]
  IN  Cardinality({k \in DOMAIN t.circle_members : k[1] = c})
      + Cardinality({k \in DOMAIN t.contributions : k[1] = c})
      + SumOf([d \in {x \in DOMAIN t.defaults : x.circle = c} |-> t.defaults[d]])
      + Cardinality({k \in DOMAIN t.payouts : k[1] = c})

\* Rows beyond the cap of 100 of a kind: the rounds are refused.
RoundsTooLarge(call) ==
  LET c == call.circle
      t(q) == Tables[call.at[q]]
  IN  \/ Cardinality({k \in DOMAIN t("payouts").payouts : k[1] = c}) > MaxRows
      \/ Cardinality({k \in DOMAIN t("contributions").contributions :
                        k[1] = c}) > MaxRows

\* The records of the export's file, from its four reads.
buildCircleActivityCsv(call) ==
  LET c == call.circle
      t(q) == Tables[call.at[q]]
  IN  [member |-> {k \in DOMAIN t("members").circle_members : k[1] = c},
       contribution |-> {k \in DOMAIN t("contributions").contributions :
                           k[1] = c},
       default |-> {d \in DOMAIN t("defaults").defaults : d.circle = c},
       payout |-> {k \in DOMAIN t("payouts").payouts : k[1] = c}]

ExportTooLarge(call) ==
  RowsOf(call.circle, call.at["count"]) > CSV_EXPORT_MAX_ROWS

\* Lag is measured against the ledger that the RPC has named.
checkIndexerLag(call) ==
  /\ call.at["rpc"] # Failed /\ call.at["lag"] # Failed
  /\ call.at["rpc"] - call.at["lag"] <= INDEXER_LAG_ALERT_LEDGERS

\* No drift is ever reported: reading the round on-chain starts by looking up
\* an account under the circle's address, which contracts do not have.
checkContractStateDrift(call) == call.at["drift"] # Failed

\* The status of the health report: 200 only if every component is in order.
HealthStatus(call, schemaInOrder, fewSkippedEvents) ==
  IF /\ call.at["db"] # Failed /\ call.at["failures"] # Failed
     /\ checkIndexerLag(call) /\ checkContractStateDrift(call)
     /\ schemaInOrder /\ fewSkippedEvents
    THEN 200 ELSE 503

\* The next stage when the last query of one is over, or the answer.
Proceed(call, answer) ==
  CASE call.todo \cup call.running # {} -> call
    [] call.todo \cup call.running = {} /\ call.stage < Len(Stages[call.endpoint]) ->
         [call EXCEPT !.stage = @ + 1,
                      !.todo = Stages[call.endpoint][call.stage + 1]]
    [] OTHER -> [call EXCEPT !.status = answer]

\* What the request's queries so far amount to: not found, too large, an error
\* or the answer.
StatusOf(call, schemaInOrder, fewSkippedEvents) ==
  CASE call.endpoint = "rounds" /\ RoundsTooLarge(call) -> 413
    [] call.endpoint = "health" -> HealthStatus(call, schemaInOrder, fewSkippedEvents)
    [] OTHER -> 200

\* Where it matters for an answer when its query ran.
Dated(endpoint, q) ==
  \/ endpoint \in {"circles", "contributions", "detail", "rounds", "export"}
  \/ q \in {"circle", "rpc", "lag"}

\* A query is over; seen is the ledger it saw, or Failed.
Over(call, q, seen) ==
  LET ledger == IF seen = Failed \/ Dated(call.endpoint, q) THEN seen ELSE 0
  IN  [call EXCEPT !.todo = @ \ {q}, !.running = @ \ {q},
                   !.at = [r \in DOMAIN call.at \cup {q} |->
                             IF r \in DOMAIN call.at THEN call.at[r] ELSE ledger]]

\* Not found and too large are answered at once.
Refusal(call, q) ==
  CASE q = "circle" /\ call.circle \notin DOMAIN Tables[call.at[q]].circles -> 404
    [] q = "count" /\ call.endpoint = "export" /\ ExportTooLarge(call) -> 413
    [] OTHER -> 0

-----------------------------------------------------------------------------
(* Walks: iterateCircles and iterateMemberContributions.                   *)

\* shown is what the pages have yielded, since the ledger when the walk began.
Walk(list, m, version) ==
  [list |-> list, member |-> m, page |-> 1, since |-> version, shown |-> <<>>,
   end |-> "no"]

NoWalk == [list |-> "none", member |-> "", page |-> 0, since |-> 0,
           shown |-> <<>>, end |-> "no"]

\* The rows and the total of a page, each as of its own ledger.
PageRows(call) ==
  PageOf(ListAt(call.list, call.member, call.at["rows"]), call.page)
PageTotal(call) == Len(ListAt(call.list, call.member, call.at["count"]))

\* A slip of paginate: as many pages as there were when the walk began.
paginate_FirstTotal(walk, call) ==
  LET last == walk.page >=
                totalPages(Len(ListAt(walk.list, walk.member, walk.since)))
  IN  [walk EXCEPT !.shown = @ \o PageRows(call), !.page = @ + 1,
                   !.end = IF last THEN "done" ELSE "no"]

\* After a page: the last one by its own count, an empty one, or the bound.
paginate(walk, call) ==
  LET rows == PageRows(call)
      last == walk.page >= totalPages(PageTotal(call)) \/ rows = <<>>
  IN  [walk EXCEPT !.shown = @ \o rows, !.page = @ + 1,
                   !.end = CASE last -> "done"
                             [] ~last /\ walk.page >= MaxPages -> "bound"
                             [] OTHER -> "no"]
=============================================================================
