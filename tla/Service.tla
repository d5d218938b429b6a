------------------------------ MODULE Service ------------------------------
(***************************************************************************)
(* The indexer as a process (indexer/src/index.ts): it boots, serves the    *)
(* API, polls, and on a signal stops its parts one after the other.  The    *)
(* poller and the requests share a pool of connections (db/pool.ts).  One   *)
(* client, an SDK IndexerClient, is followed request by request and page by *)
(* page; the other clients are a number of requests under way.              *)
(***************************************************************************)
EXTENDS IndexerClient

CONSTANTS
  DB_POOL_MAX,
  MaxOthers            \* bound: requests of other clients under way

ASSUME ServiceAssumption == DB_POOL_MAX \in Nat \ {0} /\ MaxOthers \in Nat

VARIABLES
  version,   \* the ledgers that are committed
  phase,     \* where the process is
  exit,      \* how it has ended: clean, forced or died
  poller,    \* off, idle, cycle (a cycle is in flight) or tx (in a transaction)
  others,    \* requests of other clients, each on a connection
  strays,    \* connections held by queries that nobody waits for any more
  call,      \* the client's request
  walk,      \* the client's walk
  cut        \* history: a request found the pool closed

process == <<phase, exit>>
client == <<call, walk>>
vars == <<version, process, poller, others, strays, client, cut>>

Listening == phase \in {"serving", "poller"}
Stopping == phase \in {"poller", "http", "pool"}

\* The export holds one connection from its first query to its answer.
HeldBy(c) ==
  IF c.status # 0 THEN 0
  ELSE IF c.endpoint = "export"
    THEN (IF c.at = <<>> /\ c.running = {} THEN 0 ELSE 1)
    ELSE Cardinality(c.running)

InUse == HeldBy(call) + others + strays + (IF poller = "tx" THEN 1 ELSE 0)

\* A connection can be had: acquireClient.
acquireClient == InUse < DB_POOL_MAX /\ phase # "pool"

TypeOK ==
  /\ version \in Version
  /\ phase \in {"connecting", "migrating", "serving", "poller", "http", "pool",
                "exited"}
  /\ exit \in {"none", "clean", "forced", "died"}
  /\ (exit = "none") = (phase # "exited")
  /\ poller \in {"off", "idle", "cycle", "tx"}
  /\ others \in 0..MaxOthers /\ strays \in Nat /\ InUse <= DB_POOL_MAX
  /\ call.endpoint \in Endpoints \cup {"none"}
  /\ walk.end \in {"no", "done", "bound", "failed"} /\ cut \in BOOLEAN

Init ==
  /\ version = 0 /\ phase = "connecting" /\ exit = "none" /\ poller = "off"
  /\ others = 0 /\ strays = 0 /\ call = NoCall /\ walk = NoWalk /\ cut = FALSE

-----------------------------------------------------------------------------
(* Boot.                                                                   *)

\* connectWithRetry has reached the database.
connectWithRetry ==
  /\ phase = "connecting"
  /\ phase' = "migrating"
  /\ UNCHANGED <<version, exit, poller, others, strays, client, cut>>

\* The migrations are applied; the API listens before the poller starts.
main ==
  /\ phase = "migrating"
  /\ phase' = "serving" /\ poller' = "cycle"
  /\ UNCHANGED <<version, exit, others, strays, client, cut>>

\* The process is gone, and with it what it was doing and what the client was
\* waiting for.
Exit(how) ==
  /\ phase' = "exited" /\ exit' = how
  /\ poller' = "off" /\ others' = 0 /\ strays' = 0
  /\ call' = [NoCall EXCEPT !.status = -1] /\ walk' = NoWalk
  /\ UNCHANGED <<version, cut>>

\* No database after the last attempt, a migration that fails, a signal before
\* the handlers are installed, an uncaught exception.
Dies == phase # "exited" /\ Exit("died")

-----------------------------------------------------------------------------
(* The poller: see module Indexer for what a cycle does.                   *)

tick ==
  /\ poller = "idle" /\ phase = "serving"
  /\ poller' = "cycle"
  /\ UNCHANGED <<version, process, others, strays, client, cut>>

\* withTransaction, once per ledger; a stop request is seen between two.
BeginLedger ==
  /\ poller = "cycle" /\ phase = "serving" /\ version < Len(Ledgers)
  /\ acquireClient
  /\ poller' = "tx"
  /\ UNCHANGED <<version, process, others, strays, client, cut>>

CommitLedger ==
  /\ poller = "tx"
  /\ poller' = "cycle" /\ version' = version + 1
  /\ UNCHANGED <<process, others, strays, client, cut>>

RollBackLedger ==
  /\ poller = "tx"
  /\ poller' = "cycle"
  /\ UNCHANGED <<version, process, others, strays, client, cut>>

\* The cycle is over, its backoff included.
EndCycle ==
  /\ poller = "cycle"
  /\ poller' = "idle"
  /\ UNCHANGED <<version, process, others, strays, client, cut>>

-----------------------------------------------------------------------------
(* Other clients, and queries whose request is over.                       *)

OtherArrives ==
  /\ Listening /\ others < MaxOthers /\ acquireClient
  /\ others' = others + 1
  /\ UNCHANGED <<version, process, poller, strays, client, cut>>

OtherAnswered ==
  /\ others > 0
  /\ others' = others - 1
  /\ UNCHANGED <<version, process, poller, strays, client, cut>>

\* One query of several has failed: the request is over, the others run on.
OtherAbandons ==
  /\ others > 0
  /\ others' = others - 1 /\ strays' = strays + 1
  /\ UNCHANGED <<version, process, poller, client, cut>>

\* It ends by itself, or Postgres cancels it: statement_timeout.
StrayEnds ==
  /\ strays > 0
  /\ strays' = strays - 1
  /\ UNCHANGED <<version, process, poller, others, client, cut>>

-----------------------------------------------------------------------------
(* The client's requests.                                                  *)

Idle == call.status # 0 /\ (walk.list = "none" \/ walk.end # "no")

Request(e) ==
  /\ Idle /\ Listening
  /\ \E c \in Addresses : call' = Call(e, "", IF e \in OfCircle THEN c ELSE "", "", 1)
  /\ walk' = NoWalk
  /\ UNCHANGED <<version, process, poller, others, strays, cut>>

Refused ==
  /\ Idle /\ Listening
  /\ \E status \in {parseError, corsRejection, rateLimit} :
       call' = [NoCall EXCEPT !.status = status]
  /\ walk' = NoWalk
  /\ UNCHANGED <<version, process, poller, others, strays, cut>>

PageCall(w) ==
  Call(IF w.list = "contributions" THEN "contributions" ELSE "circles",
       w.list, "", w.member, w.page)

\* iterateCircles, by creation in either order, or iterateMemberContributions.
StartWalk(list, m) ==
  /\ Idle /\ Listening
  /\ walk' = Walk(list, m, version)
  /\ call' = PageCall(walk')
  /\ UNCHANGED <<version, process, poller, others, strays, cut>>

NextPage ==
  /\ walk.end = "no" /\ walk.list # "none" /\ call.status = 200
  /\ walk' = paginate(walk, call)
  /\ call' = IF walk'.end # "no" THEN call
             ELSE IF Listening THEN PageCall(walk')
             ELSE [NoCall EXCEPT !.status = -1]
  /\ UNCHANGED <<version, process, poller, others, strays, cut>>

\* An IndexerError ends the iteration.
WalkFails ==
  /\ walk.end = "no" /\ walk.list # "none" /\ call.status \notin {0, 200}
  /\ walk' = [walk EXCEPT !.end = "failed"]
  /\ UNCHANGED <<version, process, poller, others, strays, call, cut>>

\* The client's timeout or abort: what the server still does about it is of no
\* consequence to anybody.
GiveUp ==
  /\ call.status = 0
  /\ call' = [NoCall EXCEPT !.status = -1]
  /\ strays' = strays + HeldBy(call)
  /\ UNCHANGED <<version, process, poller, others, walk, cut>>

-----------------------------------------------------------------------------
(* The queries of the client's request.                                    *)

StartQuery(q) ==
  /\ call.status = 0 /\ q \in call.todo /\ q # "rpc"
  /\ acquireClient \/ (call.endpoint = "export" /\ HeldBy(call) = 1)
  /\ call' = [call EXCEPT !.todo = @ \ {q}, !.running = @ \cup {q}]
  /\ UNCHANGED <<version, process, poller, others, strays, walk, cut>>

\* The schema's state, cached at boot, and the number of skipped events count
\* in the health report too.
FinishQuery(q) ==
  /\ call.status = 0 /\ q \in call.running
  /\ \E read \in {Over(call, q, SnapshotOf(call, version))},
        schema, failures \in BOOLEAN :
       LET refusal == Refusal(read, q)
       IN  call' = IF refusal # 0
                     THEN [read EXCEPT !.status = refusal, !.todo = {},
                                       !.running = {}]
                   ELSE Proceed(read, StatusOf(read, schema, failures))
  /\ UNCHANGED <<version, process, poller, others, strays, walk, cut>>

\* The RPC names the ledger the chain has reached, or does not answer.
RpcAnswers ==
  /\ call.status = 0 /\ "rpc" \in call.todo
  /\ \E h \in (version..Len(Ledgers)) \cup {Failed} :
       call' = Proceed(Over(call, "rpc", h), 200)
  /\ UNCHANGED <<version, process, poller, others, strays, walk, cut>>

\* A slip of QueryFails: a connection is waited for without a limit.
QueryFails_NoAcquireTimeout(q) ==
  /\ call.status = 0 /\ call.endpoint # "health" /\ q \in call.running
  /\ call' = [NoCall EXCEPT !.status = 500]
  /\ strays' = IF call.endpoint = "export" THEN strays
               ELSE strays + Cardinality(call.running \ {q})
  /\ UNCHANGED <<version, process, poller, others, walk, cut>>

\* No connection in time (PoolSaturationError), statement_timeout, or any other
\* error of the database: the request fails, and leaves its parallel queries to
\* themselves.  The export rolls back.
QueryFails(q) ==
  /\ call.status = 0 /\ call.endpoint # "health"
  /\ q \in call.todo \cup call.running
  /\ call' = [NoCall EXCEPT !.status = 500]
  /\ strays' = IF call.endpoint = "export" THEN strays
               ELSE strays + Cardinality(call.running \ {q})
  /\ cut' = (cut \/ phase = "pool")
  /\ UNCHANGED <<version, process, poller, others, walk>>

\* A health check that fails or times out is reported; its query may run on.
CheckFails(q) ==
  /\ call.status = 0 /\ call.endpoint = "health"
  /\ q \in (call.todo \ {"rpc"}) \cup call.running
  /\ LET read == Over(call, q, Failed)
     IN  call' = Proceed(read, StatusOf(read, TRUE, TRUE))
  /\ \/ strays' = strays
     \/ q \in call.running /\ strays' = strays + 1
  /\ UNCHANGED <<version, process, poller, others, walk, cut>>

-----------------------------------------------------------------------------
(* gracefulShutdown: the poller, then the HTTP server, then the pool.      *)

Signal ==
  /\ phase = "serving"
  /\ phase' = "poller"
  /\ UNCHANGED <<version, exit, poller, others, strays, client, cut>>

\* A slip of PollerStopped: the cycle in flight is not waited for.
PollerStopped_AtOnce ==
  /\ phase = "poller"
  /\ phase' = "http" /\ poller' = poller
  /\ UNCHANGED <<version, exit, others, strays, client, cut>>

\* stopIndexer waits for the cycle in flight.
PollerStopped ==
  /\ phase = "poller" /\ poller = "idle"
  /\ phase' = "http" /\ poller' = "off"
  /\ UNCHANGED <<version, exit, others, strays, client, cut>>

\* server.close: no new connections, and every request answered.
HttpClosed ==
  /\ phase = "http" /\ call.status # 0 /\ others = 0
  /\ phase' = "pool"
  /\ UNCHANGED <<version, exit, poller, others, strays, client, cut>>

\* pool.end: every connection given back.
PoolEnded ==
  /\ phase = "pool" /\ InUse = 0
  /\ Exit("clean")

\* The timer of SHUTDOWN_GRACE_PERIOD_MS.
ForceExit == Stopping /\ Exit("forced")

-----------------------------------------------------------------------------
Open == call.todo \cup call.running

Next ==
  \/ connectWithRetry \/ main \/ Dies
  \/ tick \/ BeginLedger \/ CommitLedger \/ RollBackLedger \/ EndCycle
  \/ OtherArrives \/ OtherAnswered \/ OtherAbandons \/ StrayEnds
  \/ \E e \in Endpoints \ {"circles", "contributions"} : Request(e)
  \/ Refused
  \/ \E list \in {"asc", "desc"} : StartWalk(list, "")
  \/ \E m \in Members : StartWalk("contributions", m)
  \/ NextPage \/ WalkFails \/ GiveUp
  \/ \E q \in Open : \/ StartQuery(q) \/ FinishQuery(q)
                     \/ QueryFails(q) \/ CheckFails(q)
  \/ RpcAnswers
  \/ Signal \/ PollerStopped \/ HttpClosed \/ PoolEnded \/ ForceExit

Spec == Init /\ [][Next]_vars

-----------------------------------------------------------------------------
(* Properties.                                                             *)

\* The answer of an endpoint is there.
Answered(e) == call.endpoint = e /\ call.status = 200

\* The export is one moment of the circle although the poller commits between
\* its queries: it has exactly the rows that were counted against the limit,
\* whoever has paid is listed with a deposit, and a round that was settled
\* normally comes with the contribution of every member.
ExportIsSnapshot ==
  Answered("export") =>
    LET file == buildCircleActivityCsv(call)
        members == Tables[call.at["members"]].circle_members
        payouts == Tables[call.at["payouts"]].payouts
    IN  /\ Cardinality(file.member) + Cardinality(file.contribution)
             + Cardinality(file.default) + Cardinality(file.payout)
             = RowsOf(call.circle, call.at["count"])
        /\ \A k \in file.contribution : members[<<k[1], k[2]>>].collateral > 0
        /\ \A k \in file.payout : ~payouts[k].is_exceptional =>
             \A m \in file.member :
               <<k[1], m[2], k[2]>> \in file.contribution

\* The rounds are grouped from four reads at up to four ledgers.  Whatever is
\* committed between them, a round shown as completed is settled, one shown as
\* current was not when its payout was looked for, and the current round of an
\* active circle is missing only if it was settled between the two reads.
RoundsAreSound ==
  Answered("rounds") =>
    LET c == call.circle
        row == Tables[call.at["circle"]].circles[c]
        paid == PaidRounds(c, call.at["payouts"])
        groups == groupCircleRounds(row, paid,
                    ContributedRounds(c, call.at["contributions"]),
                    DefaultedRounds(c, call.at["defaults"]))
        current == {r \in DOMAIN groups : groups[r] \in {"current", "cancelled"}}
    IN  /\ \A r \in DOMAIN groups :
             groups[r] = "completed" => r \in PaidRounds(c, version)
        /\ current \cap paid = {}
        /\ row.status \in {"Active", "Cancelled"} =>
             \/ current = {row.current_round}
             \/ row.current_round
                  \in paid \ PaidRounds(c, call.at["circle"])

\* A circle's rows are never newer than the latestLedger they are sent with: a
\* client that waits until the indexer has reached a ledger does not take
\* earlier rows for that ledger's, nor rows of a later one for them.
DetailIsStamped ==
  Answered("detail") =>
    \A q \in DOMAIN call.at : call.at[q] <= call.at["state"]

\* A page whose rows and count come from two ledgers is one that the client
\* accepts.
PagesFit ==
  call.endpoint \in {"circles", "contributions"} /\ call.status = 200 =>
    getPage(call.page, Pagination(call.page, PageTotal(call)), PageRows(call))

\* An answer put together from several reads is sound in what it can promise,
\* and the client that asked for it takes it as it is meant.
AnswersAreSound == RoundsAreSound /\ DetailIsStamped /\ PagesFit /\ ClientFitsApi

\* An iteration that has come to its end has shown every row that was there
\* when it began, although rows are added while it goes from page to page; in
\* order of creation also none twice.  In the other order, the only one for
\* contributions, new rows push the last ones over the end of the page, and the
\* iteration ends before them if that page was counted before it was read.
WalkFindsAll ==
  walk.end = "done" =>
    LET length(q) == Len(ListAt(walk.list, walk.member, call.at[q]))
        old == ToSet(ListAt(walk.list, walk.member, walk.since))
    IN  /\ old \subseteq ToSet(walk.shown)
             \/ (walk.list # "asc" /\ length("count") < length("rows"))
        /\ walk.list = "asc" => IsInjective(walk.shown)

\* An exit code of zero means that nothing was cut off: no transaction, no
\* request and no query was under way when the pool was closed.
CleanExit ==
  /\ ~cut
  /\ phase = "pool" => poller \in {"off", "idle"} /\ others = 0 /\ call.status # 0
  /\ exit = "clean" => InUse = 0

\* What the code guarantees by its timeouts: connections are waited for at
\* most DB_ACQUIRE_TIMEOUT_MS, statements end, the RPC calls of the health
\* checks are given up, the grace period is kept.  Nothing is assumed of who
\* gets a connection.
Fairness ==
  /\ WF_vars(\E q \in Open : QueryFails(q) \/ CheckFails(q) \/ FinishQuery(q))
  /\ WF_vars(RpcAnswers)
  /\ WF_vars(ForceExit)

FairSpec == Spec /\ Fairness

\* Whatever the other clients, the poller and the queries that were left behind
\* do with the pool, a request is answered, and a process that was told to stop
\* is gone.
NothingHangs ==
  /\ call.status = 0 ~> call.status # 0
  /\ Stopping ~> phase = "exited"
=============================================================================
