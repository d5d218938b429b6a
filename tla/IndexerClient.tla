--------------------------- MODULE IndexerClient ---------------------------
(***************************************************************************)
(* The contract between the SDK's IndexerClient (sdk/src/client.ts) and the *)
(* indexer's API (indexer/src/api.ts): the options one lets pass and the    *)
(* parameters the other accepts, the envelope one demands and the body the  *)
(* other sends, and what becomes of an answer or of none.                   *)
(***************************************************************************)
EXTENDS Api

-----------------------------------------------------------------------------
(* Query parameters.  A number is one of the places where a rule changes.   *)

Absent == -1
NotANumber == -2
Hundred == 2             \* MAX_LIMIT, INDEXER_MAX_PAGE_SIZE
Largest == 4             \* the largest page whose offset is a safe integer
LargestSafe == 5         \* Number.MAX_SAFE_INTEGER
Numbers == {NotANumber, Absent} \cup 0..LargestSafe + 1

SORTABLE_FIELDS == {"created_ledger", "updated_at", "round_amount", "member_count", "status"}
CIRCLE_STATUSES == {"Pending", "Active", "Completed", "Cancelled", "Closed"}

parsePage(v) == v = Absent \/ v \in 1..Largest
parseLimit(v) == v = Absent \/ v \in 1..Hundred

CIRCLE_SORT_FIELDS == {"created_ledger", "updated_at", "round_amount", "member_count", "status"}
CIRCLE_STATUS_FILTERS == {"Pending", "Active", "Completed", "Cancelled", "Closed"}

\* QueryProblems.integer: undefined, or a safe integer within the bounds.
integer(v, lowest, highest) ==
  v = Absent \/ (v \in 0..LargestSafe /\ v >= lowest /\ v <= highest)

\* What the builders let pass; the page of a list of circles has no bound of
\* its own.
buildCirclesQuery(page, limit) ==
  integer(page, 1, LargestSafe) /\ integer(limit, 1, Hundred)
buildContributionsQuery(page, limit) ==
  integer(page, 1, Largest) /\ integer(limit, 1, Hundred)

-----------------------------------------------------------------------------
(* Bodies and envelopes.                                                   *)

\* The fields of each body that a client can rely on, with their types.
Body ==
  [circles |-> [circles |-> "array", pagination |-> "object"],
   detail |-> [circle |-> "object", members |-> "array"],
   members |-> [members |-> "array", totals |-> "object"],
   rounds |-> [rounds |-> "array", openRounds |-> "array", pendingDefaults |-> "array"],
   history |-> [circle_address |-> "string", events |-> "array", pagination |-> "object"],
   contributions |-> [member |-> "string", contributions |-> "array",
                      totalAmount |-> "string", pagination |-> "object"],
   reputation |-> [member |-> "string", found |-> "boolean", pagination |-> "object",
                   score |-> "number", contributions |-> "array", defaults |-> "array"],
   audit |-> [circle_address |-> "string", events |-> "array", pagination |-> "object"],
   health |-> [status |-> "string", serviceStatus |-> "string"]]

\* A method of IndexerClient: its endpoint, the envelope it demands, and
\* whether it checks the pagination (getPage) or leaves it (get).
Get(endpoint, envelope) == [endpoint |-> endpoint, envelope |-> envelope, paged |-> FALSE]
GetPage(endpoint, items) ==
  [endpoint |-> endpoint,
   envelope |-> [key \in {items, "pagination"} |->
                   IF key = items THEN "array" ELSE "object"],
   paged |-> TRUE]

getCircles == GetPage("circles", "circles")
getCircleDetail == Get("detail", [circle |-> "object", members |-> "array"])
getMembers == Get("members", [members |-> "array"])
getRounds == Get("rounds", [rounds |-> "array", pendingDefaults |-> "array"])
getReputation == Get("reputation", [contributions |-> "array", defaults |-> "array"])
getMemberContributions == GetPage("contributions", "contributions")
getCircleHistory == GetPage("history", "events")
getCircleAuditEvents == Get("audit", [events |-> "array"])
health == Get("health", [status |-> "string"])

Methods ==
  {getCircles, getCircleDetail, getMembers, getRounds, getReputation,
   getMemberContributions, getCircleHistory, getCircleAuditEvents, health}

\* The body has every field of the envelope, with its type.
validateEnvelope(body, envelope) ==
  \A key \in DOMAIN envelope : key \in DOMAIN body /\ body[key] = envelope[key]

\* historyMetadata, and what the lists send: the page and the limit that were
\* asked for, and two numbers that follow from the count.
Pagination(page, total) ==
  [page |-> page, limit |-> Limit, total |-> total, totalPages |-> totalPages(total)]

\* getPage refuses another page or limit than it asked for, numbers that are
\* none, and more rows than the limit.
getPage(requested, pagination, rows) ==
  /\ pagination.page >= 1 /\ pagination.limit >= 1
  /\ pagination.total >= 0 /\ pagination.totalPages >= 0
  /\ pagination.page = requested /\ pagination.limit = Limit
  /\ Len(rows) <= pagination.limit

-----------------------------------------------------------------------------
(* A request and its end.                                                  *)

\* What can happen to it: no connection, the client's timer, the caller's abort
\* before or after the answer began, or an answer, with JSON or without.
Outcomes ==
  [how : {"network", "timeout", "aborted"}]
    \cup [how : {"answer"}, status : {200, 400, 403, 404, 413, 429, 500, 503},
          json : BOOLEAN, fits : BOOLEAN]

\* The kind of the IndexerError, or "none" with the body.
request(o) ==
  CASE o.how # "answer" -> o.how
    [] o.how = "answer" /\ o.status # 200 -> "http"
    [] o.how = "answer" /\ o.status = 200 /\ ~o.json -> "json"
    [] o.how = "answer" /\ o.status = 200 /\ o.json /\ ~o.fits -> "schema"
    [] OTHER -> "none"

\* IndexerError.retryable.
retryable(o) ==
  \/ request(o) \in {"network", "timeout"}
  \/ request(o) = "http" /\ (o.status = 429 \/ o.status >= 500)

-----------------------------------------------------------------------------
\* Every body satisfies the method that asks for it; the client lets pass what
\* the API accepts and, but for a page of circles beyond every offset, nothing
\* else; a retry is suggested for what may pass (no connection, the timeout, a
\* limit on the rate, a failure or bad health of the service) and for nothing
\* that will be the same again.
ClientFitsApi ==
  /\ \A method \in Methods : validateEnvelope(Body[method.endpoint], method.envelope)
  /\ CIRCLE_SORT_FIELDS = SORTABLE_FIELDS /\ CIRCLE_STATUS_FILTERS = CIRCLE_STATUSES
  /\ \A page, limit \in Numbers :
       /\ buildContributionsQuery(page, limit) <=> parsePage(page) /\ parseLimit(limit)
       /\ buildCirclesQuery(page, limit) /\ page <= Largest
            <=> parsePage(page) /\ parseLimit(limit)
  /\ \A o \in Outcomes :
       retryable(o) <=> \/ o.how \in {"network", "timeout"}
                        \/ o.how = "answer" /\ o.status \in {429, 500, 503}
=============================================================================
