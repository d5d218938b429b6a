----------------------------- MODULE CirclePage -----------------------------
(***************************************************************************)
(* The circle page of the web application (app/src/app/circles/[address])   *)
(* beside the contract and the indexer: what it shows of a circle and which *)
(* buttons it offers to a wallet.  The page sends two requests at once, for *)
(* the circle and for its rounds, and the API answers each with several     *)
(* queries outside a transaction, so that the parts of one page may come    *)
(* from different versions of the tables, none of which need be the latest. *)
(* A page is a function of the versions its queries saw; only the versions  *)
(* are state, and the properties quantify over all the pages they allow.    *)
(***************************************************************************)
EXTENDS CircleEvents, GroupRounds

App == INSTANCE AppGates
Sdk == INSTANCE Gates

CONSTANT
  MaxTorn          \* bound: versions of the tables a page's queries span

\* No address is the empty string, which stands for a recipient nobody knows.
ASSUME AddressAssumption == "" \notin Address

VARIABLE
  past             \* the versions before the latest, newest last

pageVars == <<allVars, past>>
Null == Sdk!Null

-----------------------------------------------------------------------------
(* The two requests.                                                       *)

\* No handler writes circles.round_deadline_ledgers: the column is NULL.
round_deadline_column == Null

circleDeadline(row) ==
  IF round_deadline_column = Null \/ row.status # "Active" THEN Null
  ELSE (row.current_round + 1) * round_deadline_column

\* The member rows in the order of the rotation, none before the circle's
\* initialized event.
parseMemberRows(t) ==
  LET all == {k[2] : k \in DOMAIN t.circle_members}
  IN  [i \in 1..Cardinality(all) |->
         CHOOSE m \in all : t.circle_members[<<CircleAddress, m>>].payout_order
                              = i - 1]

\* A slip: a round's defaults are not told apart by round.
DefaultsOf_AnyRound(t, r) == {d.member : d \in DOMAIN t.defaults}

DefaultsOf(t, r) ==
  {d.member : d \in {x \in DOMAIN t.defaults : x.round = r}}

ContributionsOf(t, r) ==
  {k[2] : k \in {x \in DOMAIN t.contributions : x[3] = r}}

\* The rounds response from the circle's row and the three histories;
\* currentRound is a set of at most one round.
RoundsResponse(row, payouts, contributions, defaulters) ==
  LET p == payouts.payouts
      paid == {k[2] : k \in DOMAIN p}
      groups == groupCircleRounds(row, paid,
                  {k[3] : k \in DOMAIN contributions.contributions},
                  {d.round : d \in DOMAIN defaulters.defaults})
      With(phases) ==
        {[roundIndex |-> r, status |-> groups[r],
          recipient |-> IF r \in paid THEN p[<<CircleAddress, r>>].recipient
                                      ELSE "",
          amount |-> IF r \in paid THEN p[<<CircleAddress, r>>].amount
                                   ELSE Null,
          contributions |-> ContributionsOf(contributions, r),
          defaults |-> DefaultsOf(defaulters, r)]
         : r \in {x \in DOMAIN groups : groups[x] \in phases}}
  IN  [rounds |-> With({"completed"}), openRounds |-> With({"open"}),
       currentRound |-> With({"current", "cancelled"}),
       pendingDefaults |-> {d \in DOMAIN defaulters.defaults : d.round \notin paid}]

\* What stands in for a rounds request that failed.
NoRoundsResponse ==
  [rounds |-> {}, openRounds |-> {}, currentRound |-> {}, pendingDefaults |-> {}]

\* The page's data; latestLedger is what a caught-up indexer reports.
fetchCircleData(circle, memberTables, response) ==
  [circle |-> circle, deadline_ledger |-> circleDeadline(circle),
   latestLedger |-> ledger, members |-> parseMemberRows(memberTables),
   row |-> [m \in {k[2] : k \in DOMAIN memberTables.circle_members} |->
              memberTables.circle_members[<<CircleAddress, m>>]],
   rounds |-> response.rounds, openRounds |-> response.openRounds,
   currentRound |-> response.currentRound,
   pendingDefaults |-> response.pendingDefaults]

\* The server's first load of the page does the same.
getCircleDetail(circle, memberTables, response) ==
  fetchCircleData(circle, memberTables, response)

-----------------------------------------------------------------------------
(* History: the rounds shown, the timeline, the member's summary.          *)

Shown(d) == d.rounds \cup d.openRounds \cup d.currentRound

\* One entry per contribution, default and payout.
buildTimelineEvents(d) ==
  UNION {   {<<"circle_contribute", m, r.roundIndex>> : m \in r.contributions}
       \cup {<<"circle_default", m, r.roundIndex>> : m \in r.defaults}
       \cup {<<"circle_payout", x.recipient, x.roundIndex>>
             : x \in {y \in {r} : y.status = "completed"}}
         : r \in Shown(d)}

\* What a settled round says of a member.
Participation(contributed_, defaulted_) ==
  CASE contributed_ /\ defaulted_   -> "inconsistent"
    [] ~contributed_ /\ defaulted_  -> "defaulted"
    [] contributed_ /\ ~defaulted_  -> "contributed"
    [] ~contributed_ /\ ~defaulted_ -> "unknown"

MemberRoundStatus(m, r) ==
  CASE r.recipient = m ->
         IF r.status = "completed" THEN "received" ELSE "not_obligated"
    [] r.recipient # m /\ r.status = "cancelled" -> "unavailable"
    [] r.recipient # m /\ r.status \in {"current", "open"} -> "not_yet_recorded"
    [] r.recipient # m /\ r.status = "completed" ->
         Participation(m \in r.contributions, m \in r.defaults)

computeMemberRoundSummary(m, rounds) ==
  {<<r.roundIndex, MemberRoundStatus(m, r)>> : r \in rounds}

-----------------------------------------------------------------------------
(* The rotation list; i counts from 0 as the page's rows do.               *)

isPaid(d, i) == i < d.circle.current_round
isNext(d, i) == i = d.circle.current_round /\ d.circle.status = "Active"

\* The amount of a row marked as paid: "0" when the round is not at hand.
PaidAmount(d, i) ==
  LET round_ == {r \in d.rounds : r.roundIndex = i}
  IN  IF round_ = {} THEN 0 ELSE (CHOOSE r \in round_ : TRUE).amount

HasContributed(d, m) == \E r \in d.currentRound : m \in r.contributions
ContributionsReceived(d) ==
  IF d.currentRound = {} THEN 0
  ELSE Cardinality((CHOOSE r \in d.currentRound : TRUE).contributions)

getMemberContributionStatus(d, i) ==
  LET m == d.members[i + 1]
  IN  CASE d.circle.status # "Active" \/ i = d.circle.current_round ->
             "not_applicable"
        [] d.circle.status = "Active" /\ i # d.circle.current_round ->
             IF HasContributed(d, m) THEN "contributed"
             ELSE IF d.row[m].defaults > 0 THEN "defaulted" ELSE "pending"

-----------------------------------------------------------------------------
(* The buttons, for a connected wallet w and a fresh page.                 *)

computeDataReadiness(d) ==
  IF \/ d.members = <<>>
     \/ d.circle.status = "Active" /\ d.currentRound = {}
    THEN "partial" ELSE "ready"

\* The action gates look at the wallet's own records, the default gate at the
\* records of the member in question.
buildAppSnapshot(d, w, networkCheck) ==
  [status |-> d.circle.status, deadlineLedger |-> d.deadline_ledger,
   latestLedger |-> d.latestLedger, memberAddresses |-> Len(d.members),
   hasLockedCollateral |-> w \in DOMAIN d.row /\ d.row[w].collateral > 0,
   hasContributedCurrentRound |-> HasContributed(d, w),
   contributionsReceived |-> ContributionsReceived(d),
   networkCheck |-> networkCheck, fresh |-> TRUE]

Allowed(action, d, w, networkCheck) ==
  App!computeActionEligibility(action, buildAppSnapshot(d, w, networkCheck))
    = "allowed"

\* The button is there and can be pressed.
JoinOffered(d, w, net) ==
  /\ computeDataReadiness(d) = "ready"
  /\ d.circle.status = "Pending"
  /\ w \in DOMAIN d.row /\ d.row[w].collateral = 0
  /\ Allowed("join", d, w, net)

ContributeOffered(d, w, net) ==
  /\ computeDataReadiness(d) = "ready"
  /\ d.circle.status = "Active"
  /\ w \in DOMAIN d.row /\ ~HasContributed(d, w)
  /\ Allowed("contribute", d, w, net)

PayoutOffered(d, w, net) ==
  /\ computeDataReadiness(d) = "ready"
  /\ d.circle.status = "Active"
  /\ d.members # <<>> /\ Allowed("payout", d, w, net)

CloseOffered(d, w, net) ==
  /\ computeDataReadiness(d) = "ready"
  /\ d.circle.status \in {"Completed", "Cancelled"}
  /\ Allowed("close", d, w, net)

deadlinePassed(d) ==
  d.deadline_ledger # Null /\ d.latestLedger > d.deadline_ledger

\* The link in the member's row, and the gate that doDefault asks after it.
MarkDefaultOffered(d, i, net) ==
  /\ computeDataReadiness(d) = "ready"
  /\ ~isPaid(d, i) /\ ~isNext(d, i)
  /\ getMemberContributionStatus(d, i) = "pending"
  /\ d.circle.status = "Active" /\ deadlinePassed(d)
  /\ Allowed("default", d, d.members[i + 1], net)

\* RoundDeadlineStatus.
computeDeadlineDisplay(d) ==
  CASE d.deadline_ledger = Null -> "unavailable"
    [] d.deadline_ledger # Null /\ deadlinePassed(d)  -> "Payout overdue"
    [] d.deadline_ledger # Null /\ ~deadlinePassed(d) -> "Time remaining"

-----------------------------------------------------------------------------
(* What the page says about joining, to a wallet that is not a member.     *)

WorkflowBanner(d, w) ==
  CASE d.circle.status = "Pending" /\ w \notin DOMAIN d.row -> "how_to_join"
    [] d.circle.status = "Active" /\ w \in DOMAIN d.row ->
         IF HasContributed(d, w) THEN "received" ELSE "due"
    [] OTHER -> "none"

buildJoinIntroContent(d) ==
  LET joinedCount == Cardinality({m \in DOMAIN d.row : d.row[m].collateral > 0})
  IN  CASE d.circle.status = "Pending" /\ joinedCount >= d.circle.member_count ->
             "pending_full"
        [] d.circle.status = "Pending" /\ joinedCount < d.circle.member_count ->
             "pending_open"
        [] OTHER -> d.circle.status

-----------------------------------------------------------------------------
(* The versions the queries may see.                                       *)

PageInit == EventInit /\ past = <<>>

PageNext ==
  /\ EventNext
  /\ past' = IF tables' = tables THEN past
             ELSE LET all == Append(past, tables)
                  IN  SubSeq(all, IF Len(all) > MaxTorn THEN 2 ELSE 1, Len(all))

PageSpec == PageInit /\ [][PageNext]_pageVars

Versions == Append(past, tables)
Latest == Len(Versions)
Ready(v) == CircleAddress \in DOMAIN Versions[v].circles
RowAt(v) == Versions[v].circles[CircleAddress]

\* The rounds request: the row first, then the three histories side by side.
RoundsResponses ==
  {RoundsResponse(RowAt(s[1]), Versions[s[2]], Versions[s[3]], Versions[s[4]])
     : s \in {x \in [1..4 -> 1..Latest] :
                Ready(x[1]) /\ \A i \in 2..4 : x[i] >= x[1]}}

\* The pages nobody disturbed, and those whose rounds request failed.
CurrentPage ==
  getCircleDetail(RowAt(Latest), tables,
                  RoundsResponse(RowAt(Latest), tables, tables, tables))
PartialPage == fetchCircleData(RowAt(Latest), tables, NoRoundsResponse)

-----------------------------------------------------------------------------
(* Properties.                                                             *)

\* What a page may say of a round: it is settled, paid to the member whose turn
\* it was; a member contributed, defaulted or received exactly as the contract
\* has it, and no member did two of these or is said to have owed nothing.
TrueOfRound(r) ==
  /\ r.status = "completed" =>
       r.roundIndex < rounds_completed /\ r.recipient = members[r.roundIndex + 1]
  /\ \A m \in MemberSet :
       LET said == MemberRoundStatus(m, r)
       IN  /\ said = "contributed" => m \in contributed[r.roundIndex]
           /\ said = "defaulted" => m \in defaulted[r.roundIndex]
           /\ said = "received" => m = members[r.roundIndex + 1]
           /\ said \notin {"inconsistent", "not_obligated"}

\* A page nobody disturbed says it completely: the summary leaves no settled
\* round unknown, the timeline has an entry for every row, and each row of the
\* rotation marked as paid carries the amount its member was paid.
CompleteHistory(d) ==
  /\ \A m \in MemberSet : \A e \in computeMemberRoundSummary(m, Shown(d)) :
       e[2] # "unknown"
  /\ Cardinality(buildTimelineEvents(d)) =
       Cardinality(DOMAIN tables.contributions)
       + SumOf(tables.defaults) + Cardinality(DOMAIN tables.payouts)
  /\ \A i \in 0..(Len(d.members) - 1) : isPaid(d, i) =>
       LET p == tables.payouts[<<CircleAddress, i>>]
       IN  p.recipient = d.members[i + 1] /\ PaidAmount(d, i) = p.amount
  /\ {<<x.member, x.round>> : x \in d.pendingDefaults} =
       {<<x.member, x.round>> : x \in {y \in DOMAIN tables.defaults :
          y.round = d.circle.current_round /\ d.circle.status = "Active"}}

\* Whatever versions of the tables its queries saw.
RoundsAreTrue ==
  \A response \in RoundsResponses : \A r \in Shown(response) : TrueOfRound(r)

\* The page's history is true of the contract however far the indexer is
\* behind, whatever was ingested between the queries of the page and whatever
\* event the indexer lost; and when nothing was lost and nothing came between,
\* it is complete.
HistoryIsTrue ==
  /\ RoundsAreTrue
  /\ (Ready(Latest) /\ altered = {}) => CompleteHistory(CurrentPage)

\* The indexer is up to date, and so is the page.
UpToDate == CaughtUp /\ altered = {}

\* An up-to-date page offers a wallet with the funds to join, to pay out or to
\* close exactly when the contract would take it, and to contribute also after
\* the deadline, which the page does not know; the pause and a circle that is
\* not authorized to award points, which the page ignores, aside.  The page's
\* lifecycle table has every status in which the contract takes an action.
ButtonsMatch ==
  UpToDate => \A w \in Callers :
    LET d == CurrentPage
        Has(amount) == w \in MemberSet /\ wallet[w] >= amount
    IN  /\ ~paused =>
             /\ JoinOffered(d, w, "match") /\ Has(CollateralDue)
                  <=> Accepts("join", w)
             /\ registration = "authorized" =>
                  (PayoutOffered(d, w, "match") <=> Accepts("payout", w))
             /\ CloseOffered(d, w, "match") /\ w \in MemberSet \cup {Admin}
                  <=> Accepts("close", w)
             /\ Accepts("contribute", w) => ContributeOffered(d, w, "match")
             /\ ContributeOffered(d, w, "match") /\ Has(round_amount) =>
                  Accepts("contribute", w) \/ deadline_passed
        /\ \A action \in DOMAIN App!statusesForAction :
             Accepts(action, w) =>
               RowStatus \in App!statusesForAction[action]

\* A page offers nothing on the wrong network and nothing that needs rounds when
\* their request failed; a full circle is never one that is open, and who is
\* told to contribute has the button.
AdviceHolds ==
  Ready(Latest) => \A w \in Address :
    LET d == CurrentPage
        p == PartialPage
    IN  /\ ~JoinOffered(d, w, "mismatch") /\ ~ContributeOffered(d, w, "mismatch")
        /\ ~PayoutOffered(d, w, "mismatch") /\ ~CloseOffered(d, w, "mismatch")
        /\ ~ContributeOffered(p, w, "match") /\ ~PayoutOffered(p, w, "match")
        /\ altered = {} => buildJoinIntroContent(d) # "pending_full"
        /\ WorkflowBanner(d, w) = "due" => ContributeOffered(d, w, "match")

\* On any page of any age a payout is offered only for a round that everybody
\* has paid into.
PayoutsAreDue ==
  \A response \in RoundsResponses : \A w \in MemberSet :
    \A v \in {x \in 1..Latest : Ready(x)} :
      LET d == fetchCircleData(RowAt(v), Versions[v], response)
      IN  PayoutOffered(d, w, "match") =>
            \A r \in d.currentRound : contributed[r.roundIndex] = MemberSet

\* The circle's status only ever moves along the page's lifecycle table.
StatusMovesOn ==
  altered = {} => \A v \in 1..(Latest - 1) :
    Ready(v) => LET from == RowAt(v).status
                    to == RowAt(v + 1).status
                IN  from = to \/ App!isValidTransition(from, to)

\* Buttons and advice, on an up-to-date page and on any other.
ButtonsAreRight == ButtonsMatch /\ AdviceHolds /\ PayoutsAreDue /\ StatusMovesOn

\* The page's data as it would be if the API served the deadline.
WithDeadline(d) == [d EXCEPT !.deadline_ledger = round.deadline_ledger]

\* What the SDK reads from the contract, in state and per member.
SdkSnapshot ==
  [status |-> status, currentRound |-> round, members |-> members,
   fresh |-> TRUE, latestLedger |-> ledger]
SdkOptions(w) ==
  [memberAddress |-> w, hasLockedCollateral |-> w \in joined,
   hasContributed |-> w \in contributed[round.round_index]]

\* The application's gates are kept in step with the SDK's by hand: over the
\* tables, had they the deadline, they come to the verdict that the SDK's come
\* to over the contract, for every action and member, and but for defaults,
\* where they check in another order, for the same reason.  The deadline shown
\* is then the contract's, and Mark Default is offered only against a member
\* whom the contract would let be flagged.
GatesMirrorSdk ==
  (UpToDate /\ status \in {"Pending", "Active", "Completed", "Cancelled"}) =>
    LET d == WithDeadline(CurrentPage)
    IN  /\ \A w \in MemberSet : \A action \in {"join", "contribute", "payout",
                                               "default", "close"} :
             LET app == App!computeActionEligibility(action,
                          buildAppSnapshot(d, w, "match"))
                 sdk == Sdk!computeActionEligibility(action, SdkSnapshot,
                                                     SdkOptions(w))
             IN  /\ (app = "allowed") <=> (sdk = "allowed")
                 /\ action # "default" => app = sdk
        /\ status = "Active" =>
             (computeDeadlineDisplay(d) = "Payout overdue") = deadline_passed
        /\ \A i \in 0..(N - 1) :
             (MarkDefaultOffered(d, i, "match") /\ ~paused) =>
               Accepts("default", members[i + 1])

-----------------------------------------------------------------------------
(* A statement of the runbook.                                             *)

\* RUNBOOK.md sends an operator who wants to mark a default to the deadline_ledger
\* that GET /circles/:address returns.
ClaimDeadlineIsServed ==
  (UpToDate /\ RowStatus = "Active") => CurrentPage.deadline_ledger # Null
=============================================================================
