------------------------------ MODULE AppGates ------------------------------
(***************************************************************************)
(* The web application's own gates (app/src/lib/gating.ts) and the          *)
(* lifecycle table they rest on (app/src/lib/lifecycle.ts), over a snapshot *)
(* of what the indexer has served.  The SDK's are in module Gates; the      *)
(* source keeps the two in step by hand.                                    *)
(***************************************************************************)
EXTENDS Integers

G == INSTANCE Gates

\* VALID_TRANSITIONS.
VALID_TRANSITIONS ==
  [Pending |-> {"Active", "Cancelled"}, Active |-> {"Completed"},
   Completed |-> {"Closed"}, Cancelled |-> {"Closed"}, Closed |-> {}]

isValidTransition(from, to) ==
  from \in DOMAIN VALID_TRANSITIONS /\ to \in VALID_TRANSITIONS[from]

isTerminalStatus(shown) == shown \in {"Completed", "Cancelled", "Closed"}

statusesForAction ==
  [join |-> {"Pending"}, contribute |-> {"Active"}, payout |-> {"Active"},
   default |-> {"Active"}, close |-> {"Completed", "Cancelled"},
   cancel |-> {"Pending"}]

-----------------------------------------------------------------------------
(* A snapshot s = [status, deadlineLedger, latestLedger, memberAddresses,   *)
(* hasLockedCollateral, hasContributedCurrentRound, contributionsReceived,  *)
(* networkCheck, fresh].                                                    *)

isSnapshotFresh(s) == <<~s.fresh, "stale_snapshot">>
checkNetworkGate(s) == <<s.networkCheck = "mismatch", "network_mismatch">>
WrongStatus(s, allowed) == <<s.status \notin allowed, "wrong_status">>
Known(s) == s.deadlineLedger # G!Null /\ s.latestLedger # G!Null

gateJoin(s) ==
  G!FirstReason(<<isSnapshotFresh(s), checkNetworkGate(s),
                  WrongStatus(s, {"Pending"}),
                  <<s.hasLockedCollateral, "already_joined">>>>)

\* A deadline that is not known blocks nobody.
gateContribute(s) ==
  G!FirstReason(<<isSnapshotFresh(s), checkNetworkGate(s),
                  WrongStatus(s, {"Active"}),
                  <<Known(s) /\ s.latestLedger > s.deadlineLedger,
                    "deadline_passed">>,
                  <<s.hasContributedCurrentRound, "already_contributed">>>>)

\* A slip of gatePayout: one contribution short is enough, as if the recipient
\* did not contribute.
gatePayout_WithoutRecipient(s) ==
  G!FirstReason(<<isSnapshotFresh(s), checkNetworkGate(s),
                  WrongStatus(s, {"Active"}),
                  <<s.contributionsReceived + 1 < s.memberAddresses,
                    "round_not_complete">>>>)

gatePayout(s) ==
  G!FirstReason(<<isSnapshotFresh(s), checkNetworkGate(s),
                  WrongStatus(s, {"Active"}),
                  <<s.contributionsReceived < s.memberAddresses,
                    "round_not_complete">>>>)

\* A slip of gateDefault: the deadline ledger itself counts as passed.
gateDefault_OnDeadline(s) ==
  G!FirstReason(<<isSnapshotFresh(s), checkNetworkGate(s),
                  WrongStatus(s, {"Active"}),
                  <<~Known(s) \/ s.latestLedger < s.deadlineLedger,
                    "deadline_not_passed">>,
                  <<s.hasContributedCurrentRound, "already_contributed">>>>)

\* A deadline that is not known counts as not passed.
gateDefault(s) ==
  G!FirstReason(<<isSnapshotFresh(s), checkNetworkGate(s),
                  WrongStatus(s, {"Active"}),
                  <<~Known(s) \/ s.latestLedger <= s.deadlineLedger,
                    "deadline_not_passed">>,
                  <<s.hasContributedCurrentRound, "already_contributed">>>>)

gateClose(s) ==
  G!FirstReason(<<isSnapshotFresh(s), checkNetworkGate(s),
                  <<~isTerminalStatus(s.status), "wrong_status">>>>)

\* The network is looked at before the gate's own checks.
computeActionEligibility(action, s) ==
  CASE s.networkCheck = "mismatch" -> "network_mismatch"
    [] s.networkCheck # "mismatch" /\ action = "join"       -> gateJoin(s)
    [] s.networkCheck # "mismatch" /\ action = "contribute" -> gateContribute(s)
    [] s.networkCheck # "mismatch" /\ action = "payout"     -> gatePayout(s)
    [] s.networkCheck # "mismatch" /\ action = "default"    -> gateDefault(s)
    [] s.networkCheck # "mismatch" /\ action = "close"      -> gateClose(s)
=============================================================================
