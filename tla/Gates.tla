------------------------------- MODULE Gates -------------------------------
(***************************************************************************)
(* The SDK's gates: the checks an application makes before it submits an    *)
(* action, over a snapshot read from the contract (sdk/src/gating.ts).  A   *)
(* gate is "allowed" or the reason that blocks it; the first reason found   *)
(* wins.  Freshness is decided by the caller of these operators and given   *)
(* as a field, as is the network check.  The web application's own gates    *)
(* are in module AppGates.                                                  *)
(***************************************************************************)
EXTENDS Integers, Sequences, SequencesExt

\* Null stands for a value the code does not have: a null ledger or round.
Null == -1
NoRound == [round_index |-> Null, recipient |-> "",
            contributions_received |-> Null, deadline_ledger |-> Null,
            paid_out |-> FALSE]

\* The first reason whose condition holds; each check is <<condition, reason>>.
FirstReason(checks) ==
  LET hits == {i \in DOMAIN checks : checks[i][1]}
  IN  IF hits = {} THEN "allowed"
      ELSE checks[CHOOSE i \in hits : \A j \in hits : i <= j][2]

-----------------------------------------------------------------------------
(* SDK: snapshot s = [status, currentRound, members, fresh, latestLedger],  *)
(* options o = [memberAddress, hasLockedCollateral, hasContributed].        *)

Stale(s) == <<~s.fresh, "stale_snapshot">>
WrongStatus(s, allowed) == <<s.status \notin allowed, "wrong_status">>
NoActiveRound(s) == <<s.currentRound = NoRound, "no_active_round">>
NotAMember(s, o) ==
  <<o.memberAddress # "" /\ o.memberAddress \notin ToSet(s.members),
    "not_a_member">>

gateJoin(s, o) ==
  FirstReason(<<Stale(s), WrongStatus(s, {"Pending"}), NotAMember(s, o),
                <<o.hasLockedCollateral, "already_joined">>>>)

\* A slip of gateContribute: the deadline ledger itself counts as late.
gateContribute_Slip(s, o) ==
  FirstReason(<<Stale(s), WrongStatus(s, {"Active"}), NoActiveRound(s),
                NotAMember(s, o),
                <<s.latestLedger # Null
                    /\ s.latestLedger >= s.currentRound.deadline_ledger,
                  "deadline_passed">>,
                <<o.hasContributed, "already_contributed">>>>)

gateContribute(s, o) ==
  FirstReason(<<Stale(s), WrongStatus(s, {"Active"}), NoActiveRound(s),
                NotAMember(s, o),
                <<s.latestLedger # Null
                    /\ s.latestLedger > s.currentRound.deadline_ledger,
                  "deadline_passed">>,
                <<o.hasContributed, "already_contributed">>>>)

gatePayout(s, o) ==
  FirstReason(<<Stale(s), WrongStatus(s, {"Active"}), NoActiveRound(s),
                <<s.currentRound.contributions_received < Len(s.members),
                  "round_not_complete">>>>)

\* A slip of gateDefault: the deadline ledger itself counts as late.
gateDefault_Slip(s, o) ==
  FirstReason(<<Stale(s), WrongStatus(s, {"Active"}), NoActiveRound(s),
                NotAMember(s, o),
                <<o.hasContributed, "already_contributed">>,
                <<s.latestLedger = Null
                    \/ s.latestLedger < s.currentRound.deadline_ledger,
                  "deadline_not_passed">>>>)

gateDefault(s, o) ==
  FirstReason(<<Stale(s), WrongStatus(s, {"Active"}), NoActiveRound(s),
                NotAMember(s, o),
                <<o.hasContributed, "already_contributed">>,
                <<s.latestLedger = Null
                    \/ s.latestLedger <= s.currentRound.deadline_ledger,
                  "deadline_not_passed">>>>)

gateClose(s, o) ==
  FirstReason(<<Stale(s), WrongStatus(s, {"Completed", "Cancelled"}),
                NotAMember(s, o)>>)

computeActionEligibility(action, s, o) ==
  CASE action = "join"       -> gateJoin(s, o)
    [] action = "contribute" -> gateContribute(s, o)
    [] action = "payout"     -> gatePayout(s, o)
    [] action = "default"    -> gateDefault(s, o)
    [] action = "close"      -> gateClose(s, o)

\* A slip of detectStateMismatches: the round index is not compared.
detectStateMismatches_Slip(expected, actual) ==
  {f \in DOMAIN expected \cap DOMAIN actual : actual[f] # expected[f]}
    \ {"roundIndex"}

\* The pinned fields that are known (not null) and differ.
detectStateMismatches(expected, actual) ==
  {f \in DOMAIN expected \cap DOMAIN actual : actual[f] # expected[f]}
=============================================================================
