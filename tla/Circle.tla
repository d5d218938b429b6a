------------------------------- MODULE Circle -------------------------------
(***************************************************************************)
(* The circle contract (contracts/circle/src/lib.rs): one rotating savings *)
(* circle, from initialize to close.  Every entry point that writes        *)
(* storage is one action, because a Soroban invocation commits as a whole  *)
(* or not at all: an invocation that panics, whose token transfer fails or *)
(* whose reputation award is refused leaves no trace, and is a stuttering  *)
(* step here.                                                              *)
(*                                                                         *)
(* Around the contract stand the parties it depends on: the ledger clock,  *)
(* the USDC token (balances, and accounts the issuer may freeze) and the   *)
(* reputation contract's view of this circle (see module Reputation).      *)
(***************************************************************************)
EXTENDS Integers, Sequences, FiniteSets, Sums

CONSTANTS
  Address,                \* the addresses that appear in this circle's life
  members,                \* config.members: the payout rotation, in order
  round_amount,           \* config.round_amount
  round_deadline_ledgers, \* config.round_deadline_ledgers
  Admin,                  \* the address stored under DataKey::Admin
  Callers,                \* the addresses that can sign an invocation
  InitialFunds,           \* each member's token balance at the start
  Freezable,              \* members whose account the token issuer may freeze
  MayRevoke,              \* whether the reputation admin may revoke the circle
  MaxPendingLedger,       \* bound: the clock stops here until Active
  MaxOverrun              \* bound: ledgers the clock runs past a deadline

N == Len(members)
MemberSet == {members[i] : i \in 1..N}
Rounds == 0..(N - 1)

ASSUME ConfigAssumption ==
  /\ members \in Seq(Address)
  /\ Len(members) >= 2
  /\ \A i, j \in 1..Len(members) : members[i] = members[j] => i = j
  /\ round_amount \in Nat \ {0}
  /\ round_deadline_ledgers \in Nat \ {0}

ASSUME EnvironmentAssumption ==
  /\ Admin \in Address
  /\ Callers \subseteq Address
  /\ InitialFunds \in [MemberSet -> Nat]
  /\ Freezable \subseteq MemberSet
  /\ MayRevoke \in BOOLEAN
  /\ MaxPendingLedger \in Nat
  /\ MaxOverrun \in Nat

VARIABLES
  status,          \* DataKey::Status, "Uninitialized" before initialize
  round,           \* DataKey::CurrentRound
  rounds_completed,\* DataKey::RoundsCompleted
  paused,          \* DataKey::Paused
  closed,          \* DataKey::Closed
  joined,          \* members whose DataKey::Collateral key exists
  collateral,      \* DataKey::Collateral, 0 where the key is absent
  contributed,     \* round |-> members with a DataKey::Contributed key
  defaulted,       \* round |-> members with a DataKey::Defaulted key
  defaults,        \* DataKey::Defaults, 0 where the key is absent
  wallet,          \* the members' token balances
  vault,           \* the circle contract's token balance
  frozen,          \* members whose account rejects transfers
  registration,    \* this circle's standing with the reputation contract
  awarded,         \* reputation points this circle has awarded to a member
  ledger,          \* env.ledger().sequence()
  forfeited        \* history: the sum of the penalties deducted so far

contractVars == <<status, round, rounds_completed, paused, closed, joined,
                  collateral, contributed, defaulted, defaults, forfeited>>
tokenVars == <<wallet, vault, frozen>>
repVars == <<registration, awarded>>
vars == <<contractVars, tokenVars, repVars, ledger>>

CircleStatus == {"Uninitialized", "Pending", "Active", "Completed", "Cancelled"}

RoundState == [round_index : Rounds, recipient : MemberSet,
               contributions_received : Nat, deadline_ledger : Nat,
               paid_out : BOOLEAN]

TypeOK ==
  /\ status \in CircleStatus
  /\ round \in RoundState
  /\ rounds_completed \in Nat
  /\ paused \in BOOLEAN
  /\ closed \in BOOLEAN
  /\ joined \in SUBSET MemberSet
  /\ collateral \in [MemberSet -> Nat]
  /\ contributed \in [Rounds -> SUBSET MemberSet]
  /\ defaulted \in [Rounds -> SUBSET MemberSet]
  /\ defaults \in [MemberSet -> Nat]
  /\ wallet \in [MemberSet -> Nat]
  /\ vault \in Nat
  /\ frozen \in SUBSET MemberSet
  /\ registration \in {"unregistered", "authorized", "revoked"}
  /\ awarded \in [MemberSet -> Nat]
  /\ ledger \in Nat
  /\ forfeited \in Nat

-----------------------------------------------------------------------------
(* Protocol parameters and arithmetic.                                     *)

PENALTY_BPS == 2000
BPS_DENOM == 10000
COLLATERAL_MULTIPLIER == 1

\* What a member locks to join.
CollateralDue == round_amount * COLLATERAL_MULTIPLIER

\* The penalty for one missed round: a share of the collateral that is left,
\* with the truncating division of i128.
PenaltyOf(c) == (c * PENALTY_BPS) \div BPS_DENOM

\* The sum of f over the rotation: the loop that fills pre_release_total.
Total(f) == SumAlong(members, f)

\* A slip of OpenRound: the counter of the previous round is carried over.
OpenRound_KeepsCounter(i) ==
  [round_index |-> i, recipient |-> members[i + 1],
   contributions_received |-> round.contributions_received,
   deadline_ledger |-> ledger + round_deadline_ledgers, paid_out |-> FALSE]

\* A round opened now: its recipient is the member at its index, its deadline
\* counts from the current ledger.
OpenRound(i) ==
  [round_index |-> i, recipient |-> members[i + 1],
   contributions_received |-> 0,
   deadline_ledger |-> ledger + round_deadline_ledgers, paid_out |-> FALSE]

\* Strictly after the deadline ledger; the deadline ledger itself is on time.
deadline_passed == ledger > round.deadline_ledger

-----------------------------------------------------------------------------
(* Calls the contract makes, and checks it shares.                         *)

require_auth(a) == a \in Callers

assert_not_paused == ~paused

\* A slip of RoundOpen: the status is not read.
RoundOpen_AnyStatus == ~round.paid_out

\* The checks contribute, payout, mark_default and settle_round start with.
RoundOpen == status = "Active" /\ ~round.paid_out

\* Slips of Delinquent: a contribution, or an earlier flag, is not looked up.
Delinquent_IgnoresContribution ==
  {m \in MemberSet : /\ collateral[m] > 0
                     /\ m \notin defaulted[round.round_index]}
Delinquent_IgnoresFlag ==
  {m \in MemberSet : /\ collateral[m] > 0
                     /\ m \notin contributed[round.round_index]}

\* The members that can be flagged in the current round: they have locked
\* collateral, have not contributed and are not flagged yet.
Delinquent ==
  {m \in MemberSet : /\ collateral[m] > 0
                     /\ m \notin defaulted[round.round_index]
                     /\ m \notin contributed[round.round_index]}

\* safe_transfer from a member to the circle, and from the circle to a member.
\* A transfer that cannot happen disables the action: the invocation panics
\* and every write it made is rolled back.
CanPay(m, amount) == amount > 0 /\ m \notin frozen /\ wallet[m] >= amount
CanReceive(m, amount) == amount > 0 /\ m \notin frozen /\ vault >= amount

safe_transfer_in(m, amount) ==
  /\ CanPay(m, amount)
  /\ wallet' = [wallet EXCEPT ![m] = @ - amount]
  /\ vault' = vault + amount

safe_transfer_out(m, amount) ==
  /\ CanReceive(m, amount)
  /\ wallet' = [wallet EXCEPT ![m] = @ + amount]
  /\ vault' = vault - amount

\* A slip of PayPot: the empty pot is transferred too, which safe_transfer
\* rejects.
PayPot_EvenIfEmpty(m, pot) == safe_transfer_out(m, pot)

\* settle_round skips the transfer of an empty pot.
PayPot(m, pot) ==
  \/ pot > 0 /\ safe_transfer_out(m, pot)
  \/ pot = 0 /\ UNCHANGED <<wallet, vault>>

\* A slip of award_reputation: a refused award is ignored.
award_reputation_Unregistered(m) ==
  /\ awarded' = [awarded EXCEPT ![m] = @ + 1]
  /\ UNCHANGED registration

\* Any refusal by the reputation contract rolls the settlement back.
award_reputation(m) ==
  /\ registration = "authorized"
  /\ awarded' = [awarded EXCEPT ![m] = @ + 1]
  /\ UNCHANGED registration

\* One penalty for every member of S, in the current round.
Penalise(S) ==
  LET fine == [m \in MemberSet |->
                 IF m \in S THEN PenaltyOf(collateral[m]) ELSE 0]
  IN  /\ collateral' = [m \in MemberSet |-> collateral[m] - fine[m]]
      /\ defaulted' = [defaulted EXCEPT ![round.round_index] = @ \cup S]
      /\ defaults' = [m \in MemberSet |->
                        IF m \in S THEN defaults[m] + 1 ELSE defaults[m]]
      /\ forfeited' = forfeited + Total(fine)

\* A slip of SettleAndAdvance: the settled round is not counted.
SettleAndAdvance_Uncounted ==
  /\ UNCHANGED rounds_completed
  /\ IF round.round_index + 1 >= N
       THEN /\ status' = "Completed"
            /\ round' = [round EXCEPT !.paid_out = TRUE]
       ELSE /\ round' = OpenRound(round.round_index + 1)
            /\ UNCHANGED status

\* The current round is settled: it is marked paid, counted, and either the
\* next round opens or the circle is Completed (CurrentRound then stays as the
\* last, paid, round).
SettleAndAdvance ==
  /\ rounds_completed' = rounds_completed + 1
  /\ IF round.round_index + 1 >= N
       THEN /\ status' = "Completed"
            /\ round' = [round EXCEPT !.paid_out = TRUE]
       ELSE /\ round' = OpenRound(round.round_index + 1)
            /\ UNCHANGED status

\* A slip of SettlementPot: the full pot, out of the members' collateral.
SettlementPot_Full == round_amount * N

\* What settle_round pays: the contributions that arrived.
SettlementPot == round_amount * Cardinality(contributed[round.round_index])

\* A slip of ReleaseCollateral: everyone gets the full deposit back.
ReleaseCollateral_Nominal ==
  /\ collateral' = [m \in MemberSet |-> 0]
  /\ wallet' = [m \in MemberSet |-> wallet[m] + CollateralDue]
  /\ vault' = vault - Total(collateral)

\* close's release loop: all collateral goes back in one invocation, so one
\* member whose account rejects its refund blocks everybody's.
CanRelease ==
  /\ \A m \in MemberSet : collateral[m] > 0 => m \notin frozen
  /\ vault >= Total(collateral)

ReleaseCollateral ==
  /\ CanRelease
  /\ collateral' = [m \in MemberSet |-> 0]
  /\ wallet' = [m \in MemberSet |-> wallet[m] + collateral[m]]
  /\ vault' = vault - Total(collateral)

-----------------------------------------------------------------------------
(* What the entry points check before they change anything.                *)

JoinChecks(m) ==
  /\ require_auth(m) /\ assert_not_paused
  /\ status = "Pending"
  /\ m \in MemberSet
  /\ m \notin joined

CancelChecks(caller) ==
  /\ require_auth(caller) /\ assert_not_paused
  /\ status = "Pending"
  /\ caller \in MemberSet

ContributeChecks(m) ==
  /\ require_auth(m) /\ assert_not_paused
  /\ RoundOpen
  /\ ~deadline_passed
  /\ m \in MemberSet
  /\ m \notin contributed[round.round_index]

PayoutChecks ==
  /\ assert_not_paused
  /\ RoundOpen
  /\ round.contributions_received = N
  /\ Cardinality(contributed[round.round_index]) = N
  /\ round.round_index < N
  /\ round.recipient = members[round.round_index + 1]

MarkDefaultChecks(m) ==
  /\ assert_not_paused
  /\ RoundOpen
  /\ deadline_passed
  /\ m \in Delinquent

CloseChecks(closer) ==
  /\ require_auth(closer) /\ assert_not_paused
  /\ ~closed
  /\ status \in {"Completed", "Cancelled"}
  /\ closer = Admin \/ closer \in MemberSet
  /\ status = "Completed" => rounds_completed = N

\* Whether the contract takes an action, of this member or against it: its own
\* checks and those of the contracts that it calls.
Accepts(action, a) ==
  CASE action = "join"       -> JoinChecks(a) /\ CanPay(a, CollateralDue)
    [] action = "cancel"     -> CancelChecks(a)
    [] action = "contribute" -> ContributeChecks(a) /\ CanPay(a, round_amount)
    [] action = "payout"     -> /\ PayoutChecks
                                /\ CanReceive(round.recipient, round_amount * N)
                                /\ registration = "authorized"
    [] action = "default"    -> MarkDefaultChecks(a)
    [] action = "close"      -> CloseChecks(a) /\ CanRelease

-----------------------------------------------------------------------------
(* The entry points.                                                       *)

Init ==
  /\ status = "Uninitialized"
  /\ round = [round_index |-> 0, recipient |-> members[1],   \* not yet stored
              contributions_received |-> 0, deadline_ledger |-> 0,
              paid_out |-> FALSE]
  /\ rounds_completed = 0
  /\ paused = FALSE /\ closed = FALSE
  /\ joined = {}
  /\ collateral = [m \in MemberSet |-> 0]
  /\ contributed = [r \in Rounds |-> {}]
  /\ defaulted = [r \in Rounds |-> {}]
  /\ defaults = [m \in MemberSet |-> 0]
  /\ wallet = InitialFunds
  /\ vault = 0
  /\ frozen = {}
  /\ registration = "unregistered"
  /\ awarded = [m \in MemberSet |-> 0]
  /\ ledger = 0
  /\ forfeited = 0

initialize ==
  /\ status = "Uninitialized"
  /\ status' = "Pending"
  /\ round' = OpenRound(0)
  /\ rounds_completed' = 0
  /\ UNCHANGED <<paused, closed, joined, collateral, contributed, defaulted,
                 defaults, forfeited, tokenVars, repVars, ledger>>

\* The last member to join activates the circle and restarts the deadline.
join(m) ==
  /\ JoinChecks(m)
  /\ joined' = joined \cup {m}
  /\ collateral' = [collateral EXCEPT ![m] = CollateralDue]
  /\ safe_transfer_in(m, CollateralDue)
  /\ IF joined' = MemberSet
       THEN /\ status' = "Active"
            /\ round' = [round EXCEPT
                 !.deadline_ledger = ledger + round_deadline_ledgers]
       ELSE UNCHANGED <<status, round>>
  /\ UNCHANGED <<rounds_completed, paused, closed, contributed, defaulted,
                 defaults, forfeited, frozen, repVars, ledger>>

cancel(caller) ==
  /\ CancelChecks(caller)
  /\ status' = "Cancelled"
  /\ UNCHANGED <<round, rounds_completed, paused, closed, joined, collateral,
                 contributed, defaulted, defaults, forfeited, tokenVars,
                 repVars, ledger>>

contribute(m) ==
  /\ ContributeChecks(m)
  /\ safe_transfer_in(m, round_amount)
  /\ contributed' = [contributed EXCEPT ![round.round_index] = @ \cup {m}]
  /\ round' = [round EXCEPT !.contributions_received = @ + 1]
  /\ UNCHANGED <<status, rounds_completed, paused, closed, joined, collateral,
                 defaulted, defaults, forfeited, frozen, repVars, ledger>>

\* Anyone may call it, before or after the deadline.
payout ==
  /\ PayoutChecks
  /\ safe_transfer_out(round.recipient, round_amount * N)
  /\ award_reputation(round.recipient)
  /\ SettleAndAdvance
  /\ UNCHANGED <<paused, closed, joined, collateral, contributed, defaulted,
                 defaults, forfeited, frozen, ledger>>

\* Anyone may call it, for any member.
mark_default(m) ==
  /\ MarkDefaultChecks(m)
  /\ Penalise({m})
  /\ UNCHANGED <<status, round, rounds_completed, paused, closed, joined,
                 contributed, tokenVars, repVars, ledger>>

\* The escape hatch for an incomplete round: anyone may call it once the
\* deadline has passed.  The pot is what was contributed; an empty pot is not
\* transferred, and the recipient is awarded the point all the same.
settle_round ==
  /\ assert_not_paused
  /\ RoundOpen
  /\ deadline_passed
  /\ round.contributions_received # N
  /\ Penalise(Delinquent)
  /\ PayPot(round.recipient, SettlementPot)
  /\ award_reputation(round.recipient)
  /\ SettleAndAdvance
  /\ UNCHANGED <<paused, closed, joined, contributed, frozen, ledger>>

close(closer) ==
  /\ CloseChecks(closer)
  /\ closed' = TRUE
  /\ ReleaseCollateral
  /\ UNCHANGED <<status, round, rounds_completed, paused, joined, contributed,
                 defaulted, defaults, forfeited, frozen, repVars, ledger>>

pause(caller) ==
  /\ status # "Uninitialized"
  /\ require_auth(caller) /\ caller = Admin
  /\ ~paused
  /\ paused' = TRUE
  /\ UNCHANGED <<status, round, rounds_completed, closed, joined, collateral,
                 contributed, defaulted, defaults, forfeited, tokenVars,
                 repVars, ledger>>

resume(caller) ==
  /\ status # "Uninitialized"
  /\ require_auth(caller) /\ caller = Admin
  /\ paused
  /\ paused' = FALSE
  /\ UNCHANGED <<status, round, rounds_completed, closed, joined, collateral,
                 contributed, defaulted, defaults, forfeited, tokenVars,
                 repVars, ledger>>

-----------------------------------------------------------------------------
(* The environment.                                                        *)

\* A ledger closes.  Time that passes while the circle is Pending, or long
\* after a deadline, only shifts later deadlines, so the two bounds lose no
\* order of events.
AdvanceLedger ==
  /\ \/ status \in {"Uninitialized", "Pending"} /\ ledger < MaxPendingLedger
     \/ status = "Active" /\ ledger < round.deadline_ledger + MaxOverrun
  /\ ledger' = ledger + 1
  /\ UNCHANGED <<contractVars, tokenVars, repVars>>

\* The issuer freezes or restores an account (external token contract).
freeze(m) ==
  /\ m \in Freezable /\ m \notin frozen
  /\ frozen' = frozen \cup {m}
  /\ UNCHANGED <<contractVars, wallet, vault, repVars, ledger>>

unfreeze(m) ==
  /\ m \in frozen
  /\ frozen' = frozen \ {m}
  /\ UNCHANGED <<contractVars, wallet, vault, repVars, ledger>>

\* The reputation admin registers the circle; revocation is permanent.
add_authorized_caller ==
  /\ registration = "unregistered"
  /\ registration' = "authorized"
  /\ UNCHANGED <<contractVars, tokenVars, awarded, ledger>>

remove_authorized_caller ==
  /\ MayRevoke
  /\ registration = "authorized"
  /\ registration' = "revoked"
  /\ UNCHANGED <<contractVars, tokenVars, awarded, ledger>>

Next ==
  \/ initialize
  \/ \E a \in Address :
       \/ join(a) \/ contribute(a) \/ mark_default(a)
       \/ cancel(a) \/ close(a) \/ pause(a) \/ resume(a)
  \/ payout
  \/ settle_round
  \/ AdvanceLedger
  \/ \E m \in MemberSet : freeze(m) \/ unfreeze(m)
  \/ add_authorized_caller
  \/ remove_authorized_caller

Spec == Init /\ [][Next]_vars

\* Ledgers close, the circle gets registered, and payout, settle_round and
\* close, which anyone with an interest in the circle may submit again until
\* they succeed, are not left callable for ever.  Nothing obliges a member to
\* join or to contribute.
Fairness ==
  /\ WF_vars(AdvanceLedger)
  /\ WF_vars(payout) /\ WF_vars(settle_round)
  /\ WF_vars(\E a \in Address : close(a))
  /\ WF_vars(add_authorized_caller)

FairSpec == Spec /\ Fairness

-----------------------------------------------------------------------------
(* Safety.                                                                 *)

\* The contributions of the current round that have not been paid out yet.
Escrowed == IF round.paid_out THEN 0 ELSE round.contributions_received

\* The contract's token balance is exactly the collateral it owes the members,
\* the contributions of the round in progress and the penalties it has kept:
\* no stroop is owed twice and none goes missing, whatever the order of joins,
\* contributions, defaults, settlements and close.
Solvency == vault = Total(collateral) + round_amount * Escrowed + forfeited

\* The counter payout trusts agrees with the persisted Contributed keys that it
\* cross-checks, so "round contribution tally mismatch" is never reached.
TallyMatchesRecords ==
  round.contributions_received = Cardinality(contributed[round.round_index])

\* No member is both credited and penalised for one round, although
\* contribute, mark_default and settle_round read the clock at different times.
NeverPaidAndDefaulted ==
  \A r \in Rounds : contributed[r] \cap defaulted[r] = {}

\* Every round is settled exactly once, in rotation order: rounds_completed is
\* the index of the open round, all N rounds are counted when the circle is
\* Completed (close's RoundsIncomplete is unreachable), the stored recipient is
\* the rotation's, and the members awarded a point are exactly those whose
\* round is over.
RotationProgress ==
  /\ status = "Active" => /\ rounds_completed = round.round_index
                          /\ ~round.paid_out
                          /\ joined = MemberSet
  /\ status = "Completed" => rounds_completed = N
  /\ status \notin {"Active", "Completed"} => rounds_completed = 0
  /\ round.recipient = members[round.round_index + 1]
  /\ \A i \in 1..N :
       awarded[members[i]] = IF i <= rounds_completed THEN 1 ELSE 0

\* Records belong to rounds that have been reached, flags to deadlines that
\* have passed, and collateral to members who joined.  A circle that is not yet
\* Active has no records; a Completed one stands on its last, paid, round.
RecordsInOrder ==
  /\ \A r \in Rounds :
       r > round.round_index => contributed[r] = {} /\ defaulted[r] = {}
  /\ status \notin {"Active", "Completed"} =>
       /\ round.round_index = 0 /\ ~round.paid_out
       /\ contributed[0] = {} /\ defaulted[0] = {}
  /\ status = "Completed" => round.round_index = N - 1 /\ round.paid_out
  /\ status = "Active" /\ defaulted[round.round_index] # {} =>
       ledger > round.deadline_ledger
  /\ \A m \in MemberSet \ joined : collateral[m] = 0

\* The rotation and its records, which payout, settle_round, contribute and
\* mark_default advance from four sides, never part: neither a second
\* settlement of a round nor a flag before its deadline can be reached.
Rotation == RotationProgress /\ RecordsInOrder

\* What is left of a deposit after k penalties.
Remaining[k \in 0..N] ==
  IF k = 0 THEN CollateralDue
           ELSE Remaining[k - 1] - PenaltyOf(Remaining[k - 1])

\* A member's collateral is the deposit less one truncated penalty for each
\* round it is flagged in, neither more (mark_default and settle_round never
\* both charge a round) nor less, and is never used up: mark_default's
\* MemberNotJoined is unreachable in an Active circle.
PenaltyLedger ==
  \A m \in MemberSet :
    /\ defaults[m] = Cardinality({r \in Rounds : m \in defaulted[r]})
    /\ m \in joined /\ ~closed => /\ collateral[m] = Remaining[defaults[m]]
                                  /\ collateral[m] > 0

\* A circle that closes without a single default, Completed or Cancelled, has
\* returned to every member exactly what it took: N contributions against one
\* pot, and the collateral.
NoLossWithoutDefault ==
  closed /\ (\A m \in MemberSet : defaults[m] = 0) => wallet = InitialFunds

-----------------------------------------------------------------------------
(* What a step may never do.                                               *)

\* While the circle is paused no invocation moves tokens or changes what the
\* contract records, except the resume that ends the pause.
PauseFreezesCircle ==
  [][paused => UNCHANGED <<status, round, rounds_completed, closed, joined,
                           collateral, contributed, defaulted, defaults,
                           wallet, vault, awarded>>]_vars

\* The records of a round change only while it is the open round of an Active
\* circle: a late contribution or default never lands in a settled or a future
\* round, and once the circle is settled they are final.
SettledRoundsAreFinal ==
  [][\A r \in Rounds :
       (contributed[r]' # contributed[r] \/ defaulted[r]' # defaulted[r])
         => status = "Active" /\ r = round.round_index]_vars

\* What a pause and a settlement put out of reach stays as it is.
RecordsAreFinal == PauseFreezesCircle /\ SettledRoundsAreFinal

\* Status only moves along Pending -> Active -> Completed and
\* Pending -> Cancelled, and Active needs every member's collateral.
StatusLifecycle ==
  [][status' # status =>
       \/ status = "Uninitialized" /\ status' = "Pending"
       \/ status = "Pending" /\ status' = "Active" /\ joined' = MemberSet
       \/ status = "Pending" /\ status' = "Cancelled"
       \/ status = "Active" /\ status' = "Completed" /\ round.round_index = N - 1]_vars

\* The circle and the environment it assumes keep to the contract that module
\* Reputation serves: points only between registration and revocation.
Registration == INSTANCE CallerRegistration
                  WITH Member <- MemberSet, standing <- registration,
                       points <- awarded
KeepsRegistrationContract == Registration!Spec

-----------------------------------------------------------------------------
(* Liveness.                                                               *)

\* settle_round's promise: no member who stops contributing can freeze the
\* circle.  Once pauses and token freezes end, every Active circle that is not
\* revoked settles all its rounds and returns the collateral.
ActiveCircleCloses ==
  [](registration # "revoked") /\ <>[](~paused /\ frozen = {})
    => (status = "Active" ~> closed)
=============================================================================
