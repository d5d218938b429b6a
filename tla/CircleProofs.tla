---------------------------- MODULE CircleProofs ----------------------------
(***************************************************************************)
(* Theorems about the circle contract, for every rotation, amount, deadline *)
(* and environment that ConfigAssumption and EnvironmentAssumption allow.   *)
(***************************************************************************)
EXTENDS Circle, SumsProofs, FiniteSetTheorems

-----------------------------------------------------------------------------
(* Facts about the configuration and the arithmetic.                        *)

\* The rotation has N >= 2 positions, each held by a member of MemberSet.
LEMMA RotationFacts ==
  /\ N \in Nat /\ N >= 2
  /\ \A i \in 1..N : members[i] \in MemberSet
  /\ \A m \in MemberSet : \E i \in 1..N : m = members[i]
  /\ ListsFrom(members, MemberSet)
  /\ 0 \in Rounds
  /\ \A r \in Rounds : r \in Nat /\ r < N /\ r + 1 \in 1..N
<1>1. N \in Nat /\ N >= 2
  BY ConfigAssumption DEF N
<1>2. \A i \in 1..N : members[i] \in MemberSet
  BY DEF MemberSet
<1>3. \A m \in MemberSet : \E i \in 1..N : m = members[i]
  BY DEF MemberSet
<1>4. ListsFrom(members, MemberSet)
  BY <1>1, <1>2 DEF N, ListsFrom
<1> QED
  BY <1>1, <1>2, <1>3, <1>4 DEF Rounds

\* A penalty is a natural number, at most the collateral it is taken from, and
\* less than it unless that is 0.
LEMMA PenaltyFacts ==
  ASSUME NEW c \in Nat
  PROVE  /\ PenaltyOf(c) \in Nat /\ PenaltyOf(c) <= c
         /\ c > 0 => PenaltyOf(c) < c
BY DEF PenaltyOf, PENALTY_BPS, BPS_DENOM

\* A total over the members is a natural number.
LEMMA TotalType ==
  ASSUME NEW f \in [MemberSet -> Nat]
  PROVE  Total(f) \in Nat
BY RotationFacts, SumType DEF Total

\* There are as many members as positions in the rotation.
LEMMA MembersFinite == IsFiniteSet(MemberSet) /\ Cardinality(MemberSet) = N
<1> DEFINE f == [i \in 1..N |-> members[i]]
<1>1. IsFiniteSet(1..N) /\ Cardinality(1..N) = N
  BY RotationFacts, FS_Interval
<1>2. f \in Bijection(1..N, MemberSet)
  BY RotationFacts, ConfigAssumption
     DEF Bijection, Injection, Surjection, IsInjective, N
<1>3. ExistsBijection(1..N, MemberSet)
  BY <1>2 DEF ExistsBijection
<1> QED
  BY <1>1, <1>3, FS_Bijection

-----------------------------------------------------------------------------
(* Type correctness.                                                       *)

\* The initial state is well typed.
LEMMA TypeInit == Init => TypeOK
<1> SUFFICES ASSUME Init PROVE TypeOK
  OBVIOUS
<1>1. round \in RoundState
  BY RotationFacts DEF Init, RoundState
<1>2. /\ status \in CircleStatus /\ rounds_completed \in Nat
      /\ joined \in SUBSET MemberSet /\ frozen \in SUBSET MemberSet
      /\ registration \in {"unregistered", "authorized", "revoked"}
      /\ vault \in Nat /\ ledger \in Nat /\ forfeited \in Nat
  BY DEF Init, CircleStatus
<1>3. paused \in BOOLEAN /\ closed \in BOOLEAN
  BY DEF Init
<1>4. /\ contributed \in [Rounds -> SUBSET MemberSet]
      /\ defaulted \in [Rounds -> SUBSET MemberSet]
  BY DEF Init
<1>5. /\ collateral \in [MemberSet -> Nat] /\ defaults \in [MemberSet -> Nat]
      /\ awarded \in [MemberSet -> Nat]
  BY DEF Init
<1>6. wallet \in [MemberSet -> Nat]
  BY EnvironmentAssumption DEF Init
<1> QED
  BY <1>1, <1>2, <1>3, <1>4, <1>5, <1>6 DEF TypeOK

\* A round that opens is well typed.
LEMMA OpenRoundType ==
  ASSUME TypeOK, NEW i \in Rounds
  PROVE  OpenRound(i) \in RoundState
<1>1. members[i + 1] \in MemberSet
  BY RotationFacts
<1>2. ledger + round_deadline_ledgers \in Nat
  BY ConfigAssumption DEF TypeOK
<1> QED
  BY <1>1, <1>2 DEF OpenRound, RoundState

\* Settling a round keeps the round, its count and the status well typed.
LEMMA SettleType ==
  ASSUME TypeOK, SettleAndAdvance
  PROVE  /\ status' \in CircleStatus
         /\ round' \in RoundState
         /\ rounds_completed' \in Nat
<1>1. rounds_completed' \in Nat
  BY DEF TypeOK, SettleAndAdvance
<1>2. round.round_index \in Rounds
  BY DEF TypeOK, RoundState
<1>3. CASE round.round_index + 1 >= N
  BY <1>1, <1>3 DEF TypeOK, SettleAndAdvance, CircleStatus, RoundState
<1>4. CASE ~(round.round_index + 1 >= N)
  <2>1. round.round_index + 1 \in Rounds
    BY <1>2, <1>4, RotationFacts DEF Rounds
  <2>2. OpenRound(round.round_index + 1) \in RoundState
    BY <2>1, OpenRoundType
  <2> QED
    BY <1>1, <1>4, <2>2 DEF TypeOK, SettleAndAdvance
<1> QED
  BY <1>3, <1>4

\* What Penalise takes from each member.
Fine(S) == [m \in MemberSet |-> IF m \in S THEN PenaltyOf(collateral[m]) ELSE 0]

\* Fines are natural numbers that the collateral covers.
LEMMA FineFacts ==
  ASSUME TypeOK, NEW S
  PROVE  /\ Fine(S) \in [MemberSet -> Nat]
         /\ \A m \in MemberSet : /\ Fine(S)[m] <= collateral[m]
                                 /\ collateral[m] - Fine(S)[m] \in Nat
         /\ Total(Fine(S)) \in Nat
<1>1. \A m \in MemberSet : collateral[m] \in Nat
  BY DEF TypeOK
<1>2. \A m \in MemberSet : /\ PenaltyOf(collateral[m]) \in Nat
                           /\ PenaltyOf(collateral[m]) <= collateral[m]
  BY <1>1, PenaltyFacts
<1>3. Fine(S) \in [MemberSet -> Nat]
  BY <1>2 DEF Fine
<1>4. ASSUME NEW m \in MemberSet
      PROVE  Fine(S)[m] <= collateral[m] /\ collateral[m] - Fine(S)[m] \in Nat
  BY <1>1, <1>2 DEF Fine
<1> QED
  BY <1>3, <1>4, TotalType

\* Penalising keeps the records of defaults and the collateral well typed.
LEMMA PenaliseType ==
  ASSUME TypeOK, NEW S \in SUBSET MemberSet, Penalise(S)
  PROVE  /\ collateral' \in [MemberSet -> Nat]
         /\ defaulted' \in [Rounds -> SUBSET MemberSet]
         /\ defaults' \in [MemberSet -> Nat]
         /\ forfeited' \in Nat
<1>1. /\ collateral' = [m \in MemberSet |-> collateral[m] - Fine(S)[m]]
      /\ defaulted' = [defaulted EXCEPT ![round.round_index] = @ \cup S]
      /\ defaults' = [m \in MemberSet |->
                        IF m \in S THEN defaults[m] + 1 ELSE defaults[m]]
      /\ forfeited' = forfeited + Total(Fine(S))
  BY DEF Penalise, Fine
<1>2. collateral' \in [MemberSet -> Nat]
  BY <1>1, FineFacts
<1>3. defaulted' \in [Rounds -> SUBSET MemberSet]
  BY <1>1 DEF TypeOK, RoundState
<1>4. defaults' \in [MemberSet -> Nat]
  BY <1>1 DEF TypeOK
<1>5. forfeited' \in Nat
  BY <1>1, FineFacts DEF TypeOK
<1> QED
  BY <1>2, <1>3, <1>4, <1>5

\* Token transfers keep balances natural numbers.
LEMMA TransferType ==
  ASSUME TypeOK, NEW m \in MemberSet, NEW a \in Nat,
         safe_transfer_in(m, a) \/ safe_transfer_out(m, a)
  PROVE  wallet' \in [MemberSet -> Nat] /\ vault' \in Nat
BY DEF TypeOK, safe_transfer_in, CanPay, safe_transfer_out, CanReceive

\* An award keeps the points natural numbers.
LEMMA AwardType ==
  ASSUME TypeOK, NEW m \in MemberSet, award_reputation(m)
  PROVE  /\ awarded' \in [MemberSet -> Nat]
         /\ registration' \in {"unregistered", "authorized", "revoked"}
BY DEF TypeOK, award_reputation

\* Every step keeps the state well typed.
LEMMA TypeStep == TypeOK /\ [Next]_vars => TypeOK'
<1> SUFFICES ASSUME TypeOK, [Next]_vars PROVE TypeOK'
  OBVIOUS
<1>0. /\ round_amount \in Nat /\ CollateralDue \in Nat /\ N \in Nat
      /\ round.round_index \in Rounds /\ round.recipient \in MemberSet
      /\ ledger + round_deadline_ledgers \in Nat
  BY ConfigAssumption, RotationFacts
     DEF CollateralDue, COLLATERAL_MULTIPLIER, TypeOK, RoundState
<1>1. CASE initialize
  <2>1. round' \in RoundState
    BY <1>1, RotationFacts, OpenRoundType DEF initialize
  <2> QED
    BY <1>1, <2>1 DEF initialize, TypeOK, tokenVars, repVars, CircleStatus
<1>2. ASSUME NEW m \in Address, join(m) PROVE TypeOK'
  <2>1. m \in MemberSet /\ joined' \in SUBSET MemberSet
    BY <1>2 DEF join, JoinChecks, TypeOK
  <2>2. wallet' \in [MemberSet -> Nat] /\ vault' \in Nat
    BY <1>2, <2>1, <1>0, TransferType DEF join, JoinChecks
  <2>3. collateral' \in [MemberSet -> Nat]
    BY <1>2, <2>1, <1>0 DEF join, JoinChecks, TypeOK
  <2>4. round' \in RoundState
    BY <1>2, <1>0 DEF join, JoinChecks, TypeOK, RoundState
  <2>5. status' \in CircleStatus
    BY <1>2 DEF join, JoinChecks, TypeOK, CircleStatus
  <2> QED
    BY <1>2, <2>1, <2>2, <2>3, <2>4, <2>5 DEF join, JoinChecks, TypeOK, repVars
<1>3. ASSUME NEW m \in Address, contribute(m) PROVE TypeOK'
  <2>1. m \in MemberSet
    BY <1>3 DEF contribute, ContributeChecks
  <2>2. wallet' \in [MemberSet -> Nat] /\ vault' \in Nat
    BY <1>3, <2>1, <1>0, TransferType DEF contribute, ContributeChecks
  <2>3. contributed' \in [Rounds -> SUBSET MemberSet]
    BY <1>3, <2>1, <1>0 DEF contribute, ContributeChecks, TypeOK
  <2>4. round' \in RoundState
    BY <1>3 DEF contribute, ContributeChecks, TypeOK, RoundState
  <2> QED
    BY <1>3, <2>2, <2>3, <2>4 DEF contribute, ContributeChecks, TypeOK, repVars
<1>4. ASSUME NEW m \in Address, mark_default(m) PROVE TypeOK'
  <2>1. {m} \in SUBSET MemberSet
    BY <1>4 DEF mark_default, MarkDefaultChecks, Delinquent
  <2>2. /\ collateral' \in [MemberSet -> Nat]
        /\ defaulted' \in [Rounds -> SUBSET MemberSet]
        /\ defaults' \in [MemberSet -> Nat]
        /\ forfeited' \in Nat
    BY <1>4, <2>1, PenaliseType DEF mark_default, MarkDefaultChecks
  <2> QED
    BY <1>4, <2>2 DEF mark_default, MarkDefaultChecks, TypeOK, tokenVars, repVars
<1>5. ASSUME NEW a \in Address, cancel(a) PROVE TypeOK'
  BY <1>5 DEF cancel, CancelChecks, TypeOK, tokenVars, repVars, CircleStatus
<1>6. ASSUME NEW a \in Address, close(a) PROVE TypeOK'
  <2>1. Total(collateral) \in Nat
    BY TotalType DEF TypeOK
  <2>2. vault' \in Nat
    BY <1>6, <2>1 DEF close, CloseChecks, ReleaseCollateral, CanRelease, TypeOK
  <2>3. wallet' \in [MemberSet -> Nat] /\ collateral' \in [MemberSet -> Nat]
    BY <1>6 DEF close, CloseChecks, ReleaseCollateral, CanRelease, TypeOK
  <2>4. closed' \in BOOLEAN
    BY <1>6 DEF close, CloseChecks
  <2> QED
    BY <1>6, <2>2, <2>3, <2>4 DEF close, CloseChecks, TypeOK, repVars
<1>7. ASSUME NEW a \in Address, pause(a) PROVE TypeOK'
  BY <1>7 DEF pause, TypeOK, tokenVars, repVars
<1>8. ASSUME NEW a \in Address, resume(a) PROVE TypeOK'
  BY <1>8 DEF resume, TypeOK, tokenVars, repVars
<1>9. CASE payout
  <2>1. round_amount * N \in Nat
    BY <1>0
  <2>2. wallet' \in [MemberSet -> Nat] /\ vault' \in Nat
    BY <1>9, <2>1, <1>0, TransferType DEF payout, PayoutChecks
  <2>3. /\ status' \in CircleStatus /\ round' \in RoundState
        /\ rounds_completed' \in Nat
    BY <1>9, SettleType DEF payout, PayoutChecks
  <2>4. /\ awarded' \in [MemberSet -> Nat]
        /\ registration' \in {"unregistered", "authorized", "revoked"}
    BY <1>9, <1>0, AwardType DEF payout, PayoutChecks
  <2> QED
    BY <1>9, <2>2, <2>3, <2>4 DEF payout, PayoutChecks, TypeOK
<1>10. CASE settle_round
  <2>1. /\ collateral' \in [MemberSet -> Nat]
        /\ defaulted' \in [Rounds -> SUBSET MemberSet]
        /\ defaults' \in [MemberSet -> Nat]
        /\ forfeited' \in Nat
    <3>1. Delinquent \in SUBSET MemberSet
      BY DEF Delinquent
    <3> QED
      BY <1>10, <3>1, PenaliseType DEF settle_round
  <2>2. SettlementPot \in Nat
    <3>1. contributed[round.round_index] \in SUBSET MemberSet
      BY <1>0 DEF TypeOK
    <3>2. Cardinality(contributed[round.round_index]) \in Nat
      BY <3>1, MembersFinite, FS_Subset, FS_CardinalityType
    <3> QED
      BY <3>2, <1>0 DEF SettlementPot
  <2>3. wallet' \in [MemberSet -> Nat] /\ vault' \in Nat
    <3>1. CASE safe_transfer_out(round.recipient, SettlementPot)
      BY <3>1, <2>2, <1>0, TransferType
    <3>2. CASE UNCHANGED <<wallet, vault>>
      BY <3>2 DEF TypeOK
    <3> QED
      BY <1>10, <3>1, <3>2 DEF settle_round, PayPot
  <2>4. /\ status' \in CircleStatus /\ round' \in RoundState
        /\ rounds_completed' \in Nat
    BY <1>10, SettleType DEF settle_round
  <2>5. /\ awarded' \in [MemberSet -> Nat]
        /\ registration' \in {"unregistered", "authorized", "revoked"}
    BY <1>10, <1>0, AwardType DEF settle_round
  <2> QED
    BY <1>10, <2>1, <2>3, <2>4, <2>5 DEF settle_round, TypeOK
<1>11. CASE AdvanceLedger
  BY <1>11 DEF AdvanceLedger, TypeOK, contractVars, tokenVars, repVars
<1>12. ASSUME NEW m \in MemberSet, freeze(m) PROVE TypeOK'
  BY <1>12 DEF freeze, TypeOK, contractVars, repVars
<1>13. ASSUME NEW m \in MemberSet, unfreeze(m) PROVE TypeOK'
  BY <1>13 DEF unfreeze, TypeOK, contractVars, repVars
<1>14. CASE add_authorized_caller
  BY <1>14 DEF add_authorized_caller, TypeOK, contractVars, tokenVars
<1>15. CASE remove_authorized_caller
  BY <1>15 DEF remove_authorized_caller, TypeOK, contractVars, tokenVars
<1>16. CASE UNCHANGED vars
  BY <1>16 DEF vars, TypeOK, contractVars, tokenVars, repVars
<1> QED
  BY <1>1, <1>2, <1>3, <1>4, <1>5, <1>6, <1>7, <1>8, <1>9, <1>10, <1>11,
     <1>12, <1>13, <1>14, <1>15, <1>16 DEF Next

\* Every reachable state is well typed: in particular no balance, collateral or
\* wallet is ever driven below zero by a transfer, a penalty or close.
THEOREM TypeCorrect == Spec => []TypeOK
<1>1. Init => TypeOK
  BY TypeInit
<1>2. TypeOK /\ [Next]_vars => TypeOK'
  BY TypeStep
<1> QED
  BY <1>1, <1>2, PTL DEF Spec

-----------------------------------------------------------------------------
(***************************************************************************)
(* The inductive invariant.  Solvency needs the tally (the pot settle_round *)
(* pays is computed from the Contributed keys, the escrow from the counter), *)
(* the tally needs the records of rounds not yet reached to be empty, and    *)
(* join needs an absent Collateral key to stand for 0.                       *)
(***************************************************************************)
IndInv ==
  /\ TypeOK
  /\ RotationProgress
  /\ RecordsInOrder
  /\ TallyMatchesRecords
  /\ NeverPaidAndDefaulted
  /\ Solvency

\* Totals of the functions the contract builds: nothing, one more deposit, and
\* collateral from which fines are taken.
LEMMA TotalZero == Total([m \in MemberSet |-> 0]) = 0
BY RotationFacts, SumZero DEF Total

\* Totals are additive.
LEMMA TotalAdditive ==
  ASSUME NEW f \in [MemberSet -> Nat], NEW g \in [MemberSet -> Nat],
         NEW h \in [MemberSet -> Nat], \A m \in MemberSet : h[m] = f[m] + g[m]
  PROVE  Total(h) = Total(f) + Total(g)
<1>1. ListsFrom(members, MemberSet)
  BY RotationFacts
<1>2. SumAlong(members, h) = SumAlong(members, f) + SumAlong(members, g)
  BY <1>1, SumAdditive
<1> QED
  BY <1>2 DEF Total

\* Raising one member's entry from 0 raises the total by that amount.
LEMMA TotalDeposit ==
  ASSUME NEW f \in [MemberSet -> Nat], NEW m \in MemberSet, f[m] = 0,
         NEW a \in Nat
  PROVE  Total([f EXCEPT ![m] = a]) = Total(f) + a
<1> DEFINE g == [k \in MemberSet |-> IF k = m THEN a ELSE 0]
           h == [f EXCEPT ![m] = a]
<1>1. PICK j \in 1..N : m = members[j]
  BY RotationFacts
<1>2. g \in [MemberSet -> Nat] /\ h \in [MemberSet -> Nat] /\ g[m] = a
  OBVIOUS
<1>3. SumAlong(members, g) = a
  <2>1. \A d \in MemberSet : d # members[j] => g[d] = 0
    BY <1>1
  <2>2. j \in 1..Len(members)
    BY <1>1 DEF N
  <2>3. \A i, k \in 1..Len(members) : members[i] = members[k] => i = k
    BY ConfigAssumption
  <2>4. ListsFrom(members, MemberSet)
    BY RotationFacts
  <2> HIDE DEF g
  <2>5. SumAlong(members, g) = g[members[j]]
    BY <2>1, <2>2, <2>3, <2>4, <1>2, SumSingle
  <2> QED
    BY <2>5, <1>1, <1>2
<1>4. \A d \in MemberSet : h[d] = f[d] + g[d]
  OBVIOUS
<1> HIDE DEF g, h
<1>5. Total(h) = Total(f) + Total(g)
  BY <1>2, <1>4, TotalAdditive
<1> QED
  BY <1>3, <1>5 DEF Total, h

\* What the fines take from the collateral is what the total loses.
LEMMA TotalFined ==
  ASSUME TypeOK, NEW S \in SUBSET MemberSet, Penalise(S)
  PROVE  /\ Total(collateral') + Total(Fine(S)) = Total(collateral)
         /\ forfeited' = forfeited + Total(Fine(S))
<1>1. /\ collateral' = [m \in MemberSet |-> collateral[m] - Fine(S)[m]]
      /\ forfeited' = forfeited + Total(Fine(S))
  BY DEF Penalise, Fine
<1>2. collateral' \in [MemberSet -> Nat]
  BY PenaliseType
<1>3. Fine(S) \in [MemberSet -> Nat] /\ collateral \in [MemberSet -> Nat]
  BY FineFacts DEF TypeOK
<1>4. \A m \in MemberSet : collateral[m] = collateral'[m] + Fine(S)[m]
  BY <1>1, <1>3
<1>5. Total(collateral) = Total(collateral') + Total(Fine(S))
  BY <1>2, <1>3, <1>4, TotalAdditive
<1> QED
  BY <1>1, <1>5

\* The invariant holds initially.
LEMMA IndInit == Init => IndInv
<1> SUFFICES ASSUME Init PROVE IndInv
  OBVIOUS
<1>1. TypeOK
  BY TypeInit
<1>2. RotationProgress
  <2>1. \A i \in 1..N : awarded[members[i]] = 0 /\ ~(i <= 0)
    BY RotationFacts DEF Init
  <2> QED
    BY <2>1, RotationFacts DEF Init, RotationProgress
<1>3. RecordsInOrder
  BY RotationFacts DEF Init, RecordsInOrder
<1>4. TallyMatchesRecords
  BY RotationFacts, FS_EmptySet DEF Init, TallyMatchesRecords
<1>5. NeverPaidAndDefaulted
  BY DEF Init, NeverPaidAndDefaulted
<1>6. Solvency
  <2>1. Total(collateral) = 0
    BY TotalZero DEF Init
  <2>2. round_amount * 0 = 0
    BY ConfigAssumption
  <2> QED
    BY <2>1, <2>2 DEF Init, Solvency, Escrowed
<1> QED
  BY <1>1, <1>2, <1>3, <1>4, <1>5, <1>6 DEF IndInv

\* What the steps that settle a round have in common: the open round was the
\* rounds_completed-th, and its recipient gets the rotation's next point.
LEMMA SettleProgress ==
  ASSUME IndInv, RoundOpen, SettleAndAdvance, award_reputation(round.recipient),
         UNCHANGED joined
  PROVE  RotationProgress'
<1> DEFINE r == round.round_index
<1>1. /\ TypeOK /\ r \in Rounds /\ r \in Nat /\ r < N /\ N \in Nat
      /\ status = "Active" /\ rounds_completed = r /\ joined = MemberSet
      /\ round.recipient = members[r + 1] /\ r + 1 \in 1..N
      /\ \A i \in 1..N : awarded[members[i]] = IF i <= r THEN 1 ELSE 0
  BY RotationFacts DEF IndInv, RoundOpen, RotationProgress, TypeOK, RoundState
<1>2. rounds_completed' = r + 1
  BY <1>1 DEF SettleAndAdvance
<1>3. ASSUME NEW i \in 1..N
      PROVE  awarded'[members[i]] = IF i <= r + 1 THEN 1 ELSE 0
  <2>1. /\ members[i] \in MemberSet /\ members[r + 1] \in MemberSet
        /\ awarded \in [MemberSet -> Nat]
    BY <1>1, RotationFacts DEF TypeOK
  <2>2. awarded' = [awarded EXCEPT ![members[r + 1]] = @ + 1]
    BY <1>1 DEF award_reputation
  <2>3. CASE i = r + 1
    <3>1. awarded[members[i]] = 0
      BY <1>1, <2>3
    <3> QED
      BY <2>1, <2>2, <2>3, <3>1, <1>1
  <2>4. CASE i # r + 1
    <3>1. members[i] # members[r + 1]
      BY <1>1, <2>4, ConfigAssumption DEF N
    <3> QED
      BY <1>1, <2>1, <2>2, <2>4, <3>1
  <2> QED
    BY <2>3, <2>4
<1>4. CASE r + 1 >= N
  <2>1. status' = "Completed" /\ rounds_completed' = N
        /\ round' = [round EXCEPT !.paid_out = TRUE]
    BY <1>1, <1>2, <1>4 DEF SettleAndAdvance
  <2>2. round'.round_index = r /\ round'.recipient = members[r + 1]
    BY <2>1, <1>1 DEF TypeOK, RoundState
  <2> QED
    BY <1>2, <1>3, <2>1, <2>2 DEF RotationProgress
<1>5. CASE ~(r + 1 >= N)
  <2>1. status' = "Active" /\ round' = OpenRound(r + 1) /\ joined' = MemberSet
    BY <1>1, <1>5 DEF SettleAndAdvance
  <2>2. /\ round'.round_index = r + 1 /\ round'.recipient = members[(r + 1) + 1]
        /\ ~round'.paid_out
    BY <2>1 DEF OpenRound
  <2> QED
    BY <1>2, <1>3, <2>1, <2>2 DEF RotationProgress
<1> QED
  BY <1>4, <1>5

\* Every step keeps the settled rounds and the awards in rotation order.
LEMMA RotationStep == IndInv /\ [Next]_vars => RotationProgress'
<1> SUFFICES ASSUME IndInv, [Next]_vars PROVE RotationProgress'
  OBVIOUS
<1>0. TypeOK /\ RotationProgress /\ RecordsInOrder /\ N \in Nat
  BY RotationFacts DEF IndInv
<1>1. CASE initialize
  <2>1. /\ status' = "Pending" /\ rounds_completed' = 0 /\ awarded' = awarded
        /\ rounds_completed = 0 /\ round' = OpenRound(0)
    BY <1>0, <1>1 DEF initialize, repVars, RotationProgress
  <2>2. round'.recipient = members[round'.round_index + 1]
    BY <2>1 DEF OpenRound
  <2> QED
    BY <1>0, <2>1, <2>2 DEF RotationProgress
<1>2. ASSUME NEW m \in Address, join(m) PROVE RotationProgress'
  <2>1. /\ status = "Pending" /\ rounds_completed = 0
        /\ rounds_completed' = rounds_completed /\ awarded' = awarded
        /\ round.round_index = 0 /\ ~round.paid_out
    BY <1>0, <1>2 DEF join, JoinChecks, repVars, RotationProgress, RecordsInOrder
  <2>2. /\ round'.round_index = round.round_index
        /\ round'.recipient = round.recipient
        /\ round'.paid_out = round.paid_out
    BY <1>0, <1>2 DEF join, JoinChecks, TypeOK, RoundState
  <2>3. (status' = "Active" /\ joined' = MemberSet) \/ status' = "Pending"
    BY <1>2, <2>1 DEF join, JoinChecks
  <2> QED
    BY <1>0, <2>1, <2>2, <2>3 DEF RotationProgress
<1>3. ASSUME NEW m \in Address, contribute(m) PROVE RotationProgress'
  <2>1. /\ round'.round_index = round.round_index
        /\ round'.recipient = round.recipient
        /\ round'.paid_out = round.paid_out
    BY <1>0, <1>3 DEF contribute, ContributeChecks, TypeOK, RoundState
  <2> QED
    BY <1>0, <1>3, <2>1 DEF contribute, ContributeChecks, repVars, RotationProgress
<1>4. ASSUME NEW m \in Address, mark_default(m) PROVE RotationProgress'
  BY <1>0, <1>4 DEF mark_default, MarkDefaultChecks, repVars, RotationProgress
<1>5. ASSUME NEW a \in Address, cancel(a) PROVE RotationProgress'
  BY <1>0, <1>5 DEF cancel, CancelChecks, repVars, RotationProgress
<1>6. ASSUME NEW a \in Address, close(a) PROVE RotationProgress'
  BY <1>0, <1>6 DEF close, CloseChecks, repVars, RotationProgress
<1>7. ASSUME NEW a \in Address, pause(a) \/ resume(a) PROVE RotationProgress'
  BY <1>0, <1>7 DEF pause, resume, repVars, RotationProgress
<1>8. CASE payout
  BY <1>8, SettleProgress DEF payout, PayoutChecks
<1>9. CASE settle_round
  BY <1>9, SettleProgress DEF settle_round
<1>10. CASE \/ AdvanceLedger \/ UNCHANGED vars
            \/ \E m \in MemberSet : freeze(m) \/ unfreeze(m)
            \/ add_authorized_caller \/ remove_authorized_caller
  BY <1>0, <1>10 DEF AdvanceLedger, freeze, unfreeze, add_authorized_caller,
     remove_authorized_caller, vars, contractVars, repVars, RotationProgress
<1> QED
  BY <1>1, <1>2, <1>3, <1>4, <1>5, <1>6, <1>7, <1>8, <1>9, <1>10 DEF Next

\* What the two steps that settle a round leave behind: records of the settled
\* round only, and an open round (if any) that has none.
LEMMA SettleRecords ==
  ASSUME IndInv, RoundOpen, SettleAndAdvance,
         NEW S \in SUBSET MemberSet,
         defaulted' = [defaulted EXCEPT ![round.round_index] = @ \cup S],
         UNCHANGED <<joined, contributed>>
  PROVE  RecordsInOrder'
<1> DEFINE r == round.round_index
<1>1. /\ TypeOK /\ r \in Rounds /\ r \in Nat /\ r < N /\ N \in Nat
      /\ status = "Active" /\ joined = MemberSet
      /\ \A k \in Rounds : k \in Nat
      /\ \A k \in Rounds : k > r => contributed[k] = {} /\ defaulted[k] = {}
  BY RotationFacts
     DEF IndInv, RoundOpen, RotationProgress, RecordsInOrder, TypeOK, RoundState
<1>2. \A k \in Rounds : k > r => contributed'[k] = {} /\ defaulted'[k] = {}
  BY <1>1 DEF TypeOK
<1>3. CASE r + 1 >= N
  <2>1. /\ status' = "Completed" /\ round' = [round EXCEPT !.paid_out = TRUE]
        /\ r = N - 1
    BY <1>1, <1>3 DEF SettleAndAdvance
  <2>2. round'.round_index = r /\ round'.paid_out
    BY <2>1, <1>1 DEF TypeOK, RoundState
  <2> QED
    BY <1>1, <1>2, <2>1, <2>2 DEF RecordsInOrder
<1>4. CASE ~(r + 1 >= N)
  <2>1. /\ status' = "Active" /\ round' = OpenRound(r + 1)
        /\ r + 1 \in Rounds
    BY <1>1, <1>4 DEF SettleAndAdvance, Rounds
  <2>2. round'.round_index = r + 1
    BY <2>1 DEF OpenRound
  <2>3. defaulted'[r + 1] = {}
    BY <1>1, <1>2, <2>1
  <2>4. \A k \in Rounds : k > r + 1 => contributed'[k] = {} /\ defaulted'[k] = {}
    BY <1>1, <1>2
  <2> QED
    BY <1>1, <2>1, <2>2, <2>3, <2>4 DEF RecordsInOrder
<1> QED
  BY <1>3, <1>4

\* Every step keeps the records in order.
LEMMA RecordsStep == IndInv /\ [Next]_vars => RecordsInOrder'
<1> SUFFICES ASSUME IndInv, [Next]_vars PROVE RecordsInOrder'
  OBVIOUS
<1>0. /\ TypeOK /\ RotationProgress /\ RecordsInOrder /\ N \in Nat
      /\ round.round_index \in Rounds /\ 0 \in Rounds
      /\ \A k \in Rounds : k \in Nat
  BY RotationFacts DEF IndInv, TypeOK, RoundState
<1>1. CASE initialize
  <2>1. /\ status = "Uninitialized" /\ status' = "Pending"
        /\ round' = OpenRound(0) /\ round.round_index = 0
        /\ UNCHANGED <<joined, collateral, contributed, defaulted>>
    BY <1>0, <1>1 DEF initialize, RecordsInOrder
  <2>2. round'.round_index = 0 /\ ~round'.paid_out
    BY <2>1 DEF OpenRound
  <2> QED
    BY <1>0, <2>1, <2>2 DEF RecordsInOrder
<1>2. ASSUME NEW m \in Address, join(m) PROVE RecordsInOrder'
  <2>1. /\ status = "Pending" /\ status' \in {"Pending", "Active"}
        /\ UNCHANGED <<contributed, defaulted>>
        /\ round.round_index = 0 /\ ~round.paid_out
        /\ contributed[0] = {} /\ defaulted[0] = {}
    BY <1>0, <1>2 DEF join, JoinChecks, RecordsInOrder
  <2>2. /\ round'.round_index = round.round_index
        /\ round'.paid_out = round.paid_out
    BY <1>0, <1>2 DEF join, JoinChecks, TypeOK, RoundState
  <2>3. \A k \in MemberSet \ joined' : collateral'[k] = 0
    BY <1>0, <1>2 DEF join, JoinChecks, RecordsInOrder, TypeOK
  <2> QED
    BY <1>0, <2>1, <2>2, <2>3 DEF RecordsInOrder
<1>3. ASSUME NEW m \in Address, contribute(m) PROVE RecordsInOrder'
  <2>1. /\ status = "Active" /\ UNCHANGED <<status, joined, collateral,
                                           defaulted, ledger>>
        /\ contributed' = [contributed EXCEPT ![round.round_index] = @ \cup {m}]
    BY <1>3 DEF contribute, ContributeChecks, RoundOpen
  <2>2. /\ round'.round_index = round.round_index
        /\ round'.deadline_ledger = round.deadline_ledger
    BY <1>0, <1>3 DEF contribute, ContributeChecks, TypeOK, RoundState
  <2>3. \A k \in Rounds : k > round.round_index => contributed'[k] = contributed[k]
    BY <1>0, <2>1 DEF TypeOK
  <2> QED
    BY <1>0, <2>1, <2>2, <2>3 DEF RecordsInOrder
<1>4. ASSUME NEW m \in Address, mark_default(m) PROVE RecordsInOrder'
  <2>1. /\ status = "Active" /\ ledger > round.deadline_ledger
        /\ UNCHANGED <<status, round, joined, contributed, ledger>>
        /\ joined = MemberSet
        /\ defaulted' = [defaulted EXCEPT ![round.round_index] = @ \cup {m}]
    BY <1>0, <1>4 DEF mark_default, MarkDefaultChecks, RoundOpen, deadline_passed,
                      Penalise, RotationProgress
  <2>2. \A k \in Rounds : k > round.round_index => defaulted'[k] = defaulted[k]
    BY <1>0, <2>1 DEF TypeOK
  <2> QED
    BY <1>0, <2>1, <2>2 DEF RecordsInOrder
<1>5. ASSUME NEW a \in Address, cancel(a) PROVE RecordsInOrder'
  BY <1>0, <1>5 DEF cancel, CancelChecks, RecordsInOrder
<1>6. ASSUME NEW a \in Address, close(a) PROVE RecordsInOrder'
  BY <1>0, <1>6 DEF close, CloseChecks, ReleaseCollateral, CanRelease, RecordsInOrder
<1>7. ASSUME NEW a \in Address, pause(a) \/ resume(a) PROVE RecordsInOrder'
  BY <1>0, <1>7 DEF pause, resume, RecordsInOrder
<1>8. CASE payout
  <2>1. PICK S \in SUBSET MemberSet :
          defaulted' = [defaulted EXCEPT ![round.round_index] = @ \cup S]
    <3>1. defaulted' = [defaulted EXCEPT ![round.round_index] = @ \cup {}]
      BY <1>0, <1>8 DEF payout, PayoutChecks, TypeOK
    <3> QED
      BY <3>1
  <2>2. /\ RoundOpen /\ SettleAndAdvance
        /\ UNCHANGED <<joined, contributed>>
    BY <1>8 DEF payout, PayoutChecks
  <2> QED
    BY <2>1, <2>2, SettleRecords
<1>9. CASE settle_round
  <2>1. Delinquent \in SUBSET MemberSet
    BY DEF Delinquent
  <2> QED
    BY <1>9, <2>1, SettleRecords DEF settle_round, Penalise
<1>10. CASE AdvanceLedger
  <2>1. ledger \in Nat /\ round.deadline_ledger \in Nat /\ ledger' = ledger + 1
    BY <1>0, <1>10 DEF TypeOK, RoundState, AdvanceLedger
  <2> QED
    BY <1>0, <1>10, <2>1 DEF AdvanceLedger, contractVars, RecordsInOrder
<1>11. CASE \/ UNCHANGED vars
            \/ \E m \in MemberSet : freeze(m) \/ unfreeze(m)
            \/ add_authorized_caller \/ remove_authorized_caller
  BY <1>0, <1>11 DEF freeze, unfreeze, add_authorized_caller,
     remove_authorized_caller, vars, contractVars, RecordsInOrder
<1> QED
  BY <1>1, <1>2, <1>3, <1>4, <1>5, <1>6, <1>7, <1>8, <1>9, <1>10, <1>11 DEF Next

\* The records of a round that has not been reached number 0, those of the
\* open round as many as the counter says.
LEMMA SettleTally ==
  ASSUME IndInv, RoundOpen, SettleAndAdvance, UNCHANGED contributed
  PROVE  TallyMatchesRecords'
<1> DEFINE r == round.round_index
<1>1. /\ TypeOK /\ r \in Rounds /\ r \in Nat /\ r < N /\ N \in Nat
      /\ TallyMatchesRecords
      /\ \A k \in Rounds : k > r => contributed[k] = {}
  BY RotationFacts DEF IndInv, RecordsInOrder, TypeOK, RoundState
<1>2. CASE r + 1 >= N
  <2>1. round' = [round EXCEPT !.paid_out = TRUE]
    BY <1>2 DEF SettleAndAdvance
  <2>2. /\ round'.round_index = r
        /\ round'.contributions_received = round.contributions_received
    BY <2>1, <1>1 DEF TypeOK, RoundState
  <2> QED
    BY <1>1, <2>2 DEF TallyMatchesRecords
<1>3. CASE ~(r + 1 >= N)
  <2>1. round' = OpenRound(r + 1) /\ r + 1 \in Rounds /\ r + 1 > r
    BY <1>1, <1>3 DEF SettleAndAdvance, Rounds
  <2>2. round'.round_index = r + 1 /\ round'.contributions_received = 0
    BY <2>1 DEF OpenRound
  <2>3. contributed'[r + 1] = {}
    BY <1>1, <2>1
  <2> QED
    BY <2>2, <2>3, FS_EmptySet DEF TallyMatchesRecords
<1> QED
  BY <1>2, <1>3

\* Every step keeps the counter equal to the number of records.
LEMMA TallyStep == IndInv /\ [Next]_vars => TallyMatchesRecords'
<1> SUFFICES ASSUME IndInv, [Next]_vars PROVE TallyMatchesRecords'
  OBVIOUS
<1>0. /\ TypeOK /\ RecordsInOrder /\ TallyMatchesRecords
      /\ round.round_index \in Rounds
  BY DEF IndInv, TypeOK, RoundState
<1>1. CASE initialize
  <2>1. /\ round' = OpenRound(0) /\ UNCHANGED contributed
        /\ contributed[0] = {}
    BY <1>0, <1>1 DEF initialize, RecordsInOrder
  <2>2. round'.round_index = 0 /\ round'.contributions_received = 0
    BY <2>1 DEF OpenRound
  <2> QED
    BY <2>1, <2>2, FS_EmptySet DEF TallyMatchesRecords
<1>2. ASSUME NEW m \in Address, join(m) PROVE TallyMatchesRecords'
  <2>1. /\ round'.round_index = round.round_index
        /\ round'.contributions_received = round.contributions_received
        /\ UNCHANGED contributed
    BY <1>0, <1>2 DEF join, JoinChecks, TypeOK, RoundState
  <2> QED
    BY <1>0, <2>1 DEF TallyMatchesRecords
<1>3. ASSUME NEW m \in Address, contribute(m) PROVE TallyMatchesRecords'
  <2> DEFINE C == contributed[round.round_index]
  <2>1. /\ round'.round_index = round.round_index
        /\ round'.contributions_received = round.contributions_received + 1
    BY <1>0, <1>3 DEF contribute, ContributeChecks, TypeOK, RoundState
  <2>2. /\ contributed'[round.round_index] = C \cup {m}
        /\ m \notin C /\ m \in MemberSet /\ C \in SUBSET MemberSet
    BY <1>0, <1>3 DEF contribute, ContributeChecks, TypeOK
  <2>3. IsFiniteSet(C)
    BY <2>2, MembersFinite, FS_Subset
  <2>4. Cardinality(C \cup {m}) = Cardinality(C) + 1
    BY <2>2, <2>3, FS_AddElement
  <2> QED
    BY <1>0, <2>1, <2>2, <2>4 DEF TallyMatchesRecords
<1>4. CASE payout
  BY <1>4, SettleTally DEF payout, PayoutChecks
<1>5. CASE settle_round
  BY <1>5, SettleTally DEF settle_round
<1>6. CASE UNCHANGED <<round, contributed>>
  BY <1>0, <1>6 DEF TallyMatchesRecords
<1>7. CASE \/ \E a \in Address : \/ mark_default(a) \/ cancel(a) \/ close(a)
                                 \/ pause(a) \/ resume(a)
           \/ \E m \in MemberSet : freeze(m) \/ unfreeze(m)
           \/ AdvanceLedger \/ add_authorized_caller \/ remove_authorized_caller
           \/ UNCHANGED vars
  <2>1. UNCHANGED <<round, contributed>>
    BY <1>7 DEF mark_default, MarkDefaultChecks, cancel, CancelChecks, close, CloseChecks,
                pause, resume, freeze, unfreeze, AdvanceLedger, add_authorized_caller,
                remove_authorized_caller, vars, contractVars
  <2> QED
    BY <2>1, <1>6
<1> QED
  BY <1>1, <1>2, <1>3, <1>4, <1>5, <1>7 DEF Next

\* Every step keeps credited and penalised members apart: a flag needs a
\* deadline that has passed and no record, a record needs one that has not
\* passed and, before it, no flag can exist.
LEMMA NeverPaidStep == IndInv /\ [Next]_vars => NeverPaidAndDefaulted'
<1> SUFFICES ASSUME IndInv, [Next]_vars PROVE NeverPaidAndDefaulted'
  OBVIOUS
<1>0. /\ TypeOK /\ RecordsInOrder /\ NeverPaidAndDefaulted
      /\ round.round_index \in Rounds
      /\ ledger \in Nat /\ round.deadline_ledger \in Nat
  BY DEF IndInv, TypeOK, RoundState
<1>1. ASSUME NEW m \in Address, contribute(m) PROVE NeverPaidAndDefaulted'
  <2>1. /\ contributed' = [contributed EXCEPT ![round.round_index] = @ \cup {m}]
        /\ UNCHANGED defaulted
        /\ status = "Active" /\ ~(ledger > round.deadline_ledger)
    BY <1>1 DEF contribute, ContributeChecks, RoundOpen, deadline_passed
  <2>2. defaulted[round.round_index] = {}
    BY <1>0, <2>1 DEF RecordsInOrder
  <2> QED
    BY <1>0, <2>1, <2>2 DEF NeverPaidAndDefaulted, TypeOK
<1>2. ASSUME NEW S, S \subseteq Delinquent, Penalise(S), UNCHANGED contributed
      PROVE  NeverPaidAndDefaulted'
  <2>1. /\ defaulted' = [defaulted EXCEPT ![round.round_index] = @ \cup S]
        /\ S \cap contributed[round.round_index] = {}
    BY <1>2 DEF Penalise, Delinquent
  <2> QED
    BY <1>0, <1>2, <2>1 DEF NeverPaidAndDefaulted, TypeOK
<1>3. ASSUME NEW m \in Address, mark_default(m) PROVE NeverPaidAndDefaulted'
  <2>1. {m} \subseteq Delinquent /\ Penalise({m}) /\ UNCHANGED contributed
    BY <1>3 DEF mark_default, MarkDefaultChecks
  <2> QED
    BY <2>1, <1>2
<1>4. CASE settle_round
  BY <1>4, <1>2 DEF settle_round
<1>5. CASE UNCHANGED <<contributed, defaulted>>
  BY <1>0, <1>5 DEF NeverPaidAndDefaulted
<1>6. CASE \/ initialize \/ payout \/ AdvanceLedger
           \/ \E a \in Address : \/ join(a) \/ cancel(a) \/ close(a)
                                 \/ pause(a) \/ resume(a)
           \/ \E m \in MemberSet : freeze(m) \/ unfreeze(m)
           \/ add_authorized_caller \/ remove_authorized_caller
           \/ UNCHANGED vars
  <2>1. UNCHANGED <<contributed, defaulted>>
    BY <1>6 DEF initialize, payout, PayoutChecks, join, JoinChecks, cancel, CancelChecks,
                close, CloseChecks, pause, resume, freeze, unfreeze, AdvanceLedger,
                add_authorized_caller, remove_authorized_caller, vars, contractVars
  <2> QED
    BY <2>1, <1>5
<1> QED
  BY <1>1, <1>3, <1>4, <1>6 DEF Next

\* After a settlement the escrow is empty: the next round has no contributions,
\* the last one is paid.
LEMMA SettleEscrow ==
  ASSUME TypeOK, SettleAndAdvance
  PROVE  Escrowed' = 0
<1>1. CASE round.round_index + 1 >= N
  <2>1. round' = [round EXCEPT !.paid_out = TRUE]
    BY <1>1 DEF SettleAndAdvance
  <2>2. round'.paid_out
    BY <2>1 DEF TypeOK, RoundState
  <2> QED
    BY <2>2 DEF Escrowed
<1>2. CASE ~(round.round_index + 1 >= N)
  <2>1. round' = OpenRound(round.round_index + 1)
    BY <1>2 DEF SettleAndAdvance
  <2>2. round'.contributions_received = 0
    BY <2>1 DEF OpenRound
  <2> QED
    BY <2>2 DEF Escrowed
<1> QED
  BY <1>1, <1>2

\* Every step keeps the balance equal to what the contract owes and has kept.
LEMMA SolvencyStep == IndInv /\ [Next]_vars => Solvency'
<1> SUFFICES ASSUME IndInv, [Next]_vars PROVE Solvency'
  OBVIOUS
<1> DEFINE cr == round.contributions_received
<1>0. /\ TypeOK /\ RecordsInOrder /\ TallyMatchesRecords /\ Solvency
      /\ N \in Nat /\ cr \in Nat /\ round_amount \in Nat
      /\ vault \in Nat /\ forfeited \in Nat
      /\ collateral \in [MemberSet -> Nat]
      /\ Total(collateral) \in Nat
      /\ round_amount * 0 = 0
      /\ round_amount * (cr + 1) = round_amount * cr + round_amount
      /\ round_amount * cr \in Nat
  <2>1. /\ TypeOK /\ RecordsInOrder /\ TallyMatchesRecords /\ Solvency
        /\ N \in Nat /\ cr \in Nat /\ round_amount \in Nat
        /\ vault \in Nat /\ forfeited \in Nat
        /\ collateral \in [MemberSet -> Nat]
    BY RotationFacts, ConfigAssumption DEF IndInv, TypeOK, RoundState
  <2>2. Total(collateral) \in Nat
    BY <2>1, TotalType
  <2>3. /\ round_amount * 0 = 0
        /\ round_amount * (cr + 1) = round_amount * cr + round_amount
        /\ round_amount * cr \in Nat
    <3> HIDE DEF cr
    <3> QED
      BY <2>1
  <2> QED
    BY <2>1, <2>2, <2>3
<1>1. CASE initialize
  <2>1. /\ round' = OpenRound(0) /\ UNCHANGED <<collateral, vault, forfeited>>
        /\ status = "Uninitialized"
    BY <1>1 DEF initialize, tokenVars
  <2>2. round'.contributions_received = 0
    BY <2>1 DEF OpenRound
  <2>3. Escrowed = 0
    <3>1. contributed[round.round_index] = {}
      BY <1>0, <2>1 DEF RecordsInOrder
    <3>2. cr = 0
      BY <1>0, <3>1, FS_EmptySet DEF TallyMatchesRecords
    <3> QED
      BY <3>2 DEF Escrowed
  <2>4. Escrowed' = 0
    BY <2>2 DEF Escrowed
  <2> QED
    BY <1>0, <2>1, <2>3, <2>4 DEF Solvency
<1>2. ASSUME NEW m \in Address, join(m) PROVE Solvency'
  <2>1. /\ m \in MemberSet /\ collateral[m] = 0 /\ CollateralDue \in Nat
        /\ collateral' = [collateral EXCEPT ![m] = CollateralDue]
        /\ vault' = vault + CollateralDue /\ forfeited' = forfeited
    BY <1>0, <1>2 DEF join, JoinChecks, safe_transfer_in, CanPay, RecordsInOrder,
                      CollateralDue, COLLATERAL_MULTIPLIER
  <2>2. Total(collateral') = Total(collateral) + CollateralDue
    BY <1>0, <2>1, TotalDeposit
  <2>3. Escrowed' = Escrowed
    <3>1. /\ round'.paid_out = round.paid_out
          /\ round'.contributions_received = round.contributions_received
      BY <1>0, <1>2 DEF join, JoinChecks, TypeOK, RoundState
    <3> QED
      BY <3>1 DEF Escrowed
  <2>4. round_amount * Escrowed \in Nat
    BY <1>0 DEF Escrowed
  <2> QED
    BY <1>0, <2>1, <2>2, <2>3, <2>4 DEF Solvency
<1>3. ASSUME NEW m \in Address, contribute(m) PROVE Solvency'
  <2>1. /\ vault' = vault + round_amount /\ ~round.paid_out
        /\ UNCHANGED <<collateral, forfeited>>
    BY <1>3 DEF contribute, ContributeChecks, safe_transfer_in, CanPay, RoundOpen
  <2>2. /\ round'.paid_out = round.paid_out
        /\ round'.contributions_received = cr + 1
    BY <1>0, <1>3 DEF contribute, ContributeChecks, TypeOK, RoundState
  <2>3. Escrowed = cr /\ Escrowed' = cr + 1
    BY <2>1, <2>2 DEF Escrowed
  <2> QED
    BY <1>0, <2>1, <2>3 DEF Solvency
<1>4. ASSUME NEW m \in Address, mark_default(m) PROVE Solvency'
  <2>1. {m} \in SUBSET MemberSet /\ Penalise({m})
    BY <1>4 DEF mark_default, MarkDefaultChecks, Delinquent
  <2>2. /\ Total(collateral') + Total(Fine({m})) = Total(collateral)
        /\ forfeited' = forfeited + Total(Fine({m}))
    BY <1>0, <2>1, TotalFined
  <2>3. Total(collateral') \in Nat /\ Total(Fine({m})) \in Nat
    BY <1>0, <2>1, FineFacts, PenaliseType, TotalType
  <2>4. Escrowed' = Escrowed /\ vault' = vault
    BY <1>4 DEF mark_default, MarkDefaultChecks, tokenVars, Escrowed
  <2>5. round_amount * Escrowed \in Nat
    BY <1>0 DEF Escrowed
  <2> QED
    BY <1>0, <2>2, <2>3, <2>4, <2>5 DEF Solvency
<1>5. ASSUME NEW a \in Address, close(a) PROVE Solvency'
  <2>1. /\ collateral' = [m \in MemberSet |-> 0]
        /\ vault' = vault - Total(collateral) /\ UNCHANGED <<round, forfeited>>
    BY <1>5 DEF close, CloseChecks, ReleaseCollateral, CanRelease
  <2>2. Total(collateral') = 0
    BY <2>1, TotalZero
  <2>3. Escrowed' = Escrowed
    BY <2>1 DEF Escrowed
  <2>4. round_amount * Escrowed \in Nat
    BY <1>0 DEF Escrowed
  <2> QED
    BY <1>0, <2>1, <2>2, <2>3, <2>4 DEF Solvency
<1>6. CASE payout
  <2>1. /\ vault' = vault - round_amount * N /\ cr = N /\ ~round.paid_out
        /\ SettleAndAdvance /\ UNCHANGED <<collateral, forfeited>>
    BY <1>6 DEF payout, PayoutChecks, safe_transfer_out, CanReceive, RoundOpen
  <2>2. Escrowed = N /\ Escrowed' = 0
    BY <1>0, <2>1, SettleEscrow DEF Escrowed
  <2>3. round_amount * N \in Nat
    BY <1>0
  <2> QED
    BY <1>0, <2>1, <2>2, <2>3 DEF Solvency
<1>7. CASE settle_round
  <2>1. /\ Penalise(Delinquent) /\ Delinquent \in SUBSET MemberSet
        /\ PayPot(round.recipient, SettlementPot)
        /\ SettleAndAdvance /\ ~round.paid_out
    BY <1>7 DEF settle_round, RoundOpen, Delinquent
  <2>2. SettlementPot = round_amount * cr
    BY <1>0 DEF SettlementPot, TallyMatchesRecords
  <2>3. vault' = vault - round_amount * cr
    BY <1>0, <2>1, <2>2 DEF PayPot, safe_transfer_out, CanReceive
  <2>4. /\ Total(collateral') + Total(Fine(Delinquent)) = Total(collateral)
        /\ forfeited' = forfeited + Total(Fine(Delinquent))
    BY <1>0, <2>1, TotalFined
  <2>5. Total(collateral') \in Nat /\ Total(Fine(Delinquent)) \in Nat
    BY <1>0, <2>1, FineFacts, PenaliseType, TotalType
  <2>6. Escrowed = cr /\ Escrowed' = 0
    BY <1>0, <2>1, SettleEscrow DEF Escrowed
  <2> QED
    BY <1>0, <2>3, <2>4, <2>5, <2>6 DEF Solvency
<1>8. CASE UNCHANGED <<round, collateral, vault, forfeited>>
  BY <1>0, <1>8 DEF Solvency, Escrowed
<1>9. CASE \/ \E a \in Address : cancel(a) \/ pause(a) \/ resume(a)
           \/ \E m \in MemberSet : freeze(m) \/ unfreeze(m)
           \/ AdvanceLedger \/ add_authorized_caller \/ remove_authorized_caller
           \/ UNCHANGED vars
  <2>1. UNCHANGED <<round, collateral, vault, forfeited>>
    BY <1>9 DEF cancel, CancelChecks, pause, resume, freeze, unfreeze, AdvanceLedger,
                add_authorized_caller, remove_authorized_caller, vars, contractVars,
                tokenVars
  <2> QED
    BY <2>1, <1>8
<1> QED
  BY <1>1, <1>2, <1>3, <1>4, <1>5, <1>6, <1>7, <1>9 DEF Next

\* Every step of the circle keeps it.
LEMMA IndStep == IndInv /\ [Next]_vars => IndInv'
<1> SUFFICES ASSUME IndInv, [Next]_vars PROVE IndInv'
  OBVIOUS
<1>1. TypeOK'
  BY TypeStep DEF IndInv
<1>2. /\ RotationProgress' /\ RecordsInOrder' /\ TallyMatchesRecords'
      /\ NeverPaidAndDefaulted' /\ Solvency'
  BY RotationStep, RecordsStep, TallyStep, NeverPaidStep, SolvencyStep
<1> QED
  BY <1>1, <1>2 DEF IndInv

\* Every reachable state of the circle satisfies the inductive invariant.
THEOREM Invariance == Spec => []IndInv
<1>1. Init => IndInv
  BY IndInit
<1>2. IndInv /\ [Next]_vars => IndInv'
  BY IndStep
<1> QED
  BY <1>1, <1>2, PTL DEF Spec

\* The contract's balance always equals collateral owed, contributions in
\* escrow and penalties kept.
THEOREM AlwaysSolvent == Spec => []Solvency
<1>1. IndInv => Solvency
  BY DEF IndInv
<1> QED
  BY <1>1, Invariance, PTL

\* The counter payout trusts always agrees with the Contributed keys, so its
\* tally mismatch panic is unreachable.
THEOREM TallyNeverDrifts == Spec => []TallyMatchesRecords
<1>1. IndInv => TallyMatchesRecords
  BY DEF IndInv
<1> QED
  BY <1>1, Invariance, PTL

\* No member is ever both credited and penalised for one round.
THEOREM PaidIsNeverPenalised == Spec => []NeverPaidAndDefaulted
<1>1. IndInv => NeverPaidAndDefaulted
  BY DEF IndInv
<1> QED
  BY <1>1, Invariance, PTL

\* Rounds are settled once each, in rotation order, one point per recipient.
THEOREM RotationInOrder == Spec => []RotationProgress
<1>1. IndInv => RotationProgress
  BY DEF IndInv
<1> QED
  BY <1>1, Invariance, PTL

\* Records never run ahead of the rotation, nor flags of the deadline.
THEOREM RecordsStayInOrder == Spec => []RecordsInOrder
<1>1. IndInv => RecordsInOrder
  BY DEF IndInv
<1> QED
  BY <1>1, Invariance, PTL

\* The rotation and its records stay together, at any number of members.
THEOREM RotationHolds == Spec => []Rotation
<1>1. RotationProgress /\ RecordsInOrder => Rotation
  BY DEF Rotation
<1> QED
  BY <1>1, RotationInOrder, RecordsStayInOrder, PTL

-----------------------------------------------------------------------------
(* What a step may never do.                                               *)

\* Nothing is paused before initialize: pause needs a stored Admin.
FreshNotPaused == status = "Uninitialized" => ~paused

\* The Admin pause looks for is stored by initialize, together with Status.
LEMMA NotPausedBeforeInitialize == Spec => []FreshNotPaused
<1>1. Init => FreshNotPaused
  BY DEF Init, FreshNotPaused
<1>2. FreshNotPaused /\ [Next]_vars => FreshNotPaused'
  <2> SUFFICES ASSUME FreshNotPaused, [Next]_vars PROVE FreshNotPaused'
    OBVIOUS
  <2>1. CASE \/ UNCHANGED <<status, paused>>
             \/ status' # "Uninitialized"
    BY <2>1 DEF FreshNotPaused
  <2>2. CASE \/ initialize \/ payout \/ settle_round
             \/ \E a \in Address : \/ join(a) \/ contribute(a)
                                   \/ mark_default(a) \/ cancel(a) \/ close(a)
                                   \/ pause(a) \/ resume(a)
    <3>1. UNCHANGED <<status, paused>> \/ status' # "Uninitialized"
      BY <2>2 DEF initialize, payout, PayoutChecks, settle_round, RoundOpen,
                  SettleAndAdvance, join, JoinChecks, contribute, ContributeChecks,
                  mark_default, MarkDefaultChecks, cancel, CancelChecks, close,
                  CloseChecks, pause, resume
    <3> QED
      BY <2>1, <3>1
  <2>3. CASE \/ \E m \in MemberSet : freeze(m) \/ unfreeze(m)
             \/ AdvanceLedger \/ add_authorized_caller
             \/ remove_authorized_caller \/ UNCHANGED vars
    <3>1. UNCHANGED <<status, paused>>
      BY <2>3 DEF freeze, unfreeze, AdvanceLedger, add_authorized_caller,
         remove_authorized_caller, vars, contractVars
    <3> QED
      BY <2>1, <3>1
  <2> QED
    BY <2>2, <2>3 DEF Next
<1> QED
  BY <1>1, <1>2, PTL DEF Spec

\* A pause stops every movement of tokens and records until resume.
THEOREM PauseHolds == Spec => PauseFreezesCircle
<1>1. ASSUME FreshNotPaused, [Next]_vars
      PROVE  [paused => UNCHANGED <<status, round, rounds_completed, closed,
                joined, collateral, contributed, defaulted, defaults, wallet,
                vault, awarded>>]_vars
  <2>1. SUFFICES ASSUME paused, ~UNCHANGED vars
                 PROVE  UNCHANGED <<status, round, rounds_completed, closed,
                          joined, collateral, contributed, defaulted, defaults,
                          wallet, vault, awarded>>
    OBVIOUS
  <2>2. CASE initialize
    BY <1>1, <2>1, <2>2 DEF initialize, FreshNotPaused
  <2>3. ASSUME NEW a \in Address, \/ join(a) \/ contribute(a) \/ mark_default(a)
                                  \/ cancel(a) \/ close(a)
        PROVE  FALSE
    BY <2>1, <2>3 DEF join, JoinChecks, contribute, ContributeChecks, mark_default,
                      MarkDefaultChecks, cancel, CancelChecks, close, CloseChecks,
                      assert_not_paused
  <2>4. CASE payout \/ settle_round
    BY <2>1, <2>4 DEF payout, PayoutChecks, settle_round, assert_not_paused
  <2>5. CASE \/ \E a \in Address : pause(a) \/ resume(a)
             \/ \E m \in MemberSet : freeze(m) \/ unfreeze(m)
             \/ AdvanceLedger \/ add_authorized_caller
             \/ remove_authorized_caller
    BY <2>5 DEF pause, resume, freeze, unfreeze, AdvanceLedger,
       add_authorized_caller, remove_authorized_caller, contractVars,
       tokenVars, repVars
  <2> QED
    BY <1>1, <2>1, <2>2, <2>3, <2>4, <2>5 DEF Next
<1> QED
  BY <1>1, NotPausedBeforeInitialize, PTL DEF Spec, PauseFreezesCircle

\* Only the open round of an Active circle gains records.
THEOREM RecordsOfSettledRoundsAreFinal == Spec => SettledRoundsAreFinal
<1>1. ASSUME TypeOK, [Next]_vars
      PROVE  [\A r \in Rounds :
                (contributed[r]' # contributed[r] \/ defaulted[r]' # defaulted[r])
                  => status = "Active" /\ r = round.round_index]_vars
  <2>1. SUFFICES ASSUME NEW r \in Rounds, ~UNCHANGED vars,
                        \/ contributed'[r] # contributed[r]
                        \/ defaulted'[r] # defaulted[r]
                 PROVE  status = "Active" /\ r = round.round_index
    OBVIOUS
  <2>2. ASSUME NEW a \in Address, contribute(a)
        PROVE  status = "Active" /\ r = round.round_index
    BY <1>1, <2>1, <2>2 DEF contribute, ContributeChecks, RoundOpen, TypeOK, RoundState
  <2>3. ASSUME NEW a \in Address, mark_default(a)
        PROVE  status = "Active" /\ r = round.round_index
    BY <1>1, <2>1, <2>3 DEF mark_default, MarkDefaultChecks, Penalise, RoundOpen, TypeOK,
                            RoundState
  <2>4. CASE settle_round
    BY <1>1, <2>1, <2>4 DEF settle_round, Penalise, RoundOpen, TypeOK, RoundState
  <2>5. CASE \/ initialize \/ payout \/ AdvanceLedger
             \/ \E a \in Address : \/ join(a) \/ cancel(a) \/ close(a)
                                   \/ pause(a) \/ resume(a)
             \/ \E m \in MemberSet : freeze(m) \/ unfreeze(m)
             \/ add_authorized_caller \/ remove_authorized_caller
    <3>1. UNCHANGED <<contributed, defaulted>>
      BY <2>5 DEF initialize, payout, PayoutChecks, join, JoinChecks, cancel,
                  CancelChecks, close, CloseChecks, pause, resume, freeze, unfreeze,
                  AdvanceLedger, add_authorized_caller, remove_authorized_caller,
                  contractVars
    <3> QED
      BY <2>1, <3>1
  <2> QED
    BY <1>1, <2>1, <2>2, <2>3, <2>4, <2>5 DEF Next
<1> QED
  BY <1>1, TypeCorrect, PTL DEF Spec, SettledRoundsAreFinal

\* Neither a pause nor a settlement is worked around by any entry point.
THEOREM FinalRecords == Spec => RecordsAreFinal
BY PauseHolds, RecordsOfSettledRoundsAreFinal DEF RecordsAreFinal

\* The steps of the status that the documents know.
LegalMove ==
  \/ status = "Uninitialized" /\ status' = "Pending"
  \/ status = "Pending" /\ status' = "Active" /\ joined' = MemberSet
  \/ status = "Pending" /\ status' = "Cancelled"
  \/ /\ status = "Active" /\ status' = "Completed"
     /\ round.round_index = N - 1

\* A step takes one of them or leaves the status alone.
LEMMA StatusMoves == TypeOK /\ [Next]_vars => status' = status \/ LegalMove
<1> SUFFICES ASSUME TypeOK, [Next]_vars, status' # status PROVE LegalMove
  OBVIOUS
<1> USE DEF LegalMove
<1>1. ~UNCHANGED vars
  BY DEF vars, contractVars
<1>2. CASE initialize
  BY <1>2 DEF initialize
<1>3. ASSUME NEW a \in Address, join(a) \/ cancel(a) PROVE LegalMove
  BY <1>3 DEF join, JoinChecks, cancel, CancelChecks
<1>4. CASE payout \/ settle_round
  <2>1. RoundOpen /\ SettleAndAdvance
    BY <1>4 DEF payout, PayoutChecks, settle_round
  <2>2. round.round_index \in Rounds /\ N \in Nat
    BY RotationFacts DEF TypeOK, RoundState
  <2>3. round.round_index + 1 >= N
    BY <2>1 DEF SettleAndAdvance
  <2>4. status' = "Completed" /\ status = "Active"
    BY <2>1, <2>3 DEF SettleAndAdvance, RoundOpen
  <2>5. round.round_index = N - 1
    BY <2>2, <2>3 DEF Rounds
  <2> QED
    BY <2>4, <2>5
<1>5. CASE \/ AdvanceLedger
           \/ \E a \in Address : \/ contribute(a) \/ mark_default(a)
                                 \/ close(a) \/ pause(a) \/ resume(a)
           \/ \E m \in MemberSet : freeze(m) \/ unfreeze(m)
           \/ add_authorized_caller \/ remove_authorized_caller
  <2>1. UNCHANGED status
    BY <1>5 DEF contribute, ContributeChecks, mark_default, MarkDefaultChecks, close,
                CloseChecks, pause, resume, freeze, unfreeze, AdvanceLedger,
                add_authorized_caller, remove_authorized_caller, contractVars
  <2> QED
    BY <2>1
<1> QED
  BY <1>1, <1>2, <1>3, <1>4, <1>5 DEF Next

\* Status never leaves the documented lifecycle.
THEOREM LifecycleHolds == Spec => StatusLifecycle
<1>1. TypeOK /\ [Next]_vars => [status' # status => LegalMove]_vars
  BY StatusMoves
<1>2. [][status' # status => LegalMove]_vars <=> StatusLifecycle
  BY PTL DEF StatusLifecycle, LegalMove
<1> QED
  BY <1>1, <1>2, TypeCorrect, PTL DEF Spec

-----------------------------------------------------------------------------
(* Refinement.                                                             *)

\* A circle, with the registration actions of its environment, implements the
\* contract between circles and the reputation contract.
THEOREM RefinesRegistration == Spec => KeepsRegistrationContract
<1>1. Init => Registration!Init
  BY DEF Init, Registration!Init
<1>2. ASSUME TypeOK, [Next]_vars
      PROVE  [Registration!Next]_<<registration, awarded>>
  <2>1. ASSUME NEW m \in MemberSet, award_reputation(m)
        PROVE  Registration!Next
    BY <2>1 DEF award_reputation, Registration!Next, Registration!Award
  <2>2. CASE payout \/ settle_round
    <3>1. round.recipient \in MemberSet
      BY <1>2 DEF TypeOK, RoundState
    <3>2. award_reputation(round.recipient)
      BY <2>2 DEF payout, PayoutChecks, settle_round
    <3> QED
      BY <2>1, <3>1, <3>2
  <2>3. CASE add_authorized_caller
    BY <2>3 DEF add_authorized_caller, Registration!Next, Registration!Register
  <2>4. CASE remove_authorized_caller
    BY <2>4 DEF remove_authorized_caller, Registration!Next, Registration!Revoke
  <2>5. CASE \/ initialize \/ AdvanceLedger
             \/ \E a \in Address : \/ join(a) \/ contribute(a)
                                   \/ mark_default(a) \/ cancel(a) \/ close(a)
                                   \/ pause(a) \/ resume(a)
             \/ \E m \in MemberSet : freeze(m) \/ unfreeze(m)
             \/ UNCHANGED vars
    BY <2>5 DEF initialize, AdvanceLedger, join, JoinChecks, contribute, ContributeChecks,
                mark_default, MarkDefaultChecks, cancel, CancelChecks, close, CloseChecks,
                pause, resume, freeze, unfreeze, vars, repVars
  <2> QED
    BY <1>2, <2>2, <2>3, <2>4, <2>5 DEF Next
<1> QED
  BY <1>1, <1>2, TypeCorrect, PTL
     DEF Spec, KeepsRegistrationContract, Registration!Spec

-----------------------------------------------------------------------------
(* What a member loses: the penalties, whatever the amount and however      *)
(* often the division truncates, and nothing else.                          *)
(*                                                                          *)
(* First, what is left of a deposit.                                        *)

\* A table of what is left after 0, 1, ..., k penalties.
IsLeft(g, k) ==
  /\ g[0] = CollateralDue
  /\ \A i \in 1..k : g[i] = g[i - 1] - PenaltyOf(g[i - 1])

\* There is such a table.
LEMMA LeftExists ==
  \E g : g = [i \in 0..N |-> g[i]] /\ IsLeft(g, N)
<1> DEFINE T == {k \in Nat : \E g : g = [i \in 0..k |-> g[i]] /\ IsLeft(g, k)}
<1>1. 0 \in T
  <2> DEFINE g == [i \in 0..0 |-> CollateralDue]
  <2>1. g = [i \in 0..0 |-> g[i]] /\ IsLeft(g, 0)
    BY DEF IsLeft
  <2> QED
    BY <2>1
<1>2. ASSUME NEW k \in Nat, k \in T PROVE k + 1 \in T
  <2>1. PICK g : IsLeft(g, k)
    BY <1>2
  <2> DEFINE last == g[k] - PenaltyOf(g[k])
             h == [i \in 0..(k + 1) |-> IF i = k + 1 THEN last ELSE g[i]]
  <2>2. h[0] = CollateralDue
    BY <2>1 DEF IsLeft
  <2>3. ASSUME NEW i \in 1..(k + 1) PROVE h[i] = h[i - 1] - PenaltyOf(h[i - 1])
    <3>1. CASE i = k + 1
      <4>1. h[i] = last /\ h[i - 1] = g[k]
        BY <3>1, k # k + 1, k \in 0..(k + 1)
      <4> QED
        BY <4>1
    <3>2. CASE i # k + 1
      <4>1. i \in 1..k /\ i \in 0..(k + 1) /\ i - 1 \in 0..(k + 1) /\ i - 1 # k + 1
        BY <3>2
      <4>2. h[i] = g[i] /\ h[i - 1] = g[i - 1]
        BY <3>2, <4>1
      <4> QED
        BY <2>1, <4>1, <4>2 DEF IsLeft
    <3> QED
      BY <3>1, <3>2
  <2>4. h = [i \in 0..(k + 1) |-> h[i]]
    OBVIOUS
  <2> HIDE DEF h
  <2>5. IsLeft(h, k + 1)
    BY <2>2, <2>3 DEF IsLeft
  <2>6. \E f : f = [i \in 0..(k + 1) |-> f[i]] /\ IsLeft(f, k + 1)
    BY <2>4, <2>5
  <2> QED
    BY <2>6
<1> HIDE DEF T
<1>3. \A k \in Nat : k \in T
  BY <1>1, <1>2, InductiveSet
<1> QED
  BY <1>3, RotationFacts DEF T

\* Remaining is one: the recursive function has the value its definition says.
LEMMA RemainingIs == IsLeft(Remaining, N)
<1> DEFINE Body(p) == [i \in 0..N |-> IF i = 0 THEN CollateralDue
                                      ELSE p[i - 1] - PenaltyOf(p[i - 1])]
<1>1. PICK g : g = [i \in 0..N |-> g[i]] /\ IsLeft(g, N)
  BY LeftExists
<1>2. g = Body(g)
  <2>1. \A i \in 0..N : i # 0 => i \in 1..N
    BY RotationFacts
  <2>2. \A i \in 0..N : g[i] = Body(g)[i]
    BY <1>1, <2>1 DEF IsLeft
  <2>3. Body(g) = [i \in 0..N |-> Body(g)[i]]
    OBVIOUS
  <2> HIDE DEF Body
  <2> QED
    BY <1>1, <2>2, <2>3
<1>3. Remaining = CHOOSE p : p = Body(p)
  BY DEF Remaining
<1>4. Remaining = Body(Remaining)
  <2> HIDE DEF Body
  <2> QED
    BY <1>2, <1>3
<1>5. \A i \in 0..N : Body(Remaining)[i] = IF i = 0 THEN CollateralDue
                             ELSE Remaining[i - 1] - PenaltyOf(Remaining[i - 1])
  OBVIOUS
<1>6. \A i \in 0..N : Remaining[i] = IF i = 0 THEN CollateralDue
                             ELSE Remaining[i - 1] - PenaltyOf(Remaining[i - 1])
  <2> HIDE DEF Body
  <2> QED
    BY <1>4, <1>5
<1>7. 0 \in 0..N /\ \A i \in 1..N : i \in 0..N /\ i # 0
  BY RotationFacts
<1> QED
  BY <1>6, <1>7 DEF IsLeft

\* A deposit is never used up: every penalty leaves something.
LEMMA RemainingPositive == \A k \in 0..N : Remaining[k] \in Nat /\ Remaining[k] > 0
<1> DEFINE T == {k \in Nat : k <= N => Remaining[k] \in Nat /\ Remaining[k] > 0}
<1>1. 0 \in T
  BY RemainingIs, ConfigAssumption DEF IsLeft, CollateralDue, COLLATERAL_MULTIPLIER
<1>2. ASSUME NEW k \in Nat, k \in T PROVE k + 1 \in T
  <2> SUFFICES ASSUME k + 1 <= N PROVE Remaining[k + 1] \in Nat /\ Remaining[k + 1] > 0
    OBVIOUS
  <2>1. Remaining[k] \in Nat /\ Remaining[k] > 0
    BY <1>2, RotationFacts
  <2>2. Remaining[k + 1] = Remaining[k] - PenaltyOf(Remaining[k])
    <3>1. k + 1 \in 1..N /\ (k + 1) - 1 = k
      BY RotationFacts
    <3> QED
      BY <3>1, RemainingIs DEF IsLeft
  <2>3. PenaltyOf(Remaining[k]) \in Nat /\ PenaltyOf(Remaining[k]) < Remaining[k]
    BY <2>1, PenaltyFacts
  <2> QED
    BY <2>1, <2>2, <2>3
<1> HIDE DEF T
<1>3. \A k \in Nat : k \in T
  BY <1>1, <1>2, InductiveSet
<1> QED
  BY <1>3, RotationFacts DEF T

-----------------------------------------------------------------------------
(* Rounds of a member.                                                     *)

\* A set of rounds has at most N elements, and one more with one more round.
LEMMA RoundsCounted ==
  ASSUME NEW S \in SUBSET Rounds
  PROVE  /\ IsFiniteSet(S) /\ Cardinality(S) \in 0..N
         /\ S = {} <=> Cardinality(S) = 0
         /\ S = Rounds => Cardinality(S) = N
         /\ \A r \in Rounds \ S : /\ Cardinality(S \cup {r}) = Cardinality(S) + 1
                                  /\ Cardinality(S) + 1 \in 1..N
<1>1. IsFiniteSet(Rounds) /\ Cardinality(Rounds) = N
  BY RotationFacts, FS_Interval DEF Rounds
<1>2. ASSUME NEW A \in SUBSET Rounds
      PROVE  IsFiniteSet(A) /\ Cardinality(A) \in Nat /\ Cardinality(A) <= N
  BY <1>1, FS_Subset, FS_CardinalityType
<1>3. ASSUME NEW r \in Rounds \ S
      PROVE  Cardinality(S \cup {r}) = Cardinality(S) + 1 /\ Cardinality(S) + 1 \in 1..N
  <2>1. Cardinality(S \cup {r}) = Cardinality(S) + 1
    BY <1>2, <1>3, FS_AddElement
  <2>2. S \cup {r} \in SUBSET Rounds
    BY <1>3
  <2> QED
    BY <1>2, <2>1, <2>2, RotationFacts
<1>4. S = {} <=> Cardinality(S) = 0
  BY <1>2, FS_EmptySet
<1> QED
  BY <1>1, <1>2, <1>3, <1>4, RotationFacts

Flagged(m) == {r \in Rounds : m \in defaulted[r]}

\* Before a circle is Active nobody is flagged and nobody has contributed.
LEMMA NoRecordsYet ==
  ASSUME IndInv, status \notin {"Active", "Completed"}, NEW r \in Rounds
  PROVE  contributed[r] = {} /\ defaulted[r] = {}
<1>1. CASE r = 0
  BY <1>1 DEF IndInv, RecordsInOrder
<1>2. CASE r # 0
  BY <1>2, RotationFacts DEF IndInv, RecordsInOrder
<1> QED
  BY <1>1, <1>2

-----------------------------------------------------------------------------
(* The ledger of penalties.                                                *)

\* Once per round and member: a penalised member was not flagged before.
LEMMA PenaliseLedger ==
  ASSUME IndInv, PenaltyLedger, RoundOpen, NEW S \in SUBSET Delinquent, Penalise(S),
         UNCHANGED <<joined, closed>>
  PROVE  PenaltyLedger'
<1> DEFINE r == round.round_index
<1>1. /\ TypeOK /\ r \in Rounds /\ joined = MemberSet
      /\ \A m \in S : m \in MemberSet /\ m \notin defaulted[r]
  BY DEF IndInv, TypeOK, RoundState, RotationProgress, RoundOpen, Delinquent
<1>2. /\ collateral' = [m \in MemberSet |-> collateral[m] - Fine(S)[m]]
      /\ defaulted' = [defaulted EXCEPT ![r] = @ \cup S]
      /\ defaults' = [m \in MemberSet |->
                        IF m \in S THEN defaults[m] + 1 ELSE defaults[m]]
  BY DEF Penalise, Fine
<1>3. defaulted'[r] = defaulted[r] \cup S /\ \A k \in Rounds : k # r => defaulted'[k] = defaulted[k]
  BY <1>1, <1>2 DEF TypeOK
<1> HIDE DEF r
<1> SUFFICES ASSUME NEW m \in MemberSet
             PROVE  /\ defaults'[m] = Cardinality({k \in Rounds : m \in defaulted'[k]})
                    /\ ~closed => collateral'[m] = Remaining[defaults'[m]] /\ collateral'[m] > 0
  BY <1>1 DEF PenaltyLedger
<1>4. /\ defaults[m] = Cardinality(Flagged(m)) /\ collateral[m] \in Nat
      /\ ~closed => collateral[m] = Remaining[defaults[m]] /\ collateral[m] > 0
  BY <1>1 DEF PenaltyLedger, Flagged, TypeOK
<1>5. CASE m \in S
  <2>1. /\ {k \in Rounds : m \in defaulted'[k]} = Flagged(m) \cup {r}
        /\ r \in Rounds \ Flagged(m)
    BY <1>1, <1>3, <1>5 DEF Flagged
  <2>2. Cardinality(Flagged(m) \cup {r}) = defaults[m] + 1 /\ defaults[m] + 1 \in 1..N
    BY <1>4, <2>1, RoundsCounted, Flagged(m) \in SUBSET Rounds DEF Flagged
  <2>3. defaults'[m] = defaults[m] + 1
    BY <1>2, <1>5
  <2>4. collateral'[m] = collateral[m] - PenaltyOf(collateral[m])
    BY <1>2, <1>5 DEF Fine
  <2>5. Remaining[defaults[m] + 1] = Remaining[defaults[m]] - PenaltyOf(Remaining[defaults[m]])
    <3>1. (defaults[m] + 1) - 1 = defaults[m]
      BY <1>1 DEF TypeOK
    <3> QED
      BY <2>2, <3>1, RemainingIs DEF IsLeft
  <2>6. defaults[m] + 1 \in 0..N
    BY <2>2
  <2> QED
    BY <1>4, <2>1, <2>2, <2>3, <2>4, <2>5, <2>6, RemainingPositive
<1>6. CASE m \notin S
  <2>1. {k \in Rounds : m \in defaulted'[k]} = Flagged(m)
    BY <1>3, <1>6 DEF Flagged
  <2>2. defaults'[m] = defaults[m]
    BY <1>2, <1>6
  <2>3. collateral'[m] = collateral[m]
    BY <1>2, <1>4, <1>6 DEF Fine
  <2> QED
    BY <1>4, <2>1, <2>2, <2>3
<1> QED
  BY <1>5, <1>6

\* Joins, penalties and releases keep the ledger.
LEMMA LedgerStep == IndInv /\ PenaltyLedger /\ [Next]_vars => PenaltyLedger'
<1> SUFFICES ASSUME IndInv, PenaltyLedger, [Next]_vars PROVE PenaltyLedger'
  OBVIOUS
<1>1. CASE UNCHANGED <<joined, closed, collateral, defaulted, defaults>>
  BY <1>1 DEF PenaltyLedger
<1>2. ASSUME NEW a \in Address, join(a) PROVE PenaltyLedger'
  <2>1. /\ a \in MemberSet /\ a \notin joined /\ joined' = joined \cup {a}
        /\ collateral' = [collateral EXCEPT ![a] = CollateralDue]
        /\ UNCHANGED <<closed, defaulted, defaults>> /\ status = "Pending" /\ TypeOK
    BY <1>2 DEF join, JoinChecks, IndInv
  <2>2. Flagged(a) = {}
    BY <2>1, NoRecordsYet DEF Flagged
  <2>3. defaults[a] = 0
    BY <2>1, <2>2, RoundsCounted, Flagged(a) \in SUBSET Rounds DEF PenaltyLedger, Flagged
  <2>4. 0 \in 0..N /\ Remaining[0] = CollateralDue /\ Remaining[0] > 0
    BY RotationFacts, RemainingIs, RemainingPositive DEF IsLeft
  <2>5. collateral'[a] = CollateralDue
    BY <2>1 DEF TypeOK
  <2>6. \A m \in MemberSet : m # a => collateral'[m] = collateral[m]
    BY <2>1 DEF TypeOK
  <2> QED
    BY <2>1, <2>3, <2>4, <2>5, <2>6 DEF PenaltyLedger
<1>3. ASSUME NEW a \in Address, mark_default(a) PROVE PenaltyLedger'
  <2>1. {a} \in SUBSET Delinquent /\ Penalise({a}) /\ RoundOpen /\ UNCHANGED <<joined, closed>>
    BY <1>3 DEF mark_default, MarkDefaultChecks
  <2> QED
    BY <2>1, PenaliseLedger
<1>4. CASE settle_round
  <2>1. Penalise(Delinquent) /\ RoundOpen /\ UNCHANGED <<joined, closed>>
    BY <1>4 DEF settle_round
  <2> QED
    BY <2>1, PenaliseLedger
<1>5. ASSUME NEW a \in Address, close(a) PROVE PenaltyLedger'
  BY <1>5 DEF close, CloseChecks, PenaltyLedger
<1>6. ASSUME NEW a \in Address, contribute(a) \/ cancel(a) \/ pause(a) \/ resume(a)
      PROVE  PenaltyLedger'
  <2>1. UNCHANGED <<joined, closed, collateral, defaulted, defaults>>
    BY <1>6 DEF contribute, ContributeChecks, cancel, CancelChecks, pause, resume
  <2> QED
    BY <1>1, <2>1
<1>7. ASSUME NEW m \in MemberSet, freeze(m) \/ unfreeze(m) PROVE PenaltyLedger'
  <2>1. UNCHANGED <<joined, closed, collateral, defaulted, defaults>>
    BY <1>7 DEF freeze, unfreeze, contractVars
  <2> QED
    BY <1>1, <2>1
<1>8. CASE \/ initialize \/ payout \/ AdvanceLedger \/ add_authorized_caller
           \/ remove_authorized_caller \/ UNCHANGED vars
  <2>1. UNCHANGED <<joined, closed, collateral, defaulted, defaults>>
    BY <1>8 DEF initialize, payout, PayoutChecks, AdvanceLedger, add_authorized_caller,
                remove_authorized_caller, vars, contractVars
  <2> QED
    BY <1>1, <2>1
<1> QED
  BY <1>2, <1>3, <1>4, <1>5, <1>6, <1>7, <1>8 DEF Next

\* For every amount and any number of rounds: a deposit shrinks by one truncated
\* penalty for each round its owner is flagged in, and is never used up.
THEOREM LedgerOfPenalties == Spec => []PenaltyLedger
<1>1. Init => PenaltyLedger
  <2> SUFFICES ASSUME Init, NEW m \in MemberSet
               PROVE  defaults[m] = Cardinality({r \in Rounds : m \in defaulted[r]}) /\ m \notin joined
    BY DEF PenaltyLedger
  <2>1. defaults[m] = 0 /\ joined = {} /\ \A r \in Rounds : defaulted[r] = {}
    BY DEF Init
  <2>2. {r \in Rounds : m \in defaulted[r]} = {}
    BY <2>1
  <2> QED
    BY <2>1, <2>2, FS_EmptySet
<1> QED
  BY <1>1, LedgerStep, Invariance, PTL DEF Spec

-----------------------------------------------------------------------------
(* A circle without defaults.                                              *)

Clean == \A m \in MemberSet : defaults[m] = 0

Paid(m) == {r \in Rounds : m \in contributed[r]}
Deposit(m) == IF m \in joined /\ ~closed THEN CollateralDue ELSE 0

\* Only a finished circle is closed.
ClosedIsOver == closed => status \in {"Completed", "Cancelled"}

\* Without a default every settled round has everybody's contribution...
AllContributed == Clean => \A r \in Rounds : r < rounds_completed => contributed[r] = MemberSet

\* ... and a member has what it started with, less its deposit, less a
\* contribution for each round it paid, plus the pot if its turn is over.
AccountsAgree ==
  Clean => \A m \in MemberSet :
    wallet[m] + Deposit(m) + round_amount * Cardinality(Paid(m))
      = InitialFunds[m] + (round_amount * N) * awarded[m]

NoLossInv == ClosedIsOver /\ AllContributed /\ AccountsAgree

\* What is added on both sides does not count.
LEMMA Cancel ==
  ASSUME NEW x \in Nat, NEW y \in Nat, NEW z \in Nat, x + z = y + z
  PROVE  x = y
OBVIOUS

\* Nobody has paid anything at the start.
LEMMA NoLossInit == Init => NoLossInv
<1> SUFFICES ASSUME Init PROVE NoLossInv
  OBVIOUS
<1>1. ClosedIsOver
  BY DEF Init, ClosedIsOver
<1>2. AllContributed
  <2>1. rounds_completed = 0 /\ \A r \in Rounds : ~(r < 0)
    BY RotationFacts DEF Init
  <2> QED
    BY <2>1 DEF AllContributed
<1>3. AccountsAgree
  <2> SUFFICES ASSUME NEW m \in MemberSet
               PROVE  wallet[m] + Deposit(m) + round_amount * Cardinality(Paid(m))
                        = InitialFunds[m] + (round_amount * N) * awarded[m]
    BY DEF AccountsAgree
  <2>1. Paid(m) = {} /\ wallet[m] = InitialFunds[m] /\ Deposit(m) = 0 /\ awarded[m] = 0
    BY DEF Init, Paid, Deposit
  <2>2. Cardinality(Paid(m)) = 0 /\ InitialFunds[m] \in Nat
    BY <2>1, FS_EmptySet, EnvironmentAssumption
  <2>3. round_amount * 0 = 0 /\ (round_amount * N) * 0 = 0
    BY ConfigAssumption, RotationFacts
  <2> QED
    BY <2>1, <2>2, <2>3
<1> QED
  BY <1>1, <1>2, <1>3 DEF NoLossInv

\* A settlement by settle_round leaves a default: somebody had not contributed,
\* and everybody who had not was either flagged before or is flagged now.
LEMMA SettleRoundLeavesDefault ==
  ASSUME IndInv, PenaltyLedger, ClosedIsOver, settle_round
  PROVE  ~Clean'
<1> DEFINE r == round.round_index
<1> SUFFICES ASSUME Clean' PROVE FALSE
  OBVIOUS
<1>1. /\ TypeOK /\ r \in Rounds /\ joined = MemberSet /\ ~closed
      /\ Cardinality(contributed[r]) # N
  BY DEF IndInv, TypeOK, RoundState, RotationProgress, settle_round, RoundOpen, ClosedIsOver,
         TallyMatchesRecords
<1>2. defaults' = [m \in MemberSet |-> IF m \in Delinquent THEN defaults[m] + 1 ELSE defaults[m]]
  BY DEF settle_round, Penalise
<1>3. ASSUME NEW m \in MemberSet PROVE m \in contributed[r]
  <2>1. defaults[m] \in Nat /\ defaults'[m] = 0
    BY <1>1 DEF TypeOK, Clean
  <2>2. m \notin Delinquent /\ defaults[m] = 0
    BY <1>2, <2>1
  <2>3. collateral[m] > 0 /\ Cardinality(Flagged(m)) = 0
    BY <1>1, <2>2 DEF PenaltyLedger, Flagged
  <2>4. Flagged(m) = {}
    BY <2>3, RoundsCounted, Flagged(m) \in SUBSET Rounds DEF Flagged
  <2>5. m \notin defaulted[r]
    BY <1>1, <2>4 DEF Flagged
  <2> QED
    BY <2>2, <2>3, <2>5 DEF Delinquent
<1>4. contributed[r] = MemberSet
  BY <1>1, <1>3 DEF TypeOK
<1> QED
  BY <1>1, <1>4, MembersFinite

\* What changes no account.
LEMMA AccountsStay ==
  ASSUME NoLossInv, Clean' => Clean,
         UNCHANGED <<rounds_completed, closed, joined, contributed, wallet, awarded>>,
         closed => status' \in {"Completed", "Cancelled"}
  PROVE  NoLossInv'
<1>1. ClosedIsOver'
  BY DEF ClosedIsOver
<1>2. AllContributed'
  BY DEF NoLossInv, AllContributed
<1>3. AccountsAgree'
  BY DEF NoLossInv, AccountsAgree, Paid, Deposit
<1> QED
  BY <1>1, <1>2, <1>3 DEF NoLossInv

\* A deposit is still the member's.
LEMMA JoinAccounts ==
  ASSUME IndInv, NoLossInv, NEW a \in Address, join(a)
  PROVE  NoLossInv'
<1>1. /\ a \in MemberSet /\ a \notin joined /\ joined' = joined \cup {a} /\ status = "Pending"
      /\ wallet' = [wallet EXCEPT ![a] = @ - CollateralDue] /\ TypeOK
      /\ UNCHANGED <<closed, defaults, contributed, awarded, rounds_completed>>
  BY DEF join, JoinChecks, safe_transfer_in, CanPay, IndInv, repVars
<1>2. ~closed
  BY <1>1 DEF NoLossInv, ClosedIsOver
<1>3. ClosedIsOver' /\ AllContributed'
  BY <1>1, <1>2 DEF NoLossInv, ClosedIsOver, AllContributed, Clean
<1>4. CollateralDue \in Nat
  BY ConfigAssumption DEF CollateralDue, COLLATERAL_MULTIPLIER
<1>5. ASSUME NEW m \in MemberSet
      PROVE  wallet'[m] + Deposit(m)' = wallet[m] + Deposit(m)
  <2>1. CASE m = a
    <3>1. wallet'[m] = wallet[m] - CollateralDue /\ wallet[m] \in Nat
      BY <1>1, <2>1 DEF TypeOK
    <3>2. Deposit(m) = 0 /\ Deposit(m)' = CollateralDue
      BY <1>1, <1>2, <2>1 DEF Deposit
    <3> QED
      BY <1>4, <3>1, <3>2
  <2>2. CASE m # a
    BY <1>1, <2>2 DEF TypeOK, Deposit
  <2> QED
    BY <2>1, <2>2
<1>6. AccountsAgree'
  BY <1>1, <1>5 DEF NoLossInv, AccountsAgree, Clean, Paid
<1> QED
  BY <1>3, <1>6 DEF NoLossInv

\* A contribution is a round paid.
LEMMA ContributeAccounts ==
  ASSUME IndInv, NoLossInv, NEW a \in Address, contribute(a)
  PROVE  NoLossInv'
<1> DEFINE r == round.round_index
<1>1. /\ a \in MemberSet /\ a \notin contributed[r] /\ r \in Rounds /\ TypeOK
      /\ contributed' = [contributed EXCEPT ![r] = @ \cup {a}]
      /\ wallet' = [wallet EXCEPT ![a] = @ - round_amount]
      /\ UNCHANGED <<closed, status, joined, defaults, awarded, rounds_completed>>
      /\ rounds_completed = r
  BY DEF contribute, ContributeChecks, safe_transfer_in, CanPay, IndInv, RotationProgress,
         RoundOpen, TypeOK, RoundState, repVars
<1> HIDE DEF r
<1>2. ClosedIsOver'
  BY <1>1 DEF NoLossInv, ClosedIsOver
<1>3. AllContributed'
  <2>1. \A k \in Rounds : k < r => contributed'[k] = contributed[k]
    BY <1>1, RotationFacts DEF TypeOK
  <2> QED
    BY <1>1, <2>1 DEF NoLossInv, AllContributed, Clean
<1>4. ASSUME NEW m \in MemberSet
      PROVE  wallet'[m] + Deposit(m)' + round_amount * Cardinality(Paid(m)')
               = wallet[m] + Deposit(m) + round_amount * Cardinality(Paid(m))
  <2>1. CASE m = a
    <3>1. wallet'[m] = wallet[m] - round_amount /\ wallet[m] \in Nat /\ round_amount \in Nat
      BY <1>1, <2>1, ConfigAssumption DEF TypeOK
    <3>2. Deposit(m)' = Deposit(m) /\ Deposit(m) \in Nat
      BY <1>1, ConfigAssumption DEF Deposit, CollateralDue, COLLATERAL_MULTIPLIER
    <3>3. Paid(m)' = Paid(m) \cup {r} /\ r \in Rounds \ Paid(m)
      BY <1>1, <2>1 DEF Paid, TypeOK
    <3>4. /\ Cardinality(Paid(m)') = Cardinality(Paid(m)) + 1
          /\ Cardinality(Paid(m)) \in Nat
      BY <3>3, RoundsCounted, Paid(m) \in SUBSET Rounds DEF Paid
    <3>5. round_amount * (Cardinality(Paid(m)) + 1)
            = round_amount * Cardinality(Paid(m)) + round_amount
      BY <3>1, <3>4
    <3>6. round_amount * Cardinality(Paid(m)) \in Int
      BY <3>1, <3>4
    <3> QED
      BY <3>1, <3>2, <3>4, <3>5, <3>6
  <2>2. CASE m # a
    <3>1. Paid(m)' = Paid(m)
      BY <1>1, <2>2 DEF Paid, TypeOK
    <3>2. wallet'[m] = wallet[m] /\ Deposit(m)' = Deposit(m)
      BY <1>1, <2>2 DEF Deposit, TypeOK
    <3> QED
      BY <3>1, <3>2
  <2> QED
    BY <2>1, <2>2
<1>5. AccountsAgree'
  BY <1>1, <1>4 DEF NoLossInv, AccountsAgree, Clean
<1> QED
  BY <1>2, <1>3, <1>5 DEF NoLossInv

\* A payout is what everybody paid for the round.
LEMMA PayoutAccounts ==
  ASSUME IndInv, NoLossInv, payout
  PROVE  NoLossInv'
<1> DEFINE r == round.round_index
           m0 == round.recipient
<1>1. /\ m0 \in MemberSet /\ r \in Rounds /\ TypeOK /\ rounds_completed = r /\ status = "Active"
      /\ Cardinality(contributed[r]) = N
      /\ wallet' = [wallet EXCEPT ![m0] = @ + round_amount * N]
      /\ awarded' = [awarded EXCEPT ![m0] = @ + 1]
      /\ rounds_completed' = r + 1
      /\ UNCHANGED <<closed, joined, defaults, contributed>>
  BY DEF payout, PayoutChecks, safe_transfer_out, CanReceive, award_reputation,
         SettleAndAdvance, IndInv, RotationProgress, RoundOpen, TypeOK, RoundState
<1> HIDE DEF r, m0
<1>2. ClosedIsOver'
  BY <1>1 DEF NoLossInv, ClosedIsOver
<1>3. contributed[r] = MemberSet
  <2>1. contributed[r] \in SUBSET MemberSet
    BY <1>1 DEF TypeOK
  <2> QED
    BY <1>1, <2>1, MembersFinite, FS_Subset
<1>4. AllContributed'
  <2>1. \A k \in Rounds : k < r + 1 => k < r \/ k = r
    BY <1>1, RotationFacts
  <2> QED
    BY <1>1, <1>3, <2>1 DEF NoLossInv, AllContributed, Clean
<1>5. ASSUME NEW m \in MemberSet,
             wallet[m] + Deposit(m) + round_amount * Cardinality(Paid(m))
               = InitialFunds[m] + (round_amount * N) * awarded[m]
      PROVE  wallet'[m] + Deposit(m) + round_amount * Cardinality(Paid(m))
               = InitialFunds[m] + (round_amount * N) * awarded'[m]
  <2>1. CASE m = m0
    <3> DEFINE pot == round_amount * N
               paid == round_amount * Cardinality(Paid(m))
    <3>1. wallet'[m] = wallet[m] + pot /\ wallet[m] \in Nat /\ awarded'[m] = awarded[m] + 1
      BY <1>1, <2>1 DEF TypeOK
    <3>2. pot \in Nat /\ awarded[m] \in Nat /\ InitialFunds[m] \in Nat
      <4>1. pot \in Nat
        BY ConfigAssumption, RotationFacts
      <4>2. awarded[m] \in Nat /\ InitialFunds[m] \in Nat
        BY <1>1, EnvironmentAssumption DEF TypeOK
      <4> QED
        BY <4>1, <4>2
    <3>3. Deposit(m) \in Nat
      BY ConfigAssumption DEF Deposit, CollateralDue, COLLATERAL_MULTIPLIER
    <3>4. Cardinality(Paid(m)) \in Nat
      BY RoundsCounted, Paid(m) \in SUBSET Rounds DEF Paid
    <3>5. paid \in Int
      BY <3>4, ConfigAssumption
    <3> HIDE DEF pot, paid
    <3>6. pot * (awarded[m] + 1) = pot * awarded[m] + pot /\ pot * awarded[m] \in Int
      BY <3>2
    <3>7. wallet[m] + Deposit(m) + paid = InitialFunds[m] + pot * awarded[m]
      BY <1>5 DEF pot, paid
    <3>8. wallet'[m] + Deposit(m) + paid = InitialFunds[m] + pot * awarded'[m]
      <4> DEFINE before == pot * awarded[m]
      <4>1. before \in Int /\ pot * awarded'[m] = before + pot
        BY <3>1, <3>6
      <4>2. wallet[m] + Deposit(m) + paid = InitialFunds[m] + before
        BY <3>7
      <4> HIDE DEF before
      <4>3. (wallet[m] + pot) + Deposit(m) + paid = InitialFunds[m] + (before + pot)
        <5>1. /\ wallet[m] \in Int /\ pot \in Int /\ Deposit(m) \in Int /\ paid \in Int
              /\ InitialFunds[m] \in Int /\ before \in Int
          BY <3>1, <3>2, <3>3, <3>5, <4>1
        <5> DEFINE w == wallet[m]
                   d == Deposit(m)
                   f == InitialFunds[m]
        <5>2. w \in Int /\ d \in Int /\ f \in Int /\ w + d + paid = f + before
          BY <4>2, <5>1
        <5> HIDE DEF w, d, f
        <5>3. (w + pot) + d + paid = f + (before + pot)
          BY <5>1, <5>2
        <5> QED
          BY <5>3 DEF w, d, f
      <4> QED
        BY <3>1, <4>1, <4>3
    <3> QED
      BY <3>8 DEF pot, paid
  <2>2. CASE m # m0
    BY <1>1, <1>5, <2>2 DEF TypeOK
  <2> QED
    BY <2>1, <2>2
<1>6. AccountsAgree'
  BY <1>1, <1>5 DEF NoLossInv, AccountsAgree, Clean, Paid, Deposit
<1> QED
  BY <1>2, <1>4, <1>6 DEF NoLossInv

\* Without a default a deposit comes back whole.
LEMMA CloseAccounts ==
  ASSUME IndInv, PenaltyLedger, NoLossInv, NEW a \in Address, close(a)
  PROVE  NoLossInv'
<1>1. /\ ~closed /\ closed' = TRUE /\ status \in {"Completed", "Cancelled"} /\ TypeOK
      /\ wallet' = [m \in MemberSet |-> wallet[m] + collateral[m]]
      /\ UNCHANGED <<status, joined, defaults, contributed, awarded, rounds_completed>>
  BY DEF close, CloseChecks, ReleaseCollateral, CanRelease, IndInv, repVars
<1>2. ClosedIsOver' /\ AllContributed'
  BY <1>1 DEF NoLossInv, ClosedIsOver, AllContributed, Clean
<1>3. ASSUME Clean, NEW m \in MemberSet
      PROVE  wallet'[m] + Deposit(m)' = wallet[m] + Deposit(m)
  <2>1. collateral[m] = Deposit(m)
    <3>1. CASE m \in joined
      <4>1. collateral[m] = Remaining[0]
        BY <1>1, <1>3, <3>1 DEF PenaltyLedger, Clean
      <4>2. Remaining[0] = CollateralDue
        BY RemainingIs DEF IsLeft
      <4> QED
        BY <1>1, <3>1, <4>1, <4>2 DEF Deposit
    <3>2. CASE m \notin joined
      BY <1>1, <3>2 DEF IndInv, RecordsInOrder, Deposit
    <3> QED
      BY <3>1, <3>2
  <2>2. Deposit(m)' = 0 /\ wallet'[m] = wallet[m] + collateral[m]
    BY <1>1 DEF Deposit
  <2>3. wallet[m] \in Nat /\ collateral[m] \in Nat
    BY <1>1 DEF TypeOK
  <2> QED
    BY <2>1, <2>2, <2>3
<1>4. AccountsAgree'
  BY <1>1, <1>3 DEF NoLossInv, AccountsAgree, Clean, Paid
<1> QED
  BY <1>2, <1>4 DEF NoLossInv

\* Every step keeps the accounts.
LEMMA NoLossStep == IndInv /\ PenaltyLedger /\ NoLossInv /\ [Next]_vars => NoLossInv'
<1> SUFFICES ASSUME IndInv, PenaltyLedger, NoLossInv, [Next]_vars PROVE NoLossInv'
  OBVIOUS
<1>1. ASSUME NEW a \in Address, join(a) PROVE NoLossInv'
  BY <1>1, JoinAccounts
<1>2. ASSUME NEW a \in Address, contribute(a) PROVE NoLossInv'
  BY <1>2, ContributeAccounts
<1>3. CASE payout
  BY <1>3, PayoutAccounts
<1>4. ASSUME NEW a \in Address, close(a) PROVE NoLossInv'
  BY <1>4, CloseAccounts
<1>5. ASSUME ~Clean', ClosedIsOver' PROVE NoLossInv'
  BY <1>5 DEF NoLossInv, AllContributed, AccountsAgree
<1>6. CASE settle_round
  <2>1. ~closed /\ closed' = closed
    BY <1>6 DEF NoLossInv, ClosedIsOver, settle_round, RoundOpen
  <2> QED
    BY <1>5, <1>6, <2>1, SettleRoundLeavesDefault DEF NoLossInv, ClosedIsOver
<1>7. ASSUME NEW a \in Address, mark_default(a) PROVE NoLossInv'
  <2>1. /\ a \in MemberSet /\ defaults' = [m \in MemberSet |->
                 IF m \in {a} THEN defaults[m] + 1 ELSE defaults[m]]
        /\ UNCHANGED <<closed, status>>
    BY <1>7 DEF mark_default, MarkDefaultChecks, Delinquent, Penalise
  <2>2. defaults'[a] = defaults[a] + 1 /\ defaults[a] \in Nat
    BY <2>1 DEF IndInv, TypeOK
  <2>3. ~Clean'
    BY <2>1, <2>2 DEF Clean
  <2> QED
    BY <1>5, <2>1, <2>3 DEF NoLossInv, ClosedIsOver
<1>8. CASE initialize
  <2>1. /\ UNCHANGED <<closed, joined, contributed, wallet, awarded, defaults>>
        /\ rounds_completed' = 0 /\ status = "Uninitialized"
    BY <1>8 DEF initialize, tokenVars, repVars
  <2>2. ~closed /\ rounds_completed = 0
    BY <2>1 DEF NoLossInv, ClosedIsOver, IndInv, RotationProgress
  <2> QED
    BY <2>1, <2>2, AccountsStay DEF Clean
<1>9. ASSUME NEW a \in Address, cancel(a) PROVE NoLossInv'
  <2>1. /\ UNCHANGED <<rounds_completed, closed, joined, contributed, wallet, awarded, defaults>>
        /\ status' = "Cancelled"
    BY <1>9 DEF cancel, CancelChecks, tokenVars, repVars
  <2> QED
    BY <2>1, AccountsStay DEF Clean
<1>10. CASE /\ UNCHANGED <<rounds_completed, closed, joined, contributed, wallet, awarded, defaults>>
            /\ status' = status
  BY <1>10, AccountsStay DEF Clean, NoLossInv, ClosedIsOver
<1>11. ASSUME NEW a \in Address, pause(a) \/ resume(a) PROVE NoLossInv'
  <2>1. /\ UNCHANGED <<rounds_completed, closed, joined, contributed, wallet, awarded, defaults>>
        /\ status' = status
    BY <1>11 DEF pause, resume, tokenVars, repVars
  <2> QED
    BY <1>10, <2>1
<1>12. ASSUME NEW m \in MemberSet, freeze(m) \/ unfreeze(m) PROVE NoLossInv'
  <2>1. /\ UNCHANGED <<rounds_completed, closed, joined, contributed, wallet, awarded, defaults>>
        /\ status' = status
    BY <1>12 DEF freeze, unfreeze, contractVars, repVars
  <2> QED
    BY <1>10, <2>1
<1>13. CASE \/ AdvanceLedger \/ add_authorized_caller \/ remove_authorized_caller
            \/ UNCHANGED vars
  <2>1. /\ UNCHANGED <<rounds_completed, closed, joined, contributed, wallet, awarded, defaults>>
        /\ status' = status
    BY <1>13 DEF AdvanceLedger, add_authorized_caller, remove_authorized_caller, vars,
                 contractVars, tokenVars, repVars
  <2> QED
    BY <1>10, <2>1
<1> QED
  BY <1>1, <1>2, <1>3, <1>4, <1>6, <1>7, <1>8, <1>9, <1>11, <1>12, <1>13 DEF Next

\* A closed circle without defaults: each member paid for N rounds, or for none,
\* and received one pot, or none.
LEMMA NobodyLost == IndInv /\ NoLossInv => NoLossWithoutDefault
<1> SUFFICES ASSUME IndInv, NoLossInv, closed, Clean PROVE wallet = InitialFunds
  BY DEF NoLossWithoutDefault, Clean
<1>1. TypeOK /\ status \in {"Completed", "Cancelled"}
  BY DEF IndInv, NoLossInv, ClosedIsOver
<1>2. ASSUME NEW m \in MemberSet PROVE wallet[m] = InitialFunds[m]
  <2> DEFINE pot == round_amount * N
  <2>1. wallet[m] + round_amount * Cardinality(Paid(m)) = InitialFunds[m] + pot * awarded[m]
    <3>1. Deposit(m) = 0 /\ wallet[m] \in Nat
      BY <1>1 DEF Deposit, TypeOK
    <3>2. wallet[m] + Deposit(m) + round_amount * Cardinality(Paid(m))
            = InitialFunds[m] + pot * awarded[m]
      BY DEF NoLossInv, AccountsAgree
    <3>3. wallet[m] + Deposit(m) = wallet[m]
      BY <3>1
    <3> QED
      BY <3>2, <3>3
  <2>2. /\ wallet[m] \in Nat /\ InitialFunds[m] \in Nat /\ pot \in Nat /\ round_amount \in Nat
        /\ N \in Nat
    BY <1>1, ConfigAssumption, EnvironmentAssumption, RotationFacts DEF TypeOK
  <2>3. PICK i \in 1..N : m = members[i]
    BY RotationFacts
  <2>4. CASE status = "Completed"
    <3>1. rounds_completed = N
      BY <2>4 DEF IndInv, RotationProgress
    <3>2. awarded[m] = 1
      BY <2>3, <3>1, RotationFacts DEF IndInv, RotationProgress
    <3>3. Paid(m) = Rounds
      BY <3>1, RotationFacts DEF NoLossInv, AllContributed, Paid
    <3>4. Cardinality(Paid(m)) = N
      BY <3>3, RoundsCounted
    <3> HIDE DEF pot
    <3>5. pot * 1 = pot
      BY <2>2
    <3>6. wallet[m] + pot = InitialFunds[m] + pot
      BY <2>1, <3>2, <3>4, <3>5 DEF pot
    <3> QED
      BY <2>2, <3>6, Cancel
  <2>5. CASE status = "Cancelled"
    <3>1. rounds_completed = 0
      BY <2>5 DEF IndInv, RotationProgress
    <3>2. awarded[m] = 0
      BY <2>3, <3>1 DEF IndInv, RotationProgress
    <3>3. Paid(m) = {}
      BY <2>5, NoRecordsYet DEF Paid
    <3>4. Cardinality(Paid(m)) = 0
      BY <3>3, FS_EmptySet
    <3> HIDE DEF pot
    <3>5. pot * 0 = 0 /\ round_amount * 0 = 0
      BY <2>2
    <3>6. wallet[m] + 0 = InitialFunds[m] + 0
      BY <2>1, <3>2, <3>4, <3>5
    <3> QED
      BY <2>2, <3>6
  <2> QED
    BY <1>1, <2>4, <2>5
<1>3. wallet = [m \in MemberSet |-> wallet[m]] /\ InitialFunds = [m \in MemberSet |-> InitialFunds[m]]
  BY <1>1, EnvironmentAssumption DEF TypeOK
<1> QED
  BY <1>2, <1>3

\* Whatever the amounts, the rotation and the order of invocations: a circle that
\* closes without a default has given every member back what it took.
THEOREM NobodyLosesWithoutDefault == Spec => []NoLossWithoutDefault
<1>1. Init => NoLossInv
  BY NoLossInit
<1>2. IndInv /\ PenaltyLedger /\ NoLossInv /\ [Next]_vars => NoLossInv'
  BY NoLossStep
<1>3. IndInv /\ NoLossInv => NoLossWithoutDefault
  BY NobodyLost
<1> QED
  BY <1>1, <1>2, <1>3, Invariance, LedgerOfPenalties, PTL DEF Spec

-----------------------------------------------------------------------------
(* The records of settled rounds.                                          *)

\* What is recorded stays recorded.
LEMMA RecordsGrow ==
  ASSUME IndInv, [Next]_vars
  PROVE  /\ \A r \in Rounds : /\ contributed[r] \subseteq contributed'[r]
                              /\ defaulted[r] \subseteq defaulted'[r]
         /\ rounds_completed \in Nat /\ rounds_completed' \in Nat
         /\ rounds_completed <= rounds_completed'
<1>1. TypeOK /\ TypeOK' /\ RotationProgress
  BY TypeStep DEF IndInv
<1>2. /\ rounds_completed \in Nat /\ rounds_completed' \in Nat
      /\ contributed \in [Rounds -> SUBSET MemberSet]
      /\ defaulted \in [Rounds -> SUBSET MemberSet]
  BY <1>1 DEF TypeOK
<1>3. ASSUME NEW x, NEW m
      PROVE  /\ \A r \in Rounds : contributed[r] \subseteq
                                    [contributed EXCEPT ![x] = @ \cup {m}][r]
             /\ \A r \in Rounds : defaulted[r] \subseteq
                                    [defaulted EXCEPT ![x] = @ \cup m][r]
  BY <1>2
<1>4. CASE initialize
  BY <1>1, <1>2, <1>4 DEF initialize, RotationProgress
<1>5. ASSUME NEW a \in Address,
             join(a) \/ cancel(a) \/ close(a) \/ pause(a) \/ resume(a)
      PROVE  UNCHANGED <<contributed, defaulted, rounds_completed>>
  BY <1>5 DEF join, JoinChecks, cancel, CancelChecks, close, CloseChecks, pause, resume
<1>6. ASSUME NEW a \in Address, contribute(a)
      PROVE  /\ UNCHANGED <<defaulted, rounds_completed>>
             /\ contributed' = [contributed EXCEPT ![round.round_index] = @ \cup {a}]
  BY <1>6 DEF contribute, ContributeChecks
<1>7. ASSUME NEW a \in Address, mark_default(a)
      PROVE  /\ UNCHANGED <<contributed, rounds_completed>>
             /\ defaulted' = [defaulted EXCEPT ![round.round_index] = @ \cup {a}]
  BY <1>7 DEF mark_default, MarkDefaultChecks, Penalise
<1>8. CASE payout
  BY <1>2, <1>8 DEF payout, PayoutChecks, SettleAndAdvance
<1>9. CASE settle_round
  <2>1. /\ UNCHANGED contributed /\ rounds_completed' = rounds_completed + 1
        /\ defaulted' = [defaulted EXCEPT ![round.round_index] = @ \cup Delinquent]
    BY <1>9 DEF settle_round, SettleAndAdvance, Penalise
  <2> QED
    BY <1>2, <1>3, <2>1
<1>10. ASSUME \/ AdvanceLedger
              \/ \E m \in MemberSet : freeze(m) \/ unfreeze(m)
              \/ add_authorized_caller
              \/ remove_authorized_caller
              \/ UNCHANGED vars
       PROVE  UNCHANGED <<contributed, defaulted, rounds_completed>>
  BY <1>10 DEF AdvanceLedger, freeze, unfreeze, add_authorized_caller,
               remove_authorized_caller, vars, contractVars
<1> QED
  BY <1>2, <1>3, <1>4, <1>5, <1>6, <1>7, <1>8, <1>9, <1>10 DEF Next

\* Nobody is overlooked in a settled round: payout wants everybody's
\* contribution, and settle_round flags whoever neither paid nor is flagged
\* already, which no member escapes whose collateral is used up.
EveryoneAccounted ==
  \A r \in Rounds : r < rounds_completed => contributed[r] \cup defaulted[r] = MemberSet

\* No step leaves a settled round with a member unaccounted for.
LEMMA AccountedStep ==
  ASSUME IndInv, PenaltyLedger, ClosedIsOver, EveryoneAccounted, [Next]_vars
  PROVE  EveryoneAccounted'
<1> DEFINE k == round.round_index
<1>1. /\ TypeOK /\ TypeOK' /\ RotationProgress /\ TallyMatchesRecords
      /\ k \in Rounds /\ rounds_completed \in Nat
  BY TypeStep DEF IndInv, TypeOK, RoundState
<1>2. \A r \in Rounds : /\ contributed[r] \subseteq contributed'[r]
                        /\ defaulted[r] \subseteq defaulted'[r]
  BY RecordsGrow
<1>3. \A r \in Rounds : contributed'[r] \cup defaulted'[r] \subseteq MemberSet
  BY <1>1 DEF TypeOK
<1>4. CASE rounds_completed' = rounds_completed
  BY <1>2, <1>3, <1>4 DEF EveryoneAccounted
<1>5. ASSUME payout \/ settle_round
      PROVE  rounds_completed' = rounds_completed + 1 /\ rounds_completed = k
             /\ status = "Active" /\ joined = MemberSet /\ ~closed
  BY <1>1, <1>5 DEF payout, PayoutChecks, settle_round, SettleAndAdvance, RoundOpen,
                    RotationProgress, ClosedIsOver, TypeOK
<1>6. CASE payout
  <2>1. contributed[k] = MemberSet
    <3>1. contributed[k] \in SUBSET MemberSet /\ Cardinality(contributed[k]) = N
      BY <1>1, <1>6 DEF TypeOK, payout, PayoutChecks
    <3> QED
      BY <3>1, MembersFinite, FS_Subset
  <2>2. \A r \in Rounds : r < rounds_completed' => r < rounds_completed \/ r = k
    BY <1>1, <1>5, <1>6, RotationFacts
  <2> HIDE DEF k
  <2> QED
    BY <1>2, <1>3, <2>1, <2>2 DEF EveryoneAccounted
<1>7. CASE settle_round
  <2>1. defaulted' = [defaulted EXCEPT ![k] = @ \cup Delinquent]
    BY <1>7 DEF settle_round, Penalise
  <2>2. \A m \in MemberSet : m \in contributed[k] \/ m \in defaulted[k] \/ m \in Delinquent
    BY <1>5, <1>7 DEF PenaltyLedger, Delinquent
  <2>3. defaulted'[k] = defaulted[k] \cup Delinquent
    BY <1>1, <2>1 DEF TypeOK
  <2>4. \A r \in Rounds : r < rounds_completed' => r < rounds_completed \/ r = k
    BY <1>1, <1>5, <1>7, RotationFacts
  <2> HIDE DEF k
  <2> QED
    BY <1>1, <1>2, <1>3, <2>2, <2>3, <2>4 DEF EveryoneAccounted
<1>8. CASE initialize
  <2>1. rounds_completed' = 0
    BY <1>1, <1>8 DEF initialize, RotationProgress
  <2> QED
    BY <2>1, RotationFacts DEF EveryoneAccounted
<1>9. ASSUME \/ \E a \in Address : \/ join(a) \/ cancel(a) \/ close(a) \/ pause(a)
                                   \/ resume(a) \/ contribute(a) \/ mark_default(a)
             \/ AdvanceLedger \/ add_authorized_caller \/ remove_authorized_caller
             \/ \E m \in MemberSet : freeze(m) \/ unfreeze(m)
             \/ UNCHANGED vars
      PROVE  rounds_completed' = rounds_completed
  BY <1>9 DEF join, JoinChecks, cancel, CancelChecks, close, CloseChecks, pause, resume,
              contribute, ContributeChecks, mark_default, MarkDefaultChecks,
              AdvanceLedger, add_authorized_caller, remove_authorized_caller, freeze,
              unfreeze, vars, contractVars
<1> QED
  BY <1>4, <1>6, <1>7, <1>8, <1>9 DEF Next

\* In every settled round of every circle each member has paid or was penalised.
THEOREM NobodyIsOverlooked == Spec => [](ClosedIsOver /\ EveryoneAccounted)
<1>1. Init => NoLossInv /\ EveryoneAccounted
  <2>1. Init => EveryoneAccounted
    BY RotationFacts DEF Init, EveryoneAccounted
  <2> QED
    BY <2>1, NoLossInit
<1>2. IndInv /\ PenaltyLedger /\ NoLossInv /\ EveryoneAccounted /\ [Next]_vars
        => NoLossInv' /\ EveryoneAccounted'
  BY NoLossStep, AccountedStep DEF NoLossInv
<1>3. NoLossInv => ClosedIsOver
  BY DEF NoLossInv
<1> QED
  BY <1>1, <1>2, <1>3, Invariance, LedgerOfPenalties, PTL DEF Spec

-----------------------------------------------------------------------------
(* What the contract takes.                                               *)

\* What the circle's invariants leave of what an entry point checks, while the
\* token rejects nobody's account.
LEMMA AcceptanceIs ==
  ASSUME IndInv, PenaltyLedger, ClosedIsOver, frozen = {}, NEW m
  PROVE  /\ Accepts("join", m) <=>
              /\ m \in Callers /\ ~paused /\ status = "Pending" /\ m \in MemberSet
              /\ m \notin joined /\ wallet[m] >= CollateralDue
         /\ Accepts("cancel", m) <=>
              m \in Callers /\ ~paused /\ status = "Pending" /\ m \in MemberSet
         /\ Accepts("contribute", m) <=>
              /\ m \in Callers /\ ~paused /\ status = "Active" /\ ~deadline_passed
              /\ m \in MemberSet /\ m \notin contributed[round.round_index]
              /\ wallet[m] >= round_amount
         /\ Accepts("payout", m) <=>
              /\ ~paused /\ status = "Active" /\ registration = "authorized"
              /\ round.contributions_received = N
         /\ Accepts("default", m) <=>
              /\ ~paused /\ status = "Active" /\ deadline_passed /\ m \in MemberSet
              /\ m \notin contributed[round.round_index]
              /\ m \notin defaulted[round.round_index]
         /\ Accepts("close", m) <=>
              /\ m \in Callers /\ ~paused /\ ~closed
              /\ status \in {"Completed", "Cancelled"}
              /\ m = Admin \/ m \in MemberSet
<1>1. /\ CollateralDue > 0 /\ round_amount > 0 /\ round_amount * N > 0
      /\ round_amount * N \in Nat /\ N \in Nat /\ CollateralDue \in Nat
  <2>1. /\ round_amount \in Nat /\ round_amount > 0 /\ N \in Nat /\ N > 0
        /\ CollateralDue = round_amount
    BY ConfigAssumption, RotationFacts DEF N, CollateralDue, COLLATERAL_MULTIPLIER
  <2>2. round_amount * N > 0 /\ round_amount * N \in Nat
    BY <2>1
  <2> QED
    BY <2>1, <2>2
<1>2. status = "Active" => /\ ~round.paid_out /\ joined = MemberSet /\ ~closed
                           /\ \A a \in MemberSet : collateral[a] > 0
  BY DEF IndInv, RotationProgress, PenaltyLedger, ClosedIsOver
<1>3. /\ round.round_index < N /\ round.recipient = members[round.round_index + 1]
      /\ round.contributions_received = Cardinality(contributed[round.round_index])
  <2>1. round.round_index \in 0..(N - 1)
    BY DEF IndInv, TypeOK, RoundState, Rounds
  <2> QED
    BY <1>1, <2>1 DEF IndInv, RotationProgress, TallyMatchesRecords
<1>4. /\ Total(collateral) \in Nat /\ forfeited \in Nat /\ vault \in Nat
      /\ status = "Active" => vault = Total(collateral)
           + round_amount * round.contributions_received + forfeited
      /\ vault >= Total(collateral)
  <2>1. /\ collateral \in [MemberSet -> Nat] /\ forfeited \in Nat /\ vault \in Nat
        /\ round.contributions_received \in Nat
    BY DEF IndInv, TypeOK, RoundState
  <2>2. Total(collateral) \in Nat
    BY <2>1, TotalType
  <2>3. vault = Total(collateral) + round_amount * Escrowed + forfeited
    BY DEF IndInv, Solvency
  <2>4. Escrowed \in Nat /\ round_amount \in Nat
    BY <2>1, ConfigAssumption DEF Escrowed
  <2>5. round_amount * Escrowed \in Nat
    BY <2>4
  <2>6. status = "Active" => Escrowed = round.contributions_received
    BY <1>2 DEF Escrowed
  <2> QED
    BY <2>1, <2>2, <2>3, <2>5, <2>6
<1>5. Accepts("join", m) <=>
        /\ m \in Callers /\ ~paused /\ status = "Pending" /\ m \in MemberSet
        /\ m \notin joined /\ wallet[m] >= CollateralDue
  BY <1>1 DEF Accepts, JoinChecks, CanPay, require_auth, assert_not_paused
<1>6. Accepts("cancel", m) <=>
        m \in Callers /\ ~paused /\ status = "Pending" /\ m \in MemberSet
  BY DEF Accepts, CancelChecks, require_auth, assert_not_paused
<1>7. Accepts("contribute", m) <=>
        /\ m \in Callers /\ ~paused /\ status = "Active" /\ ~deadline_passed
        /\ m \in MemberSet /\ m \notin contributed[round.round_index]
        /\ wallet[m] >= round_amount
  BY <1>1, <1>2 DEF Accepts, ContributeChecks, CanPay, require_auth, assert_not_paused, RoundOpen
<1>8. Accepts("payout", m) <=>
        /\ ~paused /\ status = "Active" /\ registration = "authorized"
        /\ round.contributions_received = N
  <2>1. status = "Active" /\ round.contributions_received = N => vault >= round_amount * N
    BY <1>1, <1>4
  <2> QED
    BY <1>1, <1>2, <1>3, <2>1 DEF Accepts, PayoutChecks, CanReceive, assert_not_paused, RoundOpen
<1>9. Accepts("default", m) <=>
        /\ ~paused /\ status = "Active" /\ deadline_passed /\ m \in MemberSet
        /\ m \notin contributed[round.round_index]
        /\ m \notin defaulted[round.round_index]
  BY <1>2 DEF Accepts, MarkDefaultChecks, assert_not_paused, RoundOpen, Delinquent
<1>10. Accepts("close", m) <=>
         /\ m \in Callers /\ ~paused /\ ~closed
         /\ status \in {"Completed", "Cancelled"}
         /\ m = Admin \/ m \in MemberSet
  <2>1. status = "Completed" => rounds_completed = N
    BY DEF IndInv, RotationProgress
  <2>2. CanRelease
    BY <1>4 DEF CanRelease
  <2> QED
    BY <2>1, <2>2 DEF Accepts, CloseChecks, require_auth, assert_not_paused
<1> QED
  BY <1>5, <1>6, <1>7, <1>8, <1>9, <1>10

=============================================================================
