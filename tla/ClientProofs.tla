---------------------------- MODULE ClientProofs ----------------------------
(***************************************************************************)
(* Theorems about what runs at the client.  The SDK's client of one member  *)
(* beside the contract: what it has read, in two calls at two moments, was  *)
(* true and can only have been overtaken in one direction.  Its write path: *)
(* for any number of writes and calls, any time bound, sequence number and  *)
(* error budget, what a caller is told of a write is so.  The page in which *)
(* they run: for any number of tabs, accounts, attempts and switches of the *)
(* wallet, what is sent was reviewed and what is said of it is true.        *)
(***************************************************************************)
EXTENDS CircleClient, Submission, Session, CircleProofs, WellFoundedInduction

-----------------------------------------------------------------------------
(* The contract moves on as module Circle says.                            *)

\* The members are among the addresses.
LEMMA MembersAreAddresses == MemberSet \subseteq Address
<1>1. \A i \in 1..Len(members) : members[i] \in Address
  BY ConfigAssumption
<1> QED
  BY <1>1 DEF MemberSet, N

\* Whoever invokes an entry point, it is a step of the circle.
LEMMA CircleStep == [ClientNext]_allVars => [Next]_vars
<1> SUFFICES ASSUME [ClientNext]_allVars PROVE [Next]_vars
  OBVIOUS
<1>1. CASE Others
  BY <1>1, EnvironmentAssumption DEF Others, Next
<1>2. ASSUME NEW action, NEW result, SubmitApplied(action, result)
      PROVE  Next
  <2>1. Invoke(action)
    BY <1>2 DEF SubmitApplied
  <2> QED
    BY <2>1, MembersAreAddresses, ClientAssumption DEF Invoke, Next
<1>3. CASE \/ BeginRead \/ StoreRead \/ FailRead \/ Expire
           \/ \E r \in Readers : ReadStatus(r) \/ ReadRound(r)
           \/ BeginPreflight \/ EndPreflight \/ FailPreflight
           \/ SubmitFailed \/ ReturnSuccess
           \/ UNCHANGED allVars
  <2>1. UNCHANGED vars
    BY <1>3 DEF BeginRead, StoreRead, FailRead, Expire, ReadStatus, ReadRound,
       BeginPreflight, EndPreflight, FailPreflight, SubmitFailed,
       ReturnSuccess, allVars
  <2> QED
    BY <2>1
<1> QED
  BY <1>1, <1>2, <1>3 DEF ClientNext

\* A client changes nothing of what holds of the circle.
LEMMA ClientKeepsCircle == ClientSpec => Spec
<1>1. ClientInit => Init
  BY DEF ClientInit
<1> QED
  BY <1>1, CircleStep, PTL DEF ClientSpec, Spec

\* A circle in status s may later be in status t.
Follows(s, t) ==
  \/ s = t
  \/ s = "Uninitialized"
  \/ s = "Pending" /\ t \in {"Active", "Completed", "Cancelled"}
  \/ s = "Active" /\ t = "Completed"

\* Later is a partial order.
LEMMA FollowsOrder ==
  ASSUME NEW s \in CircleStatus, NEW t \in CircleStatus, NEW u \in CircleStatus,
         Follows(s, t)
  PROVE  /\ Follows(t, u) => Follows(s, u)
         /\ Follows(t, s) => s = t
BY DEF Follows, CircleStatus

\* The status moves in that order.
LEMMA StatusFollows == TypeOK /\ [Next]_vars => Follows(status, status')
BY StatusMoves DEF LegalMove, Follows

\* The round never goes back, and once the circle is active the deadline of a
\* round stays as it is.
LEMMA RoundMoves ==
  ASSUME IndInv, [Next]_vars
  PROVE  /\ round'.round_index >= round.round_index
         /\ status = "Active" /\ round'.round_index = round.round_index
              => round'.deadline_ledger = round.deadline_ledger
<1>1. round \in RoundState /\ round.round_index \in Nat
  BY RotationFacts DEF IndInv, TypeOK, RoundState
<1>2. CASE UNCHANGED round
  BY <1>1, <1>2
<1>3. CASE initialize
  <2>1. round'.round_index = 0
    BY <1>3 DEF initialize, OpenRound
  <2>2. round.round_index = 0 /\ status # "Active"
    BY <1>3 DEF initialize, IndInv, RecordsInOrder
  <2> QED
    BY <2>1, <2>2
<1>4. ASSUME NEW a \in Address, join(a)
      PROVE  round'.round_index = round.round_index /\ status # "Active"
  BY <1>1, <1>4 DEF join, JoinChecks, RoundState
<1>5. ASSUME NEW a \in Address, contribute(a)
      PROVE  /\ round'.round_index = round.round_index
             /\ round'.deadline_ledger = round.deadline_ledger
  BY <1>1, <1>5 DEF contribute, ContributeChecks, RoundState
<1>6. CASE payout \/ settle_round
  <2>1. SettleAndAdvance
    BY <1>6 DEF payout, PayoutChecks, settle_round
  <2>2. CASE round.round_index + 1 >= N
    BY <1>1, <2>1, <2>2 DEF SettleAndAdvance, RoundState
  <2>3. CASE ~(round.round_index + 1 >= N)
    <3>1. round'.round_index = round.round_index + 1
      BY <2>1, <2>3 DEF SettleAndAdvance, OpenRound
    <3> QED
      BY <1>1, <3>1
  <2> QED
    BY <2>2, <2>3
<1>7. CASE \/ AdvanceLedger
           \/ \E a \in Address : \/ mark_default(a) \/ cancel(a) \/ close(a)
                                 \/ pause(a) \/ resume(a)
           \/ \E m \in MemberSet : freeze(m) \/ unfreeze(m)
           \/ add_authorized_caller \/ remove_authorized_caller
           \/ UNCHANGED vars
  <2>1. UNCHANGED round
    BY <1>7 DEF AdvanceLedger, mark_default, MarkDefaultChecks, cancel, CancelChecks,
                close, CloseChecks, pause, resume, freeze, unfreeze,
                add_authorized_caller, remove_authorized_caller, vars, contractVars
  <2> QED
    BY <1>2, <2>1
<1> QED
  BY <1>1, <1>3, <1>4, <1>5, <1>6, <1>7 DEF Next

-----------------------------------------------------------------------------
(* What a read has seen.                                                   *)

\* What get_status can answer.
Readable == {"Pending", "Active", "Completed", "Cancelled"}

\* The status and, if it is there, the round of x were true at some moments, the
\* status first, and the contract, which is now in status s and round r, has
\* moved on from them at most.
WasTrue(x, s, r) ==
  /\ x.status \in Readable /\ Follows(x.status, s)
  /\ x.currentRound # NoRound =>
       /\ x.currentRound.round_index \in Nat
       /\ x.currentRound.round_index <= r.round_index
       /\ x.status = "Active" /\ x.currentRound.round_index = r.round_index
            => x.currentRound.deadline_ledger = r.deadline_ledger

\* It stays so whatever the contract does.
LEMMA StaysTrue ==
  ASSUME IndInv, IndInv', [Next]_vars, NEW x, WasTrue(x, status, round)
  PROVE  WasTrue(x, status', round')
<1>1. /\ status \in CircleStatus /\ status' \in CircleStatus
      /\ x.status \in CircleStatus
  BY DEF IndInv, TypeOK, WasTrue, Readable, CircleStatus
<1>2. Follows(x.status, status')
  <2>1. Follows(status, status')
    BY StatusFollows DEF IndInv
  <2> QED
    BY <1>1, <2>1, FollowsOrder DEF WasTrue
<1>3. /\ round.round_index \in Nat /\ round'.round_index \in Nat
      /\ round.round_index <= round'.round_index
  BY RotationFacts, RoundMoves DEF IndInv, TypeOK, RoundState
<1>4. ASSUME x.currentRound # NoRound
      PROVE  /\ x.currentRound.round_index \in Nat
             /\ x.currentRound.round_index <= round.round_index
             /\ x.currentRound.round_index <= round'.round_index
  BY <1>3, <1>4 DEF WasTrue
<1>5. ASSUME x.currentRound # NoRound, x.status = "Active",
             x.currentRound.round_index = round'.round_index
      PROVE  x.currentRound.deadline_ledger = round'.deadline_ledger
  <2>1. /\ x.currentRound.round_index = round.round_index
        /\ round'.round_index = round.round_index
    BY <1>3, <1>4, <1>5
  <2>2. x.currentRound.deadline_ledger = round.deadline_ledger
    BY <1>5, <2>1 DEF WasTrue
  <2>3. status = "Active" \/ status = "Completed"
    BY <1>5 DEF WasTrue, Follows
  <2>4. CASE status = "Active"
    BY <2>1, <2>2, <2>4, RoundMoves
  <2>5. CASE status = "Completed"
    <3>1. UNCHANGED round
      BY <2>5 DEF Next, initialize, join, JoinChecks, contribute, ContributeChecks,
                  payout, PayoutChecks, settle_round, RoundOpen, mark_default,
                  MarkDefaultChecks, cancel, CancelChecks, close, CloseChecks, pause,
                  resume, freeze, unfreeze, AdvanceLedger, add_authorized_caller,
                  remove_authorized_caller, vars, contractVars
    <3> QED
      BY <2>2, <3>1
  <2> QED
    BY <2>3, <2>4, <2>5
<1> QED
  BY <1>2, <1>4, <1>5 DEF WasTrue

-----------------------------------------------------------------------------
(* The client's state.                                                     *)

Pinned == [status : CircleStatus \cup {"none"}, roundIndex : Int,
           paidOut : BOOLEAN]

FullState == [status : Readable, currentRound : RoundState \cup {NoRound},
              behind : BOOLEAN]
ReadState == [phase : {"none", "begun", "status", "round"},
              status : Readable \cup {"none"},
              currentRound : RoundState \cup {NoRound}, behind : BOOLEAN]
WriteState == [phase : {"idle", "preflight", "submit", "success"},
               expected : Pinned, began : Pinned, checked : BOOLEAN]

ClientTypeOK ==
  /\ cache \in FullState \cup {NoState}
  /\ reads \in [Readers -> ReadState]
  /\ write \in WriteState

\* What is cached, and what a read has seen so far, was true.
SeenWasTrue ==
  /\ cache # NoState => WasTrue(cache, status, round)
  /\ \A r \in Readers :
       /\ reads[r].phase \in {"status", "round"}
            => WasTrue(reads[r], status, round)
       /\ reads[r].phase # "round" => reads[r].currentRound = NoRound

\* A preflight runs from what its caller pinned, over what the contract was
\* when it began, to what it reads.
PinnedThenBegan ==
  LET expected == write.expected
      began == write.began
      read == reads["preflight"]
  IN  /\ read.phase # "none" => write.phase = "preflight"
      /\ write.phase = "preflight" =>
           /\ ~write.checked
           /\ expected.status \in Readable /\ began.status \in CircleStatus
           /\ Follows(expected.status, began.status)
           /\ expected.roundIndex <= began.roundIndex
           /\ Follows(began.status, status)
           /\ began.roundIndex <= round.round_index
           /\ read.phase \in {"status", "round"}
                => Follows(began.status, read.status)
           /\ read.currentRound # NoRound
                => began.roundIndex <= read.currentRound.round_index

ClientInv == /\ ClientTypeOK /\ SeenWasTrue /\ PinnedThenBegan
             /\ PreflightCatches

\* The steps of the client alone, and those of the contract.
ClientSteps ==
  \/ BeginRead \/ StoreRead \/ FailRead \/ Expire
  \/ \E r \in Readers : ReadStatus(r) \/ ReadRound(r)
  \/ BeginPreflight \/ EndPreflight \/ FailPreflight
  \/ SubmitFailed \/ ReturnSuccess

\* A step is the client's alone, which leaves the contract as it is, or leaves
\* the cache and what the reads have seen as they are.
LEMMA StepKinds ==
  ASSUME ClientTypeOK, [ClientNext]_allVars
  PROVE  \/ ClientSteps /\ UNCHANGED vars
         \/ /\ UNCHANGED cache
            /\ \A r \in Readers :
                 /\ reads'[r].phase = reads[r].phase
                 /\ reads'[r].status = reads[r].status
                 /\ reads'[r].currentRound = reads[r].currentRound
<1>1. CASE ClientSteps
  BY <1>1 DEF ClientSteps, BeginRead, StoreRead, FailRead, Expire, ReadStatus,
     ReadRound, BeginPreflight, EndPreflight, FailPreflight, SubmitFailed,
     ReturnSuccess
<1>2. CASE Others \/ UNCHANGED allVars
  BY <1>2 DEF Others, allVars, clientVars
<1>3. ASSUME NEW action, NEW result, SubmitApplied(action, result)
      PROVE  /\ UNCHANGED cache
             /\ \A r \in Readers :
                  /\ reads'[r].phase = reads[r].phase
                  /\ reads'[r].status = reads[r].status
                  /\ reads'[r].currentRound = reads[r].currentRound
  BY <1>3 DEF SubmitApplied, ClientTypeOK, Readers
<1> QED
  BY <1>1, <1>2, <1>3 DEF ClientNext, ClientSteps

\* What stands for no read and no write is well typed.
LEMMA NothingTyped == NoRead \in ReadState /\ NoWrite \in WriteState
<1>1. NoRead \in ReadState
  BY DEF NoRead, ReadState
<1>2. Nothing \in Pinned
  BY DEF Nothing, Pinned, Null
<1> QED
  BY <1>1, <1>2 DEF NoWrite, WriteState

\* The initial state.
LEMMA ClientInitially == ClientInit => ClientInv
<1> SUFFICES ASSUME ClientInit PROVE ClientInv
  OBVIOUS
<1>1. cache = NoState /\ reads = [r \in Readers |-> NoRead] /\ write = NoWrite
  BY DEF ClientInit
<1>2. ClientTypeOK
  BY <1>1, NothingTyped DEF ClientTypeOK
<1>3. SeenWasTrue
  BY <1>1 DEF SeenWasTrue, NoRead
<1>4. PinnedThenBegan /\ PreflightCatches
  BY <1>1 DEF PinnedThenBegan, PreflightCatches, NoWrite, NoRead, Readers
<1> QED
  BY <1>2, <1>3, <1>4 DEF ClientInv

\* The client's state stays well typed.
LEMMA ClientTypeStep ==
  ASSUME TypeOK, ClientTypeOK, SeenWasTrue, [ClientNext]_allVars
  PROVE  ClientTypeOK'
<1>0. /\ NoRead \in ReadState /\ NoWrite \in WriteState
      /\ status \in CircleStatus /\ round \in RoundState
      /\ cache \in FullState \cup {NoState}
      /\ reads \in [Readers -> ReadState] /\ write \in WriteState
  BY NothingTyped DEF TypeOK, ClientTypeOK
<1>0a. \A r \in Readers : reads[r] \in ReadState
  BY <1>0
<1>1. CASE BeginRead
  BY <1>0, <1>1 DEF BeginRead, ClientTypeOK, Readers, ReadState
<1>2. CASE StoreRead
  <2>1. WasTrue(reads["app"], status, round)
    BY <1>2 DEF StoreRead, SeenWasTrue, Readers
  <2>2. cache' \in FullState
    BY <1>0, <1>2, <2>1 DEF StoreRead, WasTrue, Readers, FullState, ReadState
  <2> QED
    BY <1>0, <1>2, <2>2 DEF StoreRead, ClientTypeOK
<1>3. CASE FailRead
  BY <1>0, <1>3 DEF FailRead, ClientTypeOK
<1>4. CASE Expire
  BY <1>0, <1>4 DEF Expire, ClientTypeOK
<1>5. ASSUME NEW r \in Readers, ReadStatus(r)
      PROVE  ClientTypeOK'
  <2>1. get_status \in Readable
    BY <1>0, <1>5 DEF ReadStatus, get_status, Readable, CircleStatus
  <2> QED
    BY <1>0, <1>5, <2>1 DEF ReadStatus, ClientTypeOK, ReadState
<1>6. ASSUME NEW r \in Readers, ReadRound(r)
      PROVE  ClientTypeOK'
  <2>1. PICK answer \in {NoRound, get_current_round} :
          reads' = [reads EXCEPT ![r].phase = "round",
            ![r].currentRound = IF reads[r].status \in {"Active", "Pending"}
                                  THEN answer ELSE NoRound]
    BY <1>6 DEF ReadRound
  <2>2. answer \in RoundState \cup {NoRound}
    BY <1>0, <2>1 DEF get_current_round
  <2>3. reads' \in [Readers -> ReadState]
    <3>1. PICK x : /\ x \in RoundState \cup {NoRound}
                   /\ x = IF reads[r].status \in {"Active", "Pending"}
                            THEN answer ELSE NoRound
      BY <2>2
    <3>2. PICK s : s = [[reads[r] EXCEPT !.phase = "round"] EXCEPT !.currentRound = x]
      OBVIOUS
    <3>3. reads' = [reads EXCEPT ![r] = s]
      BY <2>1, <3>1, <3>2
    <3>4. s \in ReadState
      BY <1>0a, <3>1, <3>2 DEF ReadState
    <3> QED
      BY <1>0, <3>3, <3>4
  <2> QED
    BY <1>0, <1>6, <2>3 DEF ReadRound, ClientTypeOK
<1>7. CASE BeginPreflight
  <2>1. cache.currentRound \in RoundState /\ cache.status \in Readable
    BY <1>0, <1>7 DEF BeginPreflight, FullState, NoState
  <2>2. PinnedFields \in Pinned
    BY <2>1, RotationFacts DEF PinnedFields, Pinned, Readable, CircleStatus,
       RoundState
  <2>3. [status |-> status, roundIndex |-> round.round_index,
         paidOut |-> round.paid_out] \in Pinned
    BY <1>0, RotationFacts DEF Pinned, RoundState
  <2>4. write' \in WriteState
    BY <1>7, <2>2, <2>3 DEF BeginPreflight, WriteState
  <2>5. reads' \in [Readers -> ReadState]
    BY <1>0, <1>7 DEF BeginPreflight, Readers, ReadState
  <2> QED
    BY <1>0, <1>7, <2>4, <2>5 DEF BeginPreflight, ClientTypeOK
<1>8. CASE EndPreflight
  <2>1. WasTrue(reads["preflight"], status, round)
    BY <1>8 DEF EndPreflight, SeenWasTrue, Readers
  <2>2. cache' \in FullState
    BY <1>0, <1>8, <2>1 DEF EndPreflight, WasTrue, Readers, FullState, ReadState
  <2>3. write' \in WriteState
    <3>1. (reads["preflight"].currentRound # NoRound) \in BOOLEAN
      OBVIOUS
    <3> QED
      BY <1>0, <1>8, <3>1 DEF EndPreflight, WriteState
  <2>4. reads' \in [Readers -> ReadState]
    BY <1>0, <1>8 DEF EndPreflight
  <2> QED
    BY <2>2, <2>3, <2>4 DEF ClientTypeOK
<1>9. CASE FailPreflight
  <2>1. write' \in WriteState
    BY <1>0, <1>9 DEF FailPreflight, WriteState
  <2> QED
    BY <1>0, <1>9, <2>1 DEF FailPreflight, ClientTypeOK
<1>10. ASSUME NEW action, NEW result, SubmitApplied(action, result)
       PROVE  ClientTypeOK'
  <2>1. reads' \in [Readers -> ReadState]
    <3>1. (reads["app"].behind
             \/ (result = "success" /\ reads["app"].phase = "round")) \in BOOLEAN
      OBVIOUS
    <3> QED
      BY <1>0, <1>10, <3>1 DEF SubmitApplied, Readers, ReadState
  <2>2. write' \in WriteState
    BY <1>0, <1>10 DEF SubmitApplied, WriteState
  <2> QED
    BY <1>0, <1>10, <2>1, <2>2 DEF SubmitApplied, ClientTypeOK
<1>11. CASE SubmitFailed \/ ReturnSuccess
  BY <1>0, <1>11 DEF SubmitFailed, ReturnSuccess, ClientTypeOK
<1>12. CASE Others \/ UNCHANGED allVars
  BY <1>0, <1>12 DEF Others, allVars, clientVars, ClientTypeOK
<1> QED
  BY <1>1, <1>2, <1>3, <1>4, <1>5, <1>6, <1>7, <1>8, <1>9, <1>10, <1>11, <1>12
     DEF ClientNext

\* What was read stays true of an earlier moment.
LEMMA SeenStep ==
  ASSUME IndInv, IndInv', ClientTypeOK, SeenWasTrue, PinnedThenBegan,
         [ClientNext]_allVars
  PROVE  SeenWasTrue'
<1>0. /\ status \in CircleStatus /\ round \in RoundState
      /\ round.round_index \in Nat
  BY RotationFacts DEF IndInv, TypeOK, RoundState
<1>1. CASE ClientSteps /\ UNCHANGED vars
  <2>0. UNCHANGED <<status, round>>
    BY <1>1 DEF vars, contractVars
  <2>1. CASE BeginRead \/ BeginPreflight
    <3>1. PICK r \in Readers :
            /\ reads' = [reads EXCEPT ![r].phase = "begun"]
            /\ r = "app" => BeginRead
            /\ r = "preflight" => BeginPreflight
      BY <2>1 DEF BeginRead, BeginPreflight, Readers
    <3>2. UNCHANGED cache
      BY <2>1 DEF BeginRead, BeginPreflight
    <3>3. reads[r].phase = "none"
      BY <2>1, <3>1 DEF BeginRead, BeginPreflight, PinnedThenBegan, Readers
    <3> QED
      BY <2>0, <3>1, <3>2, <3>3 DEF SeenWasTrue, ClientTypeOK, ReadState
  <2>2. CASE StoreRead
    BY <2>0, <2>2 DEF StoreRead, SeenWasTrue, ClientTypeOK, Readers, WasTrue,
       NoRead
  <2>3. CASE FailRead \/ FailPreflight
    BY <2>0, <2>3 DEF FailRead, FailPreflight, SeenWasTrue, ClientTypeOK,
       Readers, NoRead
  <2>4. CASE Expire \/ SubmitFailed \/ ReturnSuccess
    BY <2>0, <2>4 DEF Expire, SubmitFailed, ReturnSuccess, SeenWasTrue
  <2>5. ASSUME NEW r \in Readers, ReadStatus(r)
        PROVE  SeenWasTrue'
    <3>1. get_status \in Readable /\ Follows(get_status, status)
      BY <1>0, <2>5 DEF ReadStatus, get_status, Readable, CircleStatus, Follows
    <3>2. reads[r].currentRound = NoRound
      BY <2>5 DEF ReadStatus, SeenWasTrue
    <3>3. WasTrue(reads'[r], status, round)
      BY <2>5, <3>1, <3>2 DEF ReadStatus, WasTrue, ClientTypeOK, ReadState
    <3> QED
      BY <2>0, <2>5, <3>2, <3>3 DEF ReadStatus, SeenWasTrue, ClientTypeOK
  <2>6. ASSUME NEW r \in Readers, ReadRound(r)
        PROVE  SeenWasTrue'
    <3>1. WasTrue(reads[r], status, round)
      BY <2>6 DEF ReadRound, SeenWasTrue
    <3>2. /\ reads'[r].status = reads[r].status
          /\ reads'[r].currentRound \in {NoRound, round}
      BY <2>6 DEF ReadRound, ClientTypeOK, ReadState, get_current_round
    <3>3. WasTrue(reads'[r], status, round)
      BY <1>0, <3>1, <3>2 DEF WasTrue
    <3>4. reads'[r].phase = "round"
      BY <2>6 DEF ReadRound, ClientTypeOK, ReadState
    <3> QED
      BY <2>0, <2>6, <3>3, <3>4 DEF ReadRound, SeenWasTrue, ClientTypeOK
  <2>7. CASE EndPreflight
    BY <2>0, <2>7 DEF EndPreflight, SeenWasTrue, ClientTypeOK, Readers,
       WasTrue, NoRead
  <2> QED
    BY <1>1, <2>1, <2>2, <2>3, <2>4, <2>5, <2>6, <2>7 DEF ClientSteps
<1>2. ASSUME UNCHANGED cache,
             \A r \in Readers :
               /\ reads'[r].phase = reads[r].phase
               /\ reads'[r].status = reads[r].status
               /\ reads'[r].currentRound = reads[r].currentRound
      PROVE  SeenWasTrue'
  <2>1. cache' # NoState => WasTrue(cache', status', round')
    BY <1>2, CircleStep, StaysTrue DEF SeenWasTrue
  <2>2. ASSUME NEW r \in Readers, reads'[r].phase \in {"status", "round"}
        PROVE  WasTrue(reads'[r], status', round')
    <3>1. WasTrue(reads[r], status, round)
      BY <1>2, <2>2 DEF SeenWasTrue
    <3>2. WasTrue(reads[r], status', round')
      BY <3>1, CircleStep, StaysTrue
    <3> QED
      BY <1>2, <3>2 DEF WasTrue
  <2> QED
    BY <1>2, <2>1, <2>2 DEF SeenWasTrue
<1> QED
  BY <1>1, <1>2, StepKinds

\* The last thing a preflight read is a status the contract had after the
\* preflight began.
LEMMA PinnedStep ==
  ASSUME IndInv, IndInv', ClientInv, [ClientNext]_allVars
  PROVE  PinnedThenBegan'
<1>0. /\ status \in CircleStatus /\ status' \in CircleStatus
      /\ round.round_index \in Nat /\ round'.round_index \in Nat
      /\ write \in WriteState /\ reads \in [Readers -> ReadState]
  BY RotationFacts
     DEF IndInv, TypeOK, RoundState, ClientInv, ClientTypeOK
<1>1. CASE UNCHANGED <<status, round>> /\ ClientSteps
  <2>1. CASE BeginRead \/ StoreRead \/ FailRead
    BY <1>0, <1>1, <2>1 DEF BeginRead, StoreRead, FailRead, ClientInv,
       PinnedThenBegan, Readers, ReadState
  <2>2. CASE Expire
    BY <1>1, <2>2 DEF Expire, ClientInv, PinnedThenBegan
  <2>3. ASSUME NEW r \in Readers, ReadStatus(r)
        PROVE  PinnedThenBegan'
    <3>1. reads[r].currentRound = NoRound
      BY <2>3 DEF ReadStatus, ClientInv, SeenWasTrue
    <3>2. get_status = status
      BY <2>3 DEF ReadStatus, get_status
    <3> QED
      BY <1>0, <1>1, <2>3, <3>1, <3>2
         DEF ReadStatus, ClientInv, PinnedThenBegan, Readers, ReadState
  <2>4. ASSUME NEW r \in Readers, ReadRound(r)
        PROVE  PinnedThenBegan'
    <3>1. CASE r = "app"
      BY <1>0, <1>1, <2>4, <3>1
         DEF ReadRound, ClientInv, PinnedThenBegan, Readers, ReadState
    <3>2. CASE r = "preflight"
      <4>1. /\ reads'[r].status = reads[r].status
            /\ reads'[r].currentRound \in {NoRound, round}
            /\ write' = write
        BY <1>0, <2>4 DEF ReadRound, get_current_round, ReadState
      <4>2. reads[r].phase = "status"
        BY <2>4 DEF ReadRound
      <4> QED
        BY <1>0, <1>1, <3>2, <4>1, <4>2 DEF ClientInv, PinnedThenBegan
    <3> QED
      BY <3>1, <3>2 DEF Readers
  <2>5. CASE BeginPreflight
    <3>1. /\ cache # NoState /\ cache.currentRound # NoRound
          /\ cache \in FullState
      BY <2>5 DEF BeginPreflight, NoState, ClientInv, ClientTypeOK
    <3>2. WasTrue(cache, status, round)
      BY <3>1 DEF ClientInv, SeenWasTrue
    <3>3. /\ write'.expected.status = cache.status
          /\ write'.expected.roundIndex = cache.currentRound.round_index
          /\ write'.began.status = status
          /\ write'.began.roundIndex = round.round_index
          /\ ~write'.checked
      BY <2>5 DEF BeginPreflight, PinnedFields
    <3>4. reads["preflight"].phase = "none"
      BY <2>5 DEF BeginPreflight, ClientInv, PinnedThenBegan
    <3>5. /\ reads'["preflight"].phase = "begun"
          /\ reads'["preflight"].currentRound = NoRound
          /\ write'.phase = "preflight"
      BY <1>0, <2>5, <3>4 DEF BeginPreflight, ClientInv, SeenWasTrue, Readers,
         ReadState
    <3>6. Follows(status, status)
      BY DEF Follows
    <3> QED
      BY <1>0, <1>1, <3>1, <3>2, <3>3, <3>5, <3>6 DEF PinnedThenBegan, WasTrue
  <2>6. CASE EndPreflight \/ FailPreflight
    <3>1. reads'["preflight"] = NoRead
      BY <1>0, <2>6 DEF EndPreflight, FailPreflight, Readers
    <3>2. ASSUME EndPreflight PROVE write'.phase # "preflight"
      BY <1>0, <3>2 DEF EndPreflight, WriteState, NoWrite
    <3>3. ASSUME FailPreflight PROVE write'.phase # "preflight"
      BY <1>0, <3>3 DEF FailPreflight, WriteState
    <3>4. write'.phase # "preflight"
      BY <2>6, <3>2, <3>3
    <3> QED
      BY <3>1, <3>4 DEF PinnedThenBegan, NoRead
  <2>7. CASE SubmitFailed \/ ReturnSuccess
    BY <2>7 DEF SubmitFailed, ReturnSuccess, ClientInv, PinnedThenBegan, NoWrite
  <2> QED
    BY <1>1, <2>1, <2>2, <2>3, <2>4, <2>5, <2>6, <2>7 DEF ClientSteps
<1>2. ASSUME write'.phase = "preflight", UNCHANGED write,
             \A r \in Readers :
               /\ reads'[r].phase = reads[r].phase
               /\ reads'[r].status = reads[r].status
               /\ reads'[r].currentRound = reads[r].currentRound
      PROVE  PinnedThenBegan'
  <2>1. Follows(status, status') /\ round.round_index <= round'.round_index
    BY <1>0, CircleStep, StatusFollows, RoundMoves DEF IndInv
  <2>2. /\ write.began.status \in CircleStatus
        /\ Follows(write.began.status, status)
        /\ write.began.roundIndex \in Int
        /\ write.began.roundIndex <= round.round_index
    BY <1>0, <1>2 DEF ClientInv, PinnedThenBegan, WriteState, Pinned
  <2>3. /\ Follows(write.began.status, status')
        /\ write.began.roundIndex <= round'.round_index
    BY <1>0, <2>1, <2>2, FollowsOrder
  <2> QED
    BY <1>2, <2>3 DEF ClientInv, PinnedThenBegan, Readers
<1>3. ASSUME write'.phase # "preflight", write.phase # "preflight",
             \A r \in Readers : reads'[r].phase = reads[r].phase
      PROVE  PinnedThenBegan'
  BY <1>3 DEF ClientInv, PinnedThenBegan, Readers
<1>4. CASE Others \/ UNCHANGED allVars
  BY <1>2, <1>3, <1>4 DEF Others, allVars, clientVars
<1>5. ASSUME NEW action, NEW result, SubmitApplied(action, result)
      PROVE  PinnedThenBegan'
  <2>1. write.phase # "preflight" /\ write'.phase # "preflight"
    BY <1>5 DEF SubmitApplied, NoWrite
  <2>2. \A r \in Readers : reads'[r].phase = reads[r].phase
    BY <1>0, <1>5 DEF SubmitApplied, ReadState
  <2> QED
    BY <1>3, <2>1, <2>2
<1>6. ClientSteps => UNCHANGED <<status, round>>
  BY DEF ClientSteps, BeginRead, StoreRead, FailRead, Expire, ReadStatus,
     ReadRound, BeginPreflight, EndPreflight, FailPreflight, SubmitFailed,
     ReturnSuccess, vars, contractVars
<1> QED
  BY <1>1, <1>4, <1>5, <1>6 DEF ClientNext, ClientSteps

\* A preflight that finds no mismatch has read what its caller pinned, so
\* nothing had moved between the two, nor when it began.
LEMMA PreflightStep ==
  ASSUME IndInv, ClientInv, [ClientNext]_allVars
  PROVE  PreflightCatches'
<1>0. write \in WriteState /\ reads \in [Readers -> ReadState]
  BY DEF ClientInv, ClientTypeOK
<1>1. CASE EndPreflight
  <2> DEFINE read == reads["preflight"]
             s == [status |-> read.status, currentRound |-> read.currentRound,
                   behind |-> FALSE]
  <2>1. SUFFICES ASSUME write'.phase = "submit", write'.checked
                 PROVE  /\ write'.expected.status = write'.began.status
                        /\ write'.expected.roundIndex = write'.began.roundIndex
    BY DEF PreflightCatches
  <2>2. /\ detectStateMismatches(write.expected, Resolved(s)) = {}
        /\ read.currentRound # NoRound
        /\ write'.expected = write.expected /\ write'.began = write.began
    BY <1>0, <1>1, <2>1 DEF EndPreflight, WriteState, NoWrite
  <2>3. /\ write.phase = "preflight"
        /\ WasTrue(read, status, round)
    BY <1>1 DEF EndPreflight, ClientInv, PinnedThenBegan, SeenWasTrue, Readers
  <2>4. write.expected \in Pinned /\ write.began \in Pinned
    BY <1>0 DEF WriteState
  <2>5. Resolved(s) = [status |-> read.status,
                       roundIndex |-> read.currentRound.round_index,
                       paidOut |-> read.currentRound.paid_out]
    BY <2>2 DEF Resolved
  <2>6. /\ read.status = write.expected.status
        /\ read.currentRound.round_index = write.expected.roundIndex
    <3>1. \A f \in DOMAIN write.expected \cap DOMAIN Resolved(s) :
            Resolved(s)[f] = write.expected[f]
      BY <2>2 DEF detectStateMismatches
    <3>2. /\ "status" \in DOMAIN write.expected \cap DOMAIN Resolved(s)
          /\ "roundIndex" \in DOMAIN write.expected \cap DOMAIN Resolved(s)
      BY <2>4, <2>5 DEF Pinned
    <3>3. /\ Resolved(s)["status"] = write.expected["status"]
          /\ Resolved(s)["roundIndex"] = write.expected["roundIndex"]
      BY <3>1, <3>2
    <3> QED
      BY <2>4, <2>5, <3>3 DEF Pinned
  <2>7. /\ Follows(write.expected.status, write.began.status)
        /\ Follows(write.began.status, read.status)
        /\ write.expected.roundIndex <= write.began.roundIndex
        /\ write.began.roundIndex <= read.currentRound.round_index
    BY <1>1, <2>2, <2>3 DEF EndPreflight, ClientInv, PinnedThenBegan
  <2>8. write.expected.status \in CircleStatus /\ write.began.status \in CircleStatus
    BY <2>3 DEF ClientInv, PinnedThenBegan, Readable, CircleStatus
  <2>9. write.expected.status = write.began.status
    BY <2>6, <2>7, <2>8, FollowsOrder
  <2>10. write.expected.roundIndex = write.began.roundIndex
    BY <2>4, <2>6, <2>7 DEF Pinned
  <2> QED
    BY <2>2, <2>9, <2>10
<1>2. CASE FailPreflight
  BY <1>0, <1>2 DEF FailPreflight, ClientInv, PinnedThenBegan, PreflightCatches,
     WriteState
<1>3. CASE BeginPreflight
  BY <1>3 DEF BeginPreflight, PreflightCatches
<1>4. CASE SubmitFailed \/ ReturnSuccess
  BY <1>4 DEF SubmitFailed, ReturnSuccess, PreflightCatches, NoWrite
<1>5. ASSUME NEW action, NEW result, SubmitApplied(action, result)
      PROVE  PreflightCatches'
  BY <1>5 DEF SubmitApplied, PreflightCatches, NoWrite
<1>6. CASE \/ Others \/ UNCHANGED allVars \/ BeginRead \/ StoreRead \/ FailRead
           \/ Expire \/ \E r \in Readers : ReadStatus(r) \/ ReadRound(r)
  <2>1. UNCHANGED write
    BY <1>6 DEF Others, allVars, clientVars, BeginRead, StoreRead, FailRead,
       Expire, ReadStatus, ReadRound
  <2> QED
    BY <2>1 DEF ClientInv, PreflightCatches
<1> QED
  BY <1>1, <1>2, <1>3, <1>4, <1>5, <1>6 DEF ClientNext

\* The invariant of the client beside the contract, for every rotation, member
\* and environment: what it holds was read from the contract, the status before
\* the round, and both have only moved on.
THEOREM ClientInvariance == ClientSpec => []ClientInv
<1>1. ClientInit => ClientInv
  BY ClientInitially
<1>2. IndInv /\ IndInv' /\ ClientInv /\ [ClientNext]_allVars => ClientInv'
  BY ClientTypeStep, SeenStep, PinnedStep, PreflightStep DEF ClientInv, IndInv
<1>3. ClientSpec => []IndInv
  BY ClientKeepsCircle, Invariance, PTL
<1> QED
  BY <1>1, <1>2, <1>3, PTL DEF ClientSpec

\* A write that passed its preflight was not already overtaken when the
\* preflight began (preflightGuard in sdk/src/client.ts), although both states
\* compared were read in two calls: statuses and rounds only move one way, so
\* what was equal before and after was equal in between.
THEOREM PreflightIsSound == ClientSpec => []PreflightCatches
<1>1. ClientInv => PreflightCatches
  BY DEF ClientInv
<1> QED
  BY <1>1, ClientInvariance, PTL

-----------------------------------------------------------------------------
(* The gates.                                                              *)

\* A gate is allowed when no check holds; otherwise its reason is that of a
\* check that holds.
LEMMA FirstReasonFacts ==
  ASSUME NEW checks, DOMAIN checks \subseteq Nat,
         \A i \in DOMAIN checks : checks[i][2] # "allowed"
  PROVE  /\ FirstReason(checks) = "allowed"
              <=> \A i \in DOMAIN checks : ~checks[i][1]
         /\ FirstReason(checks) # "allowed" =>
              \E i \in DOMAIN checks :
                checks[i][1] /\ FirstReason(checks) = checks[i][2]
<1> DEFINE hits == {i \in DOMAIN checks : checks[i][1]}
           first == CHOOSE i \in hits : \A j \in hits : i <= j
<1>1. CASE hits = {}
  BY <1>1 DEF FirstReason
<1>2. CASE hits # {}
  <2>1. first \in hits
    BY <1>2, LeastNatural
  <2>2. FirstReason(checks) = checks[first][2]
    BY <1>2 DEF FirstReason
  <2> QED
    BY <2>1, <2>2
<1> QED
  BY <1>1, <1>2

\* The same for a list of three checks.
LEMMA FirstOfThree ==
  ASSUME NEW a, NEW b, NEW c,
         a[2] # "allowed", b[2] # "allowed", c[2] # "allowed"
  PROVE  /\ FirstReason(<<a, b, c>>) = "allowed"
              <=> ~a[1] /\ ~b[1] /\ ~c[1]
         /\ FirstReason(<<a, b, c>>) # "allowed" =>
              \/ a[1] /\ FirstReason(<<a, b, c>>) = a[2]
              \/ b[1] /\ FirstReason(<<a, b, c>>) = b[2]
              \/ c[1] /\ FirstReason(<<a, b, c>>) = c[2]
<1> DEFINE checks == <<a, b, c>>
<1>1. DOMAIN checks = 1..3 /\ \A i \in 1..3 : i = 1 \/ i = 2 \/ i = 3
  OBVIOUS
<1>2. checks[1] = a /\ checks[2] = b /\ checks[3] = c
  OBVIOUS
<1> HIDE DEF checks
<1>3. \A i \in DOMAIN checks : checks[i][2] # "allowed"
  BY <1>1, <1>2
<1>4. (\A i \in DOMAIN checks : ~checks[i][1]) <=> ~a[1] /\ ~b[1] /\ ~c[1]
  BY <1>1, <1>2
<1>5. FirstReason(checks) = "allowed" <=> \A i \in DOMAIN checks : ~checks[i][1]
  BY <1>1, <1>3, FirstReasonFacts
<1>6. FirstReason(checks) # "allowed" =>
        \E i \in 1..3 : checks[i][1] /\ FirstReason(checks) = checks[i][2]
  BY <1>1, <1>3, FirstReasonFacts
<1>7. FirstReason(checks) # "allowed" =>
        \/ a[1] /\ FirstReason(checks) = a[2]
        \/ b[1] /\ FirstReason(checks) = b[2]
        \/ c[1] /\ FirstReason(checks) = c[2]
  BY <1>1, <1>2, <1>6
<1> QED
  BY <1>4, <1>5, <1>7 DEF checks

\* The same for a list of four checks.
LEMMA FirstOfFour ==
  ASSUME NEW a, NEW b, NEW c, NEW d,
         a[2] # "allowed", b[2] # "allowed", c[2] # "allowed",
         d[2] # "allowed"
  PROVE  /\ FirstReason(<<a, b, c, d>>) = "allowed"
              <=> ~a[1] /\ ~b[1] /\ ~c[1] /\ ~d[1]
         /\ FirstReason(<<a, b, c, d>>) # "allowed" =>
              \/ a[1] /\ FirstReason(<<a, b, c, d>>) = a[2]
              \/ b[1] /\ FirstReason(<<a, b, c, d>>) = b[2]
              \/ c[1] /\ FirstReason(<<a, b, c, d>>) = c[2]
              \/ d[1] /\ FirstReason(<<a, b, c, d>>) = d[2]
<1> DEFINE checks == <<a, b, c, d>>
<1>1. DOMAIN checks = 1..4 /\ \A i \in 1..4 : i = 1 \/ i = 2 \/ i = 3 \/ i = 4
  OBVIOUS
<1>2. checks[1] = a /\ checks[2] = b /\ checks[3] = c /\ checks[4] = d
  OBVIOUS
<1> HIDE DEF checks
<1>3. \A i \in DOMAIN checks : checks[i][2] # "allowed"
  BY <1>1, <1>2
<1>4. (\A i \in DOMAIN checks : ~checks[i][1]) <=> ~a[1] /\ ~b[1] /\ ~c[1] /\ ~d[1]
  BY <1>1, <1>2
<1>5. FirstReason(checks) = "allowed" <=> \A i \in DOMAIN checks : ~checks[i][1]
  BY <1>1, <1>3, FirstReasonFacts
<1>6. FirstReason(checks) # "allowed" =>
        \E i \in 1..4 : checks[i][1] /\ FirstReason(checks) = checks[i][2]
  BY <1>1, <1>3, FirstReasonFacts
<1>7. FirstReason(checks) # "allowed" =>
        \/ a[1] /\ FirstReason(checks) = a[2]
        \/ b[1] /\ FirstReason(checks) = b[2]
        \/ c[1] /\ FirstReason(checks) = c[2]
        \/ d[1] /\ FirstReason(checks) = d[2]
  BY <1>1, <1>2, <1>6
<1> QED
  BY <1>4, <1>5, <1>7 DEF checks

\* The same for a list of six checks.
LEMMA FirstOfSix ==
  ASSUME NEW a, NEW b, NEW c, NEW d, NEW e, NEW f,
         a[2] # "allowed", b[2] # "allowed", c[2] # "allowed",
         d[2] # "allowed", e[2] # "allowed", f[2] # "allowed"
  PROVE  /\ FirstReason(<<a, b, c, d, e, f>>) = "allowed"
              <=> ~a[1] /\ ~b[1] /\ ~c[1] /\ ~d[1] /\ ~e[1] /\ ~f[1]
         /\ FirstReason(<<a, b, c, d, e, f>>) # "allowed" =>
              \/ a[1] /\ FirstReason(<<a, b, c, d, e, f>>) = a[2]
              \/ b[1] /\ FirstReason(<<a, b, c, d, e, f>>) = b[2]
              \/ c[1] /\ FirstReason(<<a, b, c, d, e, f>>) = c[2]
              \/ d[1] /\ FirstReason(<<a, b, c, d, e, f>>) = d[2]
              \/ e[1] /\ FirstReason(<<a, b, c, d, e, f>>) = e[2]
              \/ f[1] /\ FirstReason(<<a, b, c, d, e, f>>) = f[2]
<1> DEFINE checks == <<a, b, c, d, e, f>>
<1>1. DOMAIN checks = 1..6 /\ \A i \in 1..6 : i = 1 \/ i = 2 \/ i = 3 \/ i = 4 \/ i = 5 \/ i = 6
  OBVIOUS
<1>2. checks[1] = a /\ checks[2] = b /\ checks[3] = c /\ checks[4] = d /\ checks[5] = e /\ checks[6] = f
  OBVIOUS
<1> HIDE DEF checks
<1>3. \A i \in DOMAIN checks : checks[i][2] # "allowed"
  BY <1>1, <1>2
<1>4. (\A i \in DOMAIN checks : ~checks[i][1]) <=> ~a[1] /\ ~b[1] /\ ~c[1] /\ ~d[1] /\ ~e[1] /\ ~f[1]
  BY <1>1, <1>2
<1>5. FirstReason(checks) = "allowed" <=> \A i \in DOMAIN checks : ~checks[i][1]
  BY <1>1, <1>3, FirstReasonFacts
<1>6. FirstReason(checks) # "allowed" =>
        \E i \in 1..6 : checks[i][1] /\ FirstReason(checks) = checks[i][2]
  BY <1>1, <1>3, FirstReasonFacts
<1>7. FirstReason(checks) # "allowed" =>
        \/ a[1] /\ FirstReason(checks) = a[2]
        \/ b[1] /\ FirstReason(checks) = b[2]
        \/ c[1] /\ FirstReason(checks) = c[2]
        \/ d[1] /\ FirstReason(checks) = d[2]
        \/ e[1] /\ FirstReason(checks) = e[2]
        \/ f[1] /\ FirstReason(checks) = f[2]
  BY <1>1, <1>2, <1>6
<1> QED
  BY <1>4, <1>5, <1>7 DEF checks

\* What the gates allow, over any snapshot of this rotation, and why join's is
\* closed for good.
LEMMA GateFacts ==
  ASSUME NEW s, NEW o, s.members = members
  PROVE  /\ gateJoin(s, o) = "allowed" <=>
              /\ s.fresh /\ s.status = "Pending"
              /\ o.memberAddress = "" \/ o.memberAddress \in MemberSet
              /\ ~o.hasLockedCollateral
         /\ gateJoin(s, o) = "wrong_status" => s.status # "Pending"
         /\ gateContribute(s, o) = "allowed" <=>
              /\ s.fresh /\ s.status = "Active" /\ s.currentRound # NoRound
              /\ o.memberAddress = "" \/ o.memberAddress \in MemberSet
              /\ ~(/\ s.latestLedger # Null
                   /\ s.latestLedger > s.currentRound.deadline_ledger)
              /\ ~o.hasContributed
         /\ gatePayout(s, o) = "allowed" <=>
              /\ s.fresh /\ s.status = "Active" /\ s.currentRound # NoRound
              /\ ~(s.currentRound.contributions_received < N)
         /\ gateDefault(s, o) = "allowed" <=>
              /\ s.fresh /\ s.status = "Active" /\ s.currentRound # NoRound
              /\ o.memberAddress = "" \/ o.memberAddress \in MemberSet
              /\ ~o.hasContributed
              /\ ~(\/ s.latestLedger = Null
                   \/ s.latestLedger <= s.currentRound.deadline_ledger)
         /\ gateClose(s, o) = "allowed" <=>
              /\ s.fresh /\ s.status \in {"Completed", "Cancelled"}
              /\ o.memberAddress = "" \/ o.memberAddress \in MemberSet
<1> DEFINE stale == Stale(s)
           notPending == WrongStatus(s, {"Pending"})
           notActive == WrongStatus(s, {"Active"})
           notOver == WrongStatus(s, {"Completed", "Cancelled"})
           noRound == NoActiveRound(s)
           stranger == NotAMember(s, o)
           locked == <<o.hasLockedCollateral, "already_joined">>
           done == <<o.hasContributed, "already_contributed">>
           late == <<s.latestLedger # Null
                       /\ s.latestLedger > s.currentRound.deadline_ledger,
                     "deadline_passed">>
           early == <<s.latestLedger = Null
                        \/ s.latestLedger <= s.currentRound.deadline_ledger,
                      "deadline_not_passed">>
           short == <<s.currentRound.contributions_received < Len(s.members),
                      "round_not_complete">>
<1>1. ToSet(s.members) = MemberSet /\ Len(s.members) = N
  BY ConfigAssumption DEF ToSet, MemberSet, N
<1>2. /\ stale[2] # "allowed" /\ notPending[2] = "wrong_status"
      /\ notActive[2] # "allowed" /\ notOver[2] # "allowed"
      /\ noRound[2] # "allowed" /\ stranger[2] # "allowed"
      /\ locked[2] # "allowed" /\ done[2] # "allowed" /\ late[2] # "allowed"
      /\ early[2] # "allowed" /\ short[2] # "allowed"
      /\ stale[2] # "wrong_status" /\ stranger[2] # "wrong_status"
      /\ locked[2] # "wrong_status" /\ notPending[2] # "allowed"
  BY DEF Stale, WrongStatus, NoActiveRound, NotAMember
<1>3. /\ stale[1] <=> ~s.fresh
      /\ notPending[1] <=> s.status # "Pending"
      /\ notActive[1] <=> s.status # "Active"
      /\ notOver[1] <=> s.status \notin {"Completed", "Cancelled"}
      /\ noRound[1] <=> s.currentRound = NoRound
      /\ stranger[1] <=> ~(\/ o.memberAddress = ""
                           \/ o.memberAddress \in MemberSet)
  BY <1>1 DEF Stale, WrongStatus, NoActiveRound, NotAMember
<1>4. /\ locked[1] <=> o.hasLockedCollateral
      /\ done[1] <=> o.hasContributed
      /\ late[1] <=> /\ s.latestLedger # Null
                     /\ s.latestLedger > s.currentRound.deadline_ledger
      /\ early[1] <=> \/ s.latestLedger = Null
                      \/ s.latestLedger <= s.currentRound.deadline_ledger
      /\ short[1] <=> s.currentRound.contributions_received < N
  BY <1>1
<1>5. /\ gateJoin(s, o) = FirstReason(<<stale, notPending, stranger, locked>>)
      /\ gateContribute(s, o) =
           FirstReason(<<stale, notActive, noRound, stranger, late, done>>)
      /\ gatePayout(s, o) = FirstReason(<<stale, notActive, noRound, short>>)
      /\ gateDefault(s, o) =
           FirstReason(<<stale, notActive, noRound, stranger, done, early>>)
      /\ gateClose(s, o) = FirstReason(<<stale, notOver, stranger>>)
  BY DEF gateJoin, gateContribute, gatePayout, gateDefault, gateClose
<1> HIDE DEF stale, notPending, notActive, notOver, noRound, stranger, locked,
             done, late, early, short
<1>6. /\ gateJoin(s, o) = "allowed" <=>
           ~stale[1] /\ ~notPending[1] /\ ~stranger[1] /\ ~locked[1]
      /\ gateJoin(s, o) = "wrong_status" => notPending[1]
  BY <1>2, <1>5, FirstOfFour
<1>7. gateContribute(s, o) = "allowed" <=>
        /\ ~stale[1] /\ ~notActive[1] /\ ~noRound[1]
        /\ ~stranger[1] /\ ~late[1] /\ ~done[1]
  BY <1>2, <1>5, FirstOfSix
<1>8. gatePayout(s, o) = "allowed" <=>
        ~stale[1] /\ ~notActive[1] /\ ~noRound[1] /\ ~short[1]
  BY <1>2, <1>5, FirstOfFour
<1>9. gateDefault(s, o) = "allowed" <=>
        /\ ~stale[1] /\ ~notActive[1] /\ ~noRound[1]
        /\ ~stranger[1] /\ ~done[1] /\ ~early[1]
  BY <1>2, <1>5, FirstOfSix
<1>10. gateClose(s, o) = "allowed" <=>
         ~stale[1] /\ ~notOver[1] /\ ~stranger[1]
  BY <1>2, <1>5, FirstOfThree
<1> QED
  BY <1>3, <1>4, <1>6, <1>7, <1>8, <1>9, <1>10

\* What the client shows was read at some moment and has only been overtaken
\* since: so what a cached state rules out for good stays ruled out.
LEMMA BlockedStaysBlocked ==
  ASSUME ClientInv, cache # NoState
  PROVE  /\ gateJoin(CachedSnapshot(Null), Options(me)) = "wrong_status"
              => ~join(me)
         /\ gateClose(CachedSnapshot(Null), Options(me)) = "allowed"
              => /\ ~contribute(me) /\ ~payout
                 /\ \A m \in MemberSet : ~mark_default(m)
<1> DEFINE s == CachedSnapshot(Null)
<1>1. s.members = members /\ s.status = cache.status
  BY DEF CachedSnapshot
<1>2. cache.status \in Readable /\ Follows(cache.status, status)
  BY DEF ClientInv, SeenWasTrue, WasTrue
<1>3. gateJoin(s, Options(me)) = "wrong_status" => cache.status # "Pending"
  BY <1>1, GateFacts
<1>4. cache.status # "Pending" => status # "Pending"
  BY <1>2 DEF Readable, Follows
<1>5. gateClose(s, Options(me)) = "allowed"
        => cache.status \in {"Completed", "Cancelled"}
  BY <1>1, GateFacts
<1>6. cache.status \in {"Completed", "Cancelled"} => status # "Active"
  BY <1>2 DEF Readable, Follows
<1>7. gateJoin(s, Options(me)) = "wrong_status" => ~join(me)
  BY <1>3, <1>4 DEF join, JoinChecks
<1>8. status # "Active" => /\ ~contribute(me) /\ ~payout
                           /\ \A m \in MemberSet : ~mark_default(m)
  BY DEF contribute, ContributeChecks, payout, PayoutChecks, mark_default,
         MarkDefaultChecks, RoundOpen
<1> QED
  BY <1>5, <1>6, <1>7, <1>8

\* Whatever ledger the client believes in, the gate of mark_default it shows
\* opens only after the deadline of the round, as contract and clock stand.
LEMMA DefaultNotEarly ==
  ASSUME IndInv, ClientInv
  PROVE  DefaultGateNeverEarly
<1> SUFFICES ASSUME NEW latest \in 0..ledger,
               gateDefault(CachedSnapshot(latest),
                           [Options(me) EXCEPT !.hasContributed = FALSE])
                 = "allowed",
               cache.currentRound.round_index = round.round_index
             PROVE  deadline_passed
  BY DEF DefaultGateNeverEarly
<1> DEFINE s == CachedSnapshot(latest)
<1>1. /\ s.members = members /\ s.status = cache.status
      /\ s.currentRound = cache.currentRound /\ s.latestLedger = latest
  BY DEF CachedSnapshot
<1>2. /\ cache.status = "Active" /\ cache.currentRound # NoRound
      /\ ~(latest = Null \/ latest <= cache.currentRound.deadline_ledger)
  BY <1>1, GateFacts
<1>3. cache # NoState
  BY <1>2 DEF NoState
<1>4. cache.currentRound.deadline_ledger = round.deadline_ledger
  BY <1>2, <1>3 DEF ClientInv, SeenWasTrue, WasTrue
<1>5. ledger \in Nat /\ round.deadline_ledger \in Nat
  BY DEF IndInv, TypeOK, RoundState
<1> QED
  BY <1>2, <1>4, <1>5 DEF deadline_passed

\* What an old or torn snapshot rules out, or opens, it does so rightly
\* (getFullState reads the status and then the round, in two calls): the member
\* is never told that an action is over while the contract would still take it,
\* nor that a default may be marked before the deadline.
THEOREM OldSnapshotsHold == ClientSpec => OldSnapshotsAreSafe
<1>1. ClientSpec => []IndInv
  BY ClientKeepsCircle, Invariance, PTL
<1>2. ClientInv /\ [ClientNext]_allVars => [BlocksForGood]_allVars
  BY BlockedStaysBlocked DEF BlocksForGood
<1>3. IndInv /\ ClientInv => DefaultGateNeverEarly
  BY DefaultNotEarly
<1> QED
  BY <1>1, <1>2, <1>3, ClientInvariance, PTL DEF ClientSpec, OldSnapshotsAreSafe

\* In module CircleClient nobody's account is frozen.
NobodyFrozen == frozen = {}

\* No account is frozen in any state that module CircleClient reaches.
LEMMA NobodyFrozenAlways == ClientSpec => []NobodyFrozen
<1>1. ClientInit => NobodyFrozen
  BY DEF ClientInit, Init, NobodyFrozen
<1>2. ASSUME [ClientNext]_allVars PROVE UNCHANGED frozen
  <2>1. CASE Others
    BY <2>1 DEF Others, initialize, join, contribute, payout, mark_default,
       settle_round, cancel, close, pause, resume, AdvanceLedger,
       add_authorized_caller, tokenVars
  <2>2. ASSUME NEW action, NEW result, SubmitApplied(action, result)
        PROVE  UNCHANGED frozen
    <3>1. Invoke(action)
      BY <2>2 DEF SubmitApplied
    <3> QED
      BY <3>1 DEF Invoke, join, contribute, payout, mark_default, close, tokenVars
  <2>3. CASE \/ BeginRead \/ StoreRead \/ FailRead \/ Expire
             \/ \E r \in Readers : ReadStatus(r) \/ ReadRound(r)
             \/ BeginPreflight \/ EndPreflight \/ FailPreflight
             \/ SubmitFailed \/ ReturnSuccess
             \/ UNCHANGED allVars
    <3>1. UNCHANGED vars
      BY <2>3 DEF BeginRead, StoreRead, FailRead, Expire, ReadStatus, ReadRound,
         BeginPreflight, EndPreflight, FailPreflight, SubmitFailed,
         ReturnSuccess, allVars
    <3> QED
      BY <3>1 DEF vars, tokenVars
  <2> QED
    BY <1>2, <2>1, <2>2, <2>3 DEF ClientNext
<1>3. NobodyFrozen /\ [ClientNext]_allVars => NobodyFrozen'
  BY <1>2 DEF NobodyFrozen
<1> QED
  BY <1>1, <1>3, PTL DEF ClientSpec

\* The gates over the contract as it is, in terms of the contract.
LEMMA GatesOverContract ==
  ASSUME IndInv, NEW m \in MemberSet
  PROVE  /\ gateJoin(Snapshot, Options(m)) = "allowed" <=>
              status = "Pending" /\ ~(collateral[m] > 0)
         /\ gateContribute(Snapshot, Options(m)) = "allowed" <=>
              /\ status = "Active" /\ ~deadline_passed
              /\ m \notin contributed[round.round_index]
         /\ gatePayout(Snapshot, Options(m)) = "allowed" <=>
              status = "Active" /\ ~(round.contributions_received < N)
         /\ gateDefault(Snapshot, Options(m)) = "allowed" <=>
              /\ status = "Active" /\ deadline_passed
              /\ m \notin contributed[round.round_index]
         /\ gateClose(Snapshot, Options(m)) = "allowed" <=>
              status \in {"Completed", "Cancelled"}
<1> DEFINE s == Snapshot
           o == Options(m)
<1>1. /\ s.members = members /\ s.fresh /\ s.latestLedger = ledger
      /\ s.status = get_status /\ s.currentRound = get_current_round
      /\ o.memberAddress = m
      /\ o.hasLockedCollateral <=> collateral[m] > 0
      /\ o.hasContributed <=> m \in contributed[round.round_index]
  BY DEF Snapshot, Options
<1>2. /\ round.round_index \in Nat /\ ledger \in Nat
      /\ round.deadline_ledger \in Nat /\ N \in Nat
  BY RotationFacts DEF IndInv, TypeOK, RoundState
<1>3. NoRound.round_index = Null /\ ~(Null \in Nat)
  BY DEF NoRound, Null
<1>4. round # NoRound /\ ledger # Null
  BY <1>2, <1>3
<1>5. /\ status = "Uninitialized" => get_status = "none"
      /\ status # "Uninitialized" => get_status = status
      /\ status \in {"Pending", "Active"} => get_current_round = round
  BY DEF get_status, get_current_round
<1>6. /\ get_status = "Pending" <=> status = "Pending"
      /\ get_status = "Active" <=> status = "Active"
      /\ get_status \in {"Completed", "Cancelled"}
           <=> status \in {"Completed", "Cancelled"}
      /\ get_status = "Active" => get_current_round = round
  BY <1>5
<1> HIDE DEF s, o
<1>7. gateJoin(s, o) = "allowed" <=> status = "Pending" /\ ~(collateral[m] > 0)
  BY <1>1, <1>6, GateFacts
<1>8. gateContribute(s, o) = "allowed" <=>
        /\ status = "Active" /\ ~deadline_passed
        /\ m \notin contributed[round.round_index]
  BY <1>1, <1>4, <1>6, GateFacts DEF deadline_passed
<1>9. gatePayout(s, o) = "allowed" <=>
        status = "Active" /\ ~(round.contributions_received < N)
  BY <1>1, <1>4, <1>6, GateFacts
<1>10. gateDefault(s, o) = "allowed" <=>
         /\ status = "Active" /\ deadline_passed
         /\ m \notin contributed[round.round_index]
  <2>1. ~(ledger = Null \/ ledger <= round.deadline_ledger) <=> deadline_passed
    BY <1>2, <1>4 DEF deadline_passed
  <2> QED
    BY <1>1, <1>4, <1>6, <2>1, GateFacts
<1>11. gateClose(s, o) = "allowed" <=> status \in {"Completed", "Cancelled"}
  BY <1>1, <1>6, GateFacts
<1> QED
  BY <1>7, <1>8, <1>9, <1>10, <1>11 DEF s, o

\* The gates (gating.ts) and the contract (lib.rs) agree: neither a button that
\* can only fail, nor an action withheld from a member whom the contract would
\* serve, in any state that the contract can reach.
THEOREM GatesHold == ClientSpec => []GatesAgree
<1>1. ASSUME IndInv, PenaltyLedger, ClosedIsOver, NobodyFrozen PROVE GatesAgree
  <2> SUFFICES ASSUME NEW m \in MemberSet
               PROVE
        LET Gate(action) == computeActionEligibility(action, Snapshot, Options(m))
        IN  /\ BlocksNothingAcceptable(m, Gate)
            /\ m \in Callers /\ ~paused => AllowsOnlyAcceptable(m, Gate)
    BY DEF GatesAgree
  <2> DEFINE Open(action) ==
        computeActionEligibility(action, Snapshot, Options(m)) = "allowed"
  <2>1. /\ Open("join") <=> status = "Pending" /\ ~(collateral[m] > 0)
        /\ Open("contribute") <=>
             /\ status = "Active" /\ ~deadline_passed
             /\ m \notin contributed[round.round_index]
        /\ Open("payout") <=>
             status = "Active" /\ ~(round.contributions_received < N)
        /\ Open("default") <=>
             /\ status = "Active" /\ deadline_passed
             /\ m \notin contributed[round.round_index]
        /\ Open("close") <=> status \in {"Completed", "Cancelled"}
    BY <1>1, GatesOverContract DEF computeActionEligibility
  <2>2. m \notin joined => ~(collateral[m] > 0)
    BY <1>1 DEF IndInv, RecordsInOrder
  <2>3. m \in joined /\ status = "Pending" => collateral[m] > 0
    BY <1>1 DEF PenaltyLedger, ClosedIsOver
  <2>4. round.contributions_received < N \/ round.contributions_received = N
    <3>1. contributed[round.round_index] \subseteq MemberSet
      BY <1>1 DEF IndInv, TypeOK, RoundState
    <3>2. Cardinality(contributed[round.round_index]) <= N
      BY <3>1, MembersFinite, FS_Subset
    <3>3. round.contributions_received \in Nat /\ N \in Nat
      BY <1>1, RotationFacts DEF IndInv, TypeOK, RoundState
    <3> QED
      BY <1>1, <3>2, <3>3 DEF IndInv, TallyMatchesRecords
  <2>5. N \in Nat
    BY RotationFacts
  <2>6. /\ Accepts("join", m) => Open("join")
        /\ Accepts("contribute", m) => Open("contribute")
        /\ Accepts("payout", m) => Open("payout")
        /\ Accepts("default", m) => Open("default")
        /\ Accepts("close", m) => Open("close")
    BY <1>1, <2>1, <2>2, <2>3, <2>4, <2>5, AcceptanceIs DEF NobodyFrozen
  <2>7. m \in Callers /\ ~paused =>
          /\ Open("join") /\ wallet[m] >= CollateralDue => Accepts("join", m)
          /\ Open("contribute") /\ wallet[m] >= round_amount
               => Accepts("contribute", m)
          /\ Open("payout") /\ registration = "authorized" => Accepts("payout", m)
          /\ Open("default") /\ m \in Delinquent => Accepts("default", m)
          /\ Open("close") /\ ~closed => Accepts("close", m)
    BY <1>1, <2>1, <2>2, <2>3, <2>4, <2>5, AcceptanceIs DEF NobodyFrozen, Delinquent
  <2> QED
    BY <2>6, <2>7 DEF BlocksNothingAcceptable, AllowsOnlyAcceptable
<1>2. Spec => []ClosedIsOver
  BY NobodyIsOverlooked, PTL
<1> QED
  BY <1>1, <1>2, ClientKeepsCircle, Invariance, LedgerOfPenalties,
     NobodyFrozenAlways, PTL

-----------------------------------------------------------------------------
(* The write path (module Submission).  One envelope, and what is held of it. *)

\* Nothing is held of an envelope and the chain has not settled it.
Untouched(e) == e \notin pool /\ e \notin flight /\ fate[e] = "open"

\* The chain will not include it any more.
Dead(e) == fate[e] = "open" /\ (Untouched(e) \/ now >= envelope[e].validUntil)

\* A call is made before anything else happens to its envelope.
BeyondIsUntouched ==
  \A e \in Envelope : e[2] > calls[e[1]] => Untouched(e) /\ known[e] = "open"

IdleIsFirst == \A w \in Writes : pc[w] = "idle" <=> calls[w] = 0

\* Until a send that may have arrived, nothing is out.
UnsentIsUntouched ==
  \A w \in Writes :
    pc[w] = "load" \/ (pc[w] = "sending" /\ ~priorAmbiguous[w]) => Untouched(Current(w))

PendingIsOpen ==
  \A w \in Writes : pc[w] \in {"load", "sending", "polling"} => known[Current(w)] = "open"

\* The caller learns nothing but what happened, or what can no longer happen.
KnownIsTrue ==
  \A e \in Envelope :
    /\ known[e] \in {"success", "failed"} => fate[e] = known[e]
    /\ known[e] = "never" => Dead(e)

\* A further call is made only after one without effect.
EarlierIsIneffective ==
  \A e \in Envelope : e[2] < calls[e[1]] => known[e] \in {"failed", "never"}

\* What was included was included before its time bound.
IncludedInTime ==
  \A e \in Envelope : fate[e] # "open" => included[e] <= envelope[e].validUntil

SubmitInv ==
  /\ SubmitTypeOK
  /\ BeyondIsUntouched /\ IdleIsFirst /\ UnsentIsUntouched /\ PendingIsOpen
  /\ KnownIsTrue /\ EarlierIsIneffective /\ IncludedInTime

-----------------------------------------------------------------------------
(* Type correctness.                                                       *)

\* A caller's current attempt is an envelope of its write.
LEMMA CurrentIsEnvelope ==
  ASSUME SubmitTypeOK, NEW w \in Writes, calls[w] # 0
  PROVE  /\ Current(w) \in Envelope
         /\ Current(w)[1] = w /\ Current(w)[2] = calls[w]
<1>1. calls[w] \in 0..MaxCalls
  BY Zenon DEF SubmitTypeOK
<1>2. calls[w] \in 1..MaxCalls
  BY <1>1, SubmissionAssumption
<1> QED
  BY <1>2 DEF Envelope, Current

\* The state of a poll that has not begun.
LEMMA NotPollingType == NotPolling \in PollState
BY SubmissionAssumption DEF NotPolling, PollState, STALE_LEDGER_POLLS

\* The types hold before any call.
LEMMA SubmitTypeInit == SubmitInit => SubmitTypeOK
<1> SUFFICES ASSUME SubmitInit PROVE SubmitTypeOK
  OBVIOUS
<1>1. /\ now \in 1..MaxTime /\ view \in 1..now
      /\ sequence \in 0..MaxSequence /\ viewSequence \in 0..sequence
  <2>1. now = 1 /\ view = 1 /\ sequence = 0 /\ viewSequence = 0
    BY DEF SubmitInit
  <2> QED
    BY <2>1, SubmissionAssumption
<1>2. pool \in SUBSET Envelope /\ flight \in SUBSET Envelope
  BY DEF SubmitInit
<1>3. /\ fate \in [Envelope -> {"open", "success", "failed"}]
      /\ known \in [Envelope -> {"open", "success", "failed", "never"}]
      /\ told \in [Envelope -> Codes \cup {""}]
  BY DEF SubmitInit
<1>0. 0 \in 0..MaxTime /\ 0 \in 0..MaxCalls /\ 1 \in 1..SEND_MAX_ATTEMPTS
  BY SubmissionAssumption DEF SEND_MAX_ATTEMPTS
<1>4. included \in [Envelope -> 0..MaxTime]
  BY <1>0 DEF SubmitInit
<1>5. envelope \in [Envelope -> [sequence : 0..(MaxSequence + 1), validUntil : 0..MaxTime]]
  <2>1. [sequence |-> 0, validUntil |-> 0] \in
          [sequence : 0..(MaxSequence + 1), validUntil : 0..MaxTime]
    BY SubmissionAssumption
  <2> QED
    BY <2>1 DEF SubmitInit
<1>6. calls \in [Writes -> 0..MaxCalls]
  BY <1>0 DEF SubmitInit
<1>7. attempt \in [Writes -> 1..SEND_MAX_ATTEMPTS]
  BY <1>0 DEF SubmitInit
<1>8. poll \in [Writes -> PollState]
  BY NotPollingType DEF SubmitInit
<1>9. /\ pc \in [Writes -> {"idle", "load", "sending", "polling", "told"}]
      /\ priorAmbiguous \in [Writes -> BOOLEAN]
  BY DEF SubmitInit
<1> QED
  BY <1>1, <1>2, <1>3, <1>4, <1>5, <1>6, <1>7, <1>8, <1>9, Zenon DEF SubmitTypeOK

\* The end of a call keeps the variables of SDK and caller well typed.
LEMMA TellType ==
  ASSUME SubmitTypeOK, NEW w \in Writes, calls[w] # 0, NEW code \in Codes, Tell(w, code)
  PROVE  /\ pc' \in [Writes -> {"idle", "load", "sending", "polling", "told"}]
         /\ told' \in [Envelope -> Codes \cup {""}]
         /\ known' \in [Envelope -> {"open", "success", "failed", "never"}]
         /\ attempt' \in [Writes -> 1..SEND_MAX_ATTEMPTS]
         /\ priorAmbiguous' \in [Writes -> BOOLEAN]
         /\ poll' \in [Writes -> PollState]
<1>1. NotPolling \in PollState
  BY NotPollingType
<1>2. Verdict(code) \in {"open", "success", "failed", "never"}
  BY DEF Verdict
<1>3. 1 \in 1..SEND_MAX_ATTEMPTS
  BY DEF SEND_MAX_ATTEMPTS
<1> QED
  BY <1>1, <1>2, <1>3, CurrentIsEnvelope DEF Tell, SubmitTypeOK

\* So does the beginning of the polling.
LEMMA AwaitType ==
  ASSUME SubmitTypeOK, NEW w \in Writes, NEW submission \in {"accepted", "unknown"},
         NEW ifNever \in {"tx_expired", "tx_rejected", "try_again_later"},
         NEW last \in 0..MaxTime, Await(w, submission, ifNever, last)
  PROVE  /\ pc' \in [Writes -> {"idle", "load", "sending", "polling", "told"}]
         /\ told' \in [Envelope -> Codes \cup {""}]
         /\ known' \in [Envelope -> {"open", "success", "failed", "never"}]
         /\ attempt' \in [Writes -> 1..SEND_MAX_ATTEMPTS]
         /\ priorAmbiguous' \in [Writes -> BOOLEAN]
         /\ poll' \in [Writes -> PollState]
<1>1. [NotPolling EXCEPT !.submission = submission, !.ifNeverApplied = ifNever,
                         !.lastLedger = last] \in PollState
  BY NotPollingType DEF PollState
<1>2. 1 \in 1..SEND_MAX_ATTEMPTS
  BY DEF SEND_MAX_ATTEMPTS
<1> QED
  BY <1>1, <1>2 DEF Await, SubmitTypeOK, callerVars

\* The SDK's and the caller's part of the type invariant.
SdkTypeOK ==
  /\ pc \in [Writes -> {"idle", "load", "sending", "polling", "told"}]
  /\ attempt \in [Writes -> 1..SEND_MAX_ATTEMPTS]
  /\ priorAmbiguous \in [Writes -> BOOLEAN]
  /\ poll \in [Writes -> PollState]
  /\ told \in [Envelope -> Codes \cup {""}]
  /\ known \in [Envelope -> {"open", "success", "failed", "never"}]

\* A step of the SDK disturbs nothing of the chain but pool and flight.
LEMMA SdkStepType ==
  ASSUME SubmitTypeOK, SdkTypeOK', pool' \in SUBSET Envelope, flight' \in SUBSET Envelope,
         UNCHANGED <<now, sequence, fate, included, viewVars, calls, envelope>>
  PROVE  SubmitTypeOK'
BY DEF SubmitTypeOK, SdkTypeOK, viewVars

-----------------------------------------------------------------------------
(* The steps of the SDK between the signature and the result code.         *)

\* A call ends, and what its code says is so.
Settles(w) ==
  \E code \in Codes :
    /\ Tell(w, code) /\ UNCHANGED <<pool, flight>>
    /\ Verdict(code) \in {"success", "failed"} => fate[Current(w)] = Verdict(code)
    /\ Verdict(code) = "never" => Dead(Current(w))

\* It begins to poll.
Awaits(w) ==
  \E submission \in {"accepted", "unknown"},
     ifNever \in {"tx_expired", "tx_rejected", "try_again_later"}, last \in 0..MaxTime :
    Await(w, submission, ifNever, last)

\* It goes on; a copy left behind is remembered.
Continues(w) ==
  /\ pc[w] # "load" /\ UNCHANGED <<pc, callerVars>>
  /\ attempt' \in [Writes -> 1..SEND_MAX_ATTEMPTS]
  /\ priorAmbiguous' \in [Writes -> BOOLEAN]
  /\ poll' \in [Writes -> PollState]
  /\ \A v \in Writes : v # w => priorAmbiguous'[v] = priorAmbiguous[v]
  /\ pc[w] = "sending" /\ ~priorAmbiguous'[w]
       => ~priorAmbiguous[w] /\ UNCHANGED <<pool, flight>>

CallShape(w) ==
  /\ pc[w] \in {"load", "sending", "polling"}
  /\ UNCHANGED <<now, sequence, fate, included, viewVars, calls, envelope>>
  /\ pool' \in SUBSET (pool \cup {Current(w)})
  /\ flight' \in SUBSET (flight \cup {Current(w)})
  /\ pool \subseteq pool' /\ flight \subseteq flight'
  /\ Settles(w) \/ Awaits(w) \/ Continues(w)

CallStep(w) ==
  \/ \E code \in UnsentCodes : FailUnsent(w, code)
  \/ SendStep(w) \/ PollStep(w) \/ PollTimeout(w)

\* What each group of codes says of an attempt: it will never be applied,
LEMMA VerdictOfNever ==
  \A code \in NeverCodes : code \in Codes /\ Verdict(code) = "never"
BY DEF Codes, NeverCodes, UnsentCodes, RetryableCodes, Verdict

\* it may still be,
LEMMA VerdictOfOpen ==
  \A code \in OpenCodes : code \in Codes /\ Verdict(code) = "open"
BY DEF Codes, NeverCodes, UnsentCodes, RetryableCodes, OpenCodes, Verdict

\* it has been found.
LEMMA VerdictOfFound ==
  /\ "success" \in Codes /\ Verdict("success") = "success"
  /\ "tx_failed" \in Codes /\ Verdict("tx_failed") = "failed"
BY DEF Codes, NeverCodes, UnsentCodes, RetryableCodes, Verdict

\* Not found in a ledger past the time bound is final.
LEMMA ExpiredIsDead ==
  ASSUME SubmitInv, NEW e \in Envelope, ~Found(e), view > envelope[e].validUntil
  PROVE  Dead(e)
<1>1. view \in 1..now /\ now \in 1..MaxTime /\ MaxTime \in Nat
  BY SubmissionAssumption DEF SubmitInv, SubmitTypeOK
<1>2. included[e] \in 0..MaxTime /\ envelope[e].validUntil \in 0..MaxTime
  BY DEF SubmitInv, SubmitTypeOK
<1>3. fate[e] = "open"
  BY <1>1, <1>2 DEF SubmitInv, IncludedInTime, Found
<1> QED
  BY <1>1, <1>2, <1>3 DEF Dead

\* The parts of a failed send: a code "network_error" is told only of an
\* envelope of which nothing is out.
LEMMA SendFailedShape ==
  ASSUME SubmitInv, NEW w \in Writes, pc[w] = "sending",
         NEW ambiguous \in BOOLEAN, NEW transient \in BOOLEAN,
         SendFailed(w, ambiguous, transient), ambiguous \/ UNCHANGED <<pool, flight>>
  PROVE  Settles(w) \/ Awaits(w) \/ Continues(w)
<1>1. /\ attempt \in [Writes -> 1..SEND_MAX_ATTEMPTS]
      /\ priorAmbiguous \in [Writes -> BOOLEAN] /\ poll \in [Writes -> PollState]
  BY Zenon DEF SubmitInv, SubmitTypeOK
<1>2. CASE /\ transient /\ attempt[w] < SEND_MAX_ATTEMPTS
           /\ attempt' = [attempt EXCEPT ![w] = @ + 1]
           /\ priorAmbiguous' = [priorAmbiguous EXCEPT ![w] = priorAmbiguous[w] \/ ambiguous]
           /\ UNCHANGED <<pc, poll, callerVars>>
  <2>1. attempt[w] + 1 \in 1..SEND_MAX_ATTEMPTS
    BY <1>1, <1>2 DEF SEND_MAX_ATTEMPTS
  <2>2. attempt' \in [Writes -> 1..SEND_MAX_ATTEMPTS]
    BY <1>1, <1>2, <2>1
  <2>3. priorAmbiguous' \in [Writes -> BOOLEAN]
    BY <1>1, <1>2, Zenon
  <2>4. /\ \A v \in Writes : v # w => priorAmbiguous'[v] = priorAmbiguous[v]
        /\ priorAmbiguous'[w] = (priorAmbiguous[w] \/ ambiguous)
    BY <1>1, <1>2, Zenon
  <2> QED
    BY <1>1, <1>2, <2>2, <2>3, <2>4, Zenon DEF Continues
<1>3. CASE Await(w, "unknown", "tx_expired", 0)
  <2>1. 0 \in 0..MaxTime
    BY SubmissionAssumption
  <2> QED
    BY <1>3, <2>1 DEF Awaits
<1>4. CASE ~(priorAmbiguous[w] \/ ambiguous) /\ Tell(w, "network_error")
  <2>1. "network_error" \in NeverCodes
    BY DEF NeverCodes, UnsentCodes
  <2>2. Dead(Current(w))
    BY <1>4 DEF SubmitInv, UnsentIsUntouched, Dead, Untouched
  <2> QED
    BY <1>4, <2>1, <2>2, VerdictOfNever DEF Settles
<1> QED
  BY <1>2, <1>3, <1>4, Zenon DEF SendFailed

\* A poll goes on.
LEMMA PollShape ==
  ASSUME SubmitInv, NEW w \in Writes, NEW state \in PollState, Poll(w, state), pc[w] = "polling"
  PROVE  Continues(w)
<1>1. /\ attempt \in [Writes -> 1..SEND_MAX_ATTEMPTS]
      /\ priorAmbiguous \in [Writes -> BOOLEAN] /\ poll \in [Writes -> PollState]
  BY Zenon DEF SubmitInv, SubmitTypeOK
<1> QED
  BY <1>1 DEF Poll, Continues

\* Every step of a call has that shape.
LEMMA CallStepShape ==
  ASSUME SubmitInv, NEW w \in Writes, CallStep(w)
  PROVE  CallShape(w)
<1> DEFINE e == Current(w)
<1>0. pc[w] \in {"load", "sending", "polling"}
  BY DEF CallStep, FailUnsent, SendStep, PollStep, SendAccepted, SendRefused,
         SendUnreached, SendLost, PollError, PollFound, PollExpired, PollNotFound,
         PollTimeout
<1>1. calls[w] # 0
  BY <1>0 DEF SubmitInv, IdleIsFirst
<1>2. e \in Envelope
  BY <1>1, CurrentIsEnvelope DEF SubmitInv
<1>3. poll[w] \in PollState
  BY Zenon DEF SubmitInv, SubmitTypeOK
<1>4. view \in 0..MaxTime
  <2>1. view \in 1..now /\ now \in 1..MaxTime /\ MaxTime \in Nat
    BY SubmissionAssumption DEF SubmitInv, SubmitTypeOK
  <2> QED
    BY <2>1
<1> HIDE DEF e
<1> USE <1>0, <1>2 DEF chainVars, CallShape, e
<1>5. ASSUME NEW code \in UnsentCodes, FailUnsent(w, code) PROVE CallShape(w)
  <2>1. code \in NeverCodes
    BY <1>5 DEF NeverCodes
  <2>2. Dead(e)
    BY <1>5 DEF FailUnsent, SubmitInv, UnsentIsUntouched, Dead, Untouched
  <2> QED
    BY <1>5, <2>1, <2>2, VerdictOfNever DEF FailUnsent, Settles
<1>6. CASE SendAccepted(w)
  BY <1>4, <1>6 DEF SendAccepted, Awaits
<1>7. ASSUME NEW code \in {"tx_rejected", "try_again_later"}, SendRefused(w, code)
      PROVE  CallShape(w)
  <2>1. CASE priorAmbiguous[w]
    <3>1. 0 \in 0..MaxTime
      BY SubmissionAssumption
    <3> QED
      BY <1>7, <2>1, <3>1 DEF SendRefused, Awaits
  <2>2. CASE ~priorAmbiguous[w]
    <3>1. code \in NeverCodes
      BY <1>7 DEF NeverCodes, RetryableCodes
    <3>2. Dead(e)
      BY <1>7, <2>2 DEF SendRefused, SubmitInv, UnsentIsUntouched, Dead, Untouched
    <3> QED
      BY <1>7, <2>2, <3>1, <3>2, VerdictOfNever DEF SendRefused, Settles
  <2> QED
    BY <2>1, <2>2
<1>8. ASSUME NEW transient \in BOOLEAN, SendUnreached(w, transient) PROVE CallShape(w)
  BY <1>8, SendFailedShape DEF SendUnreached
<1>9. ASSUME NEW transient \in BOOLEAN, SendLost(w, transient) PROVE CallShape(w)
  <2>1. Settles(w) \/ Awaits(w) \/ Continues(w)
    BY <1>9, SendFailedShape DEF SendLost
  <2> QED
    BY <1>9, <2>1 DEF SendLost, MaybeDelivered
<1>10. CASE PollError(w)
  <2>1. CASE Tell(w, "outcome_unknown")
    <3>1. "outcome_unknown" \in OpenCodes
      BY DEF OpenCodes
    <3> QED
      BY <1>10, <2>1, <3>1, VerdictOfOpen DEF PollError, Settles
  <2>2. CASE ~(poll[w].consecutiveErrors + 1 >= maxConsecutiveErrors)
    <3>1. [poll[w] EXCEPT !.consecutiveErrors = poll[w].consecutiveErrors + 1,
                          !.polled = TRUE] \in PollState
      <4>1. poll[w].consecutiveErrors + 1 \in 0..maxConsecutiveErrors
        BY <1>3, <2>2, SubmissionAssumption DEF PollState
      <4> QED
        BY <1>3, <4>1 DEF PollState
    <3> QED
      BY <1>10, <2>2, <3>1, PollShape DEF PollError
  <2> QED
    BY <1>10, <2>1, <2>2 DEF PollError
<1>11. CASE PollFound(w)
  <2>1. fate[e] \in {"success", "failed"}
    BY <1>11 DEF PollFound, Found, SubmitInv, SubmitTypeOK
  <2>2. CASE fate[e] = "success"
    <3>1. Tell(w, "success")
      BY <1>11, <2>2 DEF PollFound
    <3> QED
      BY <1>11, <2>2, <3>1, VerdictOfFound DEF PollFound, Settles
  <2>3. CASE fate[e] = "failed"
    <3>1. Tell(w, "tx_failed")
      BY <1>11, <2>3 DEF PollFound
    <3> QED
      BY <1>11, <2>3, <3>1, VerdictOfFound DEF PollFound, Settles
  <2> QED
    BY <2>1, <2>2, <2>3
<1>12. CASE PollExpired(w)
  <2>1. poll[w].ifNeverApplied \in NeverCodes
    BY <1>3 DEF PollState, NeverCodes, RetryableCodes
  <2>2. Dead(e)
    BY <1>12, ExpiredIsDead DEF PollExpired
  <2> QED
    BY <1>12, <2>1, <2>2, VerdictOfNever DEF PollExpired, Settles
<1>13. CASE PollNotFound(w)
  <2> DEFINE unchanged == IF view = poll[w].lastLedger
                            THEN poll[w].unchangedLedgerPolls + 1 ELSE 0
  <2>1. CASE Tell(w, "stale_rpc")
    <3>1. "stale_rpc" \in OpenCodes
      BY DEF OpenCodes
    <3> QED
      BY <1>13, <2>1, <3>1, VerdictOfOpen DEF PollNotFound, Settles
  <2>2. CASE ~(unchanged >= STALE_LEDGER_POLLS)
    <3>1. unchanged \in 0..STALE_LEDGER_POLLS
      BY <1>3, <2>2 DEF PollState, STALE_LEDGER_POLLS
    <3> HIDE DEF unchanged
    <3>2. 0 \in 0..maxConsecutiveErrors
      BY SubmissionAssumption
    <3>3. [poll[w] EXCEPT !.consecutiveErrors = 0, !.polled = TRUE, !.lastLedger = view,
                          !.unchangedLedgerPolls = unchanged] \in PollState
      BY <1>3, <1>4, <3>1, <3>2 DEF PollState
    <3> QED
      BY <1>13, <2>2, <3>3, PollShape DEF PollNotFound, unchanged
  <2> QED
    BY <1>13, <2>1, <2>2 DEF PollNotFound
<1>14. CASE PollTimeout(w)
  <2>1. "outcome_unknown" \in OpenCodes /\ "timeout" \in OpenCodes
    BY DEF OpenCodes
  <2> QED
    BY <1>14, <2>1, VerdictOfOpen DEF PollTimeout, Settles
<1> QED
  BY <1>5, <1>6, <1>7, <1>8, <1>9, <1>10, <1>11, <1>12, <1>13, <1>14
     DEF CallStep, SendStep, PollStep

-----------------------------------------------------------------------------
(* The invariant is inductive.                                             *)

\* The invariant holds before any call.
LEMMA SubmitInvInit == SubmitInit => SubmitInv
<1> SUFFICES ASSUME SubmitInit PROVE SubmitInv
  OBVIOUS
<1>1. SubmitTypeOK
  BY SubmitTypeInit
<1>2. /\ pool = {} /\ flight = {} /\ fate = [e \in Envelope |-> "open"]
      /\ known = [e \in Envelope |-> "open"] /\ calls = [w \in Writes |-> 0]
      /\ pc = [w \in Writes |-> "idle"]
  BY DEF SubmitInit
<1>3. BeyondIsUntouched /\ IdleIsFirst /\ UnsentIsUntouched /\ PendingIsOpen
  BY <1>2 DEF BeyondIsUntouched, IdleIsFirst, UnsentIsUntouched, PendingIsOpen, Untouched
<1>4. KnownIsTrue /\ IncludedInTime
  BY <1>2 DEF KnownIsTrue, IncludedInTime
<1>5. EarlierIsIneffective
  <2> SUFFICES ASSUME NEW e \in Envelope, e[2] < calls[e[1]] PROVE FALSE
    BY DEF EarlierIsIneffective
  <2>1. e[1] \in Writes /\ e[2] \in 1..MaxCalls
    BY DEF Envelope
  <2> QED
    BY <1>2, <2>1
<1> QED
  BY <1>1, <1>3, <1>4, <1>5 DEF SubmitInv

\* The steps of a call keep its types.
LEMMA CallTypes ==
  ASSUME SubmitInv, NEW w \in Writes, CallShape(w)
  PROVE  SubmitTypeOK' /\ IdleIsFirst'
<1>1. calls[w] # 0
  BY DEF CallShape, SubmitInv, IdleIsFirst
<1>2. /\ pc \in [Writes -> {"idle", "load", "sending", "polling", "told"}]
      /\ calls' = calls /\ SubmitTypeOK
  BY DEF SubmitInv, SubmitTypeOK, CallShape
<1>3. Current(w) \in Envelope
  BY <1>1, <1>2, CurrentIsEnvelope
<1>4. /\ pool' \in SUBSET Envelope /\ flight' \in SUBSET Envelope
      /\ UNCHANGED <<now, sequence, fate, included, viewVars, calls, envelope>>
  BY <1>2, <1>3 DEF CallShape, SubmitTypeOK
<1>5. CASE Settles(w)
  <2>1. SdkTypeOK'
    BY <1>1, <1>2, <1>5, TellType DEF SdkTypeOK, Settles
  <2>2. \A v \in Writes : v # w => pc'[v] = pc[v]
    BY <1>2, <1>5 DEF Tell, Settles
  <2>3. pc'[w] = "told"
    BY <1>2, <1>5 DEF Tell, Settles
  <2> QED
    BY <1>1, <1>2, <1>4, <2>1, <2>2, <2>3, SdkStepType DEF IdleIsFirst, SubmitInv
<1>6. CASE Awaits(w)
  <2>1. SdkTypeOK'
    BY <1>2, <1>6, AwaitType DEF SdkTypeOK, Awaits
  <2>2. \A v \in Writes : v # w => pc'[v] = pc[v]
    BY <1>2, <1>6 DEF Await, Awaits
  <2>3. pc'[w] = "polling"
    BY <1>2, <1>6 DEF Await, Awaits
  <2> QED
    BY <1>1, <1>2, <1>4, <2>1, <2>2, <2>3, SdkStepType DEF IdleIsFirst, SubmitInv
<1>7. CASE Continues(w)
  <2>1. SdkTypeOK'
    BY <1>2, <1>7 DEF SdkTypeOK, SubmitTypeOK, callerVars, Continues
  <2> QED
    BY <1>2, <1>4, <1>7, <2>1, SdkStepType DEF IdleIsFirst, SubmitInv, Continues
<1> QED
  BY <1>5, <1>6, <1>7 DEF CallShape

\* A call that goes on with nothing known to be out has left nothing.
LEMMA GoesOnIsUntouched ==
  ASSUME SubmitInv, NEW w \in Writes, CallShape(w), Continues(w),
         pc'[w] = "load" \/ (pc'[w] = "sending" /\ ~priorAmbiguous'[w])
  PROVE  Untouched(Current(w))'
<1>1. /\ pc[w] = "sending" /\ ~priorAmbiguous[w] /\ UNCHANGED <<pool, flight>>
      /\ fate' = fate /\ calls' = calls
  BY DEF Continues, CallShape
<1>2. Untouched(Current(w))
  BY <1>1 DEF SubmitInv, UnsentIsUntouched
<1> QED
  BY <1>1, <1>2 DEF Untouched, Current

\* And the rest of the invariant.
LEMMA CallKeepsInv ==
  ASSUME SubmitInv, NEW w \in Writes, CallShape(w)
  PROVE  SubmitInv'
<1> DEFINE c == Current(w)
<1>1. calls[w] # 0
  BY DEF CallShape, SubmitInv, IdleIsFirst
<1>2. /\ c \in Envelope /\ c[1] = w /\ c[2] = calls[w] /\ known[c] = "open"
      /\ \A v \in Writes : v # w => Current(v) # c
  <2>1. known[c] = "open"
    BY DEF CallShape, SubmitInv, PendingIsOpen
  <2> QED
    BY <1>1, <2>1, CurrentIsEnvelope DEF SubmitInv, Current
<1>3. /\ UNCHANGED <<now, fate, included, calls, envelope>>
      /\ \A v \in Writes : Current(v)' = Current(v)
      /\ \A e \in Envelope : e # c => (e \in pool' <=> e \in pool) /\ (e \in flight' <=> e \in flight)
  BY DEF CallShape, Current
<1>4. \A e \in Envelope : e # c => /\ Untouched(e)' <=> Untouched(e)
                                  /\ Dead(e)' <=> Dead(e)
  BY <1>3 DEF Untouched, Dead
<1>0. c' = c
  BY <1>3
<1>5. /\ pc \in [Writes -> {"idle", "load", "sending", "polling", "told"}]
      /\ known \in [Envelope -> {"open", "success", "failed", "never"}]
      /\ priorAmbiguous \in [Writes -> BOOLEAN] /\ calls \in [Writes -> 0..MaxCalls]
  BY Zenon DEF SubmitInv, SubmitTypeOK
<1> HIDE DEF c
<1>6. /\ \A e \in Envelope : e # c => known'[e] = known[e]
      /\ \A v \in Writes : v # w => pc'[v] = pc[v]
      /\ \A v \in Writes : v # w => priorAmbiguous'[v] = priorAmbiguous[v]
  <2>1. CASE Settles(w)
    BY <1>2, <1>5, <2>1 DEF Settles, Tell, c
  <2>2. CASE Awaits(w)
    BY <1>5, <2>2 DEF Awaits, Await, callerVars
  <2>3. CASE Continues(w)
    BY <2>3 DEF Continues, callerVars
  <2> QED
    BY <2>1, <2>2, <2>3 DEF CallShape
<1>7. SubmitTypeOK' /\ IdleIsFirst'
  BY CallTypes
<1>8. BeyondIsUntouched'
  <2> SUFFICES ASSUME NEW e \in Envelope, e[2] > calls[e[1]]
               PROVE  Untouched(e)' /\ known'[e] = "open"
    BY <1>3 DEF BeyondIsUntouched
  <2>1. e # c
    BY <1>2, <1>5
  <2> QED
    BY <1>3, <1>6, <2>1 DEF SubmitInv, BeyondIsUntouched, Untouched
<1>9. UnsentIsUntouched'
  <2> SUFFICES ASSUME NEW v \in Writes,
                      pc'[v] = "load" \/ (pc'[v] = "sending" /\ ~priorAmbiguous'[v])
               PROVE  Untouched(Current(v))'
    BY DEF UnsentIsUntouched
  <2>1. CASE v # w
    <3>1. pc[v] = "load" \/ (pc[v] = "sending" /\ ~priorAmbiguous[v])
      BY <1>6, <2>1
    <3>2. Untouched(Current(v)) /\ Current(v) # c /\ Current(v)' = Current(v)
      BY <1>2, <1>3, <2>1, <3>1 DEF SubmitInv, UnsentIsUntouched
    <3>3. Current(v) \in Envelope
      <4>1. calls[v] # 0
        BY <3>1 DEF SubmitInv, IdleIsFirst
      <4> QED
        BY <4>1, CurrentIsEnvelope DEF SubmitInv
    <3> QED
      BY <1>3, <3>2, <3>3 DEF Untouched
  <2>2. CASE v = w
    <3>1. CASE Continues(w)
      BY <1>3, <2>2, <3>1, GoesOnIsUntouched
    <3>2. CASE Settles(w)
      BY <1>5, <2>2, <3>2 DEF Settles, Tell
    <3>3. CASE Awaits(w)
      BY <1>5, <2>2, <3>3 DEF Awaits, Await
    <3> QED
      BY <3>1, <3>2, <3>3 DEF CallShape
  <2> QED
    BY <2>1, <2>2
<1>10. PendingIsOpen'
  <2> SUFFICES ASSUME NEW v \in Writes, pc'[v] \in {"load", "sending", "polling"}
               PROVE  known'[Current(v)] = "open"
    BY <1>3 DEF PendingIsOpen
  <2>1. CASE v # w
    <3>1. pc[v] \in {"load", "sending", "polling"} /\ Current(v) # c
      BY <1>2, <1>6, <2>1
    <3>2. Current(v) \in Envelope
      <4>1. calls[v] # 0
        BY <3>1 DEF SubmitInv, IdleIsFirst
      <4> QED
        BY <4>1, CurrentIsEnvelope DEF SubmitInv
    <3> QED
      BY <1>6, <3>1, <3>2 DEF SubmitInv, PendingIsOpen
  <2>2. CASE v = w
    <3>1. ~Settles(w)
      BY <1>5, <2>2 DEF Settles, Tell
    <3>2. known' = known
      BY <3>1 DEF CallShape, Awaits, Await, Continues, callerVars
    <3> QED
      BY <1>2, <2>2, <3>2 DEF c
  <2> QED
    BY <2>1, <2>2
<1>11. KnownIsTrue'
  <2> SUFFICES ASSUME NEW e \in Envelope
               PROVE  /\ known'[e] \in {"success", "failed"} => fate[e] = known'[e]
                      /\ known'[e] = "never" => Dead(e)'
    BY <1>3 DEF KnownIsTrue
  <2>1. CASE e # c
    BY <1>4, <1>6, <2>1 DEF SubmitInv, KnownIsTrue
  <2>2. CASE e = c /\ Settles(w)
    <3>1. PICK code \in Codes :
            /\ Tell(w, code) /\ UNCHANGED <<pool, flight>>
            /\ Verdict(code) \in {"success", "failed"} => fate[c] = Verdict(code)
            /\ Verdict(code) = "never" => Dead(c)
      BY <2>2 DEF Settles, c
    <3>2. known'[c] = Verdict(code)
      BY <1>2, <1>5, <3>1 DEF Tell, c
    <3>3. Dead(c)' <=> Dead(c)
      BY <1>0, <1>3, <3>1 DEF Dead, Untouched
    <3> QED
      BY <1>0, <2>2, <3>1, <3>2, <3>3 DEF Dead, Untouched
  <2>3. CASE e = c /\ ~Settles(w)
    <3>1. known' = known
      BY <2>3 DEF CallShape, Awaits, Await, Continues, callerVars
    <3> QED
      BY <1>2, <2>3, <3>1
  <2> QED
    BY <2>1, <2>2, <2>3
<1>12. EarlierIsIneffective'
  <2> SUFFICES ASSUME NEW e \in Envelope, e[2] < calls[e[1]]
               PROVE  known'[e] \in {"failed", "never"}
    BY <1>3 DEF EarlierIsIneffective
  <2>1. e # c
    BY <1>2, <1>5
  <2> QED
    BY <1>6, <2>1 DEF SubmitInv, EarlierIsIneffective
<1>13. IncludedInTime'
  BY <1>3 DEF SubmitInv, IncludedInTime
<1> QED
  BY <1>7, <1>8, <1>9, <1>10, <1>11, <1>12, <1>13 DEF SubmitInv
\* What the network settles was pending: nothing final is known of an envelope
\* that is still held and includable.
LEMMA HeldIsOpen ==
  ASSUME SubmitInv, NEW e \in Envelope, e \in pool \/ e \in flight, Includable(e)
  PROVE  known[e] = "open" /\ ~(e[2] > calls[e[1]])
<1>1. now \in 1..MaxTime /\ envelope[e].validUntil \in 0..MaxTime /\ MaxTime \in Nat
  BY SubmissionAssumption DEF SubmitInv, SubmitTypeOK
<1>2. ~Dead(e)
  BY <1>1 DEF Dead, Untouched, Includable
<1>3. known[e] \in {"open", "success", "failed", "never"}
  BY DEF SubmitInv, SubmitTypeOK
<1> QED
  BY <1>2, <1>3 DEF SubmitInv, KnownIsTrue, BeyondIsUntouched, Untouched, Includable

\* The next ledger.
LEMMA CloseLedgerKeepsInv ==
  ASSUME SubmitInv, CloseLedger
  PROVE  SubmitInv'
<1>1. /\ now \in 1..MaxTime /\ view \in 1..now /\ sequence \in 0..MaxSequence
      /\ viewSequence \in 0..sequence /\ MaxTime \in Nat /\ MaxSequence \in Nat
  BY SubmissionAssumption DEF SubmitInv, SubmitTypeOK
<1>2. /\ now' = now + 1 /\ now < MaxTime
      /\ UNCHANGED <<flight, view, viewSequence, calls, pc, envelope, attempt,
                     priorAmbiguous, poll, told, known>>
  BY DEF CloseLedger, viewVars, sendVars, callerVars
<1>3. SubmitTypeOK'
  <2>1. now' \in 1..MaxTime /\ view' \in 1..now' /\ now + 1 \in 0..MaxTime
    BY <1>1, <1>2
  <2>2. sequence' \in 0..MaxSequence /\ sequence' >= sequence
    BY <1>1 DEF CloseLedger
  <2>3. viewSequence' \in 0..sequence'
    BY <1>1, <1>2, <2>2
  <2>4. /\ fate' \in [Envelope -> {"open", "success", "failed"}]
        /\ included' \in [Envelope -> 0..MaxTime] /\ pool' \in SUBSET Envelope
    <3>1. /\ fate \in [Envelope -> {"open", "success", "failed"}]
          /\ included \in [Envelope -> 0..MaxTime] /\ pool \in SUBSET Envelope
      BY DEF SubmitInv, SubmitTypeOK
    <3>2. now + 1 \in 0..MaxTime
      BY <2>1
    <3> QED
      BY <3>1, <3>2 DEF CloseLedger
  <2>5. SdkTypeOK' /\ flight' \in SUBSET Envelope /\ calls' \in [Writes -> 0..MaxCalls]
    BY <1>2 DEF SdkTypeOK, SubmitInv, SubmitTypeOK
  <2>6. envelope' \in [Envelope -> [sequence : 0..(MaxSequence + 1),
                                    validUntil : 0..MaxTime]]
    BY <1>2 DEF SubmitInv, SubmitTypeOK
  <2> QED
    BY <2>1, <2>2, <2>3, <2>4, <2>5, <2>6, Zenon DEF SubmitTypeOK, SdkTypeOK
<1>4. IdleIsFirst' /\ PendingIsOpen' /\ EarlierIsIneffective'
  BY <1>2 DEF SubmitInv, IdleIsFirst, PendingIsOpen, EarlierIsIneffective, Current
<1>5. CASE UNCHANGED <<fate, included, pool>>
  <2>1. BeyondIsUntouched' /\ UnsentIsUntouched' /\ IncludedInTime'
    BY <1>2, <1>5 DEF SubmitInv, BeyondIsUntouched, UnsentIsUntouched, IncludedInTime,
                      Untouched, Current
  <2>2. KnownIsTrue'
    <3> SUFFICES ASSUME NEW e \in Envelope, known[e] = "never" PROVE Dead(e)'
      BY <1>2, <1>5 DEF SubmitInv, KnownIsTrue
    <3>1. Dead(e) /\ envelope[e].validUntil \in 0..MaxTime
      BY DEF SubmitInv, KnownIsTrue, SubmitTypeOK
    <3> QED
      BY <1>1, <1>2, <1>5, <3>1 DEF Dead, Untouched
  <2> QED
    BY <1>3, <1>4, <2>1, <2>2 DEF SubmitInv
<1>6. ASSUME NEW e \in pool, NEW f \in {"success", "failed"}, Includable(e),
             fate' = [fate EXCEPT ![e] = f],
             included' = [included EXCEPT ![e] = now + 1], pool' = pool \ {e}
      PROVE  SubmitInv'
  <2>1. /\ e \in Envelope /\ envelope[e].validUntil \in 0..MaxTime
        /\ fate \in [Envelope -> {"open", "success", "failed"}]
        /\ included \in [Envelope -> 0..MaxTime]
    BY DEF SubmitInv, SubmitTypeOK
  <2>2. known[e] = "open" /\ ~(e[2] > calls[e[1]]) /\ ~Untouched(e)
    BY <1>6, <2>1, HeldIsOpen DEF Untouched
  <2>3. \A x \in Envelope : x # e => fate'[x] = fate[x] /\ included'[x] = included[x]
                                     /\ (x \in pool' <=> x \in pool)
    BY <1>6, <2>1
  <2>4. BeyondIsUntouched'
    BY <1>2, <2>2, <2>3 DEF SubmitInv, BeyondIsUntouched, Untouched
  <2>5. UnsentIsUntouched'
    <3> SUFFICES ASSUME NEW w \in Writes,
                        pc[w] = "load" \/ (pc[w] = "sending" /\ ~priorAmbiguous[w])
                 PROVE  Untouched(Current(w))'
      BY <1>2 DEF UnsentIsUntouched
    <3>1. Untouched(Current(w)) /\ calls[w] # 0
      BY DEF SubmitInv, UnsentIsUntouched, IdleIsFirst
    <3>2. Current(w) \in Envelope /\ Current(w) # e /\ Current(w)' = Current(w)
      BY <1>2, <2>2, <3>1, CurrentIsEnvelope DEF SubmitInv, Current
    <3> QED
      BY <1>2, <2>3, <3>1, <3>2 DEF Untouched
  <2>6. KnownIsTrue'
    <3> SUFFICES ASSUME NEW x \in Envelope
                 PROVE  /\ known[x] \in {"success", "failed"} => fate'[x] = known[x]
                        /\ known[x] = "never" => Dead(x)'
      BY <1>2 DEF KnownIsTrue
    <3>1. CASE x = e
      BY <2>2, <3>1
    <3>2. CASE x # e
      <4>1. known[x] = "never" => Dead(x) /\ envelope[x].validUntil \in 0..MaxTime
        BY DEF SubmitInv, KnownIsTrue, SubmitTypeOK
      <4>2. fate'[x] = fate[x] /\ (x \in pool' <=> x \in pool)
        BY <2>3, <3>2
      <4>3. known[x] = "never" => Dead(x)'
        BY <1>1, <1>2, <4>1, <4>2 DEF Dead, Untouched
      <4> QED
        BY <4>2, <4>3 DEF SubmitInv, KnownIsTrue
    <3> QED
      BY <3>1, <3>2
  <2>7. IncludedInTime'
    <3> SUFFICES ASSUME NEW x \in Envelope, fate'[x] # "open"
                 PROVE  included'[x] <= envelope[x].validUntil
      BY <1>2 DEF IncludedInTime
    <3>1. CASE x = e
      <4>1. included'[e] = now + 1
        BY <1>6, <2>1
      <4>2. now < envelope[e].validUntil
        BY <1>6 DEF Includable
      <4> QED
        BY <1>1, <2>1, <3>1, <4>1, <4>2
    <3>2. CASE x # e
      BY <2>3, <3>2 DEF SubmitInv, IncludedInTime
    <3> QED
      BY <3>1, <3>2
  <2> QED
    BY <1>3, <1>4, <2>4, <2>5, <2>6, <2>7 DEF SubmitInv
<1> QED
  BY <1>5, <1>6 DEF CloseLedger

\* The other steps of network and RPC.
LEMMA NetworkKeepsInv ==
  ASSUME SubmitInv, Ingest \/ \E e \in Envelope : Evict(e) \/ Arrive(e)
  PROVE  SubmitInv'
<1>1. UNCHANGED <<now, sequence, fate, included, calls, pc, envelope, attempt,
                  priorAmbiguous, poll, told, known>>
  BY DEF Ingest, Evict, Arrive, chainVars, sendVars, callerVars
<1>2. IdleIsFirst' /\ PendingIsOpen' /\ EarlierIsIneffective' /\ IncludedInTime'
  BY <1>1 DEF SubmitInv, IdleIsFirst, PendingIsOpen, EarlierIsIneffective, IncludedInTime, Current
<1>3. CASE Ingest
  <2>1. view' = now /\ viewSequence' = sequence /\ UNCHANGED <<pool, flight>>
    BY <1>3 DEF Ingest, chainVars
  <2>2. now \in 1..now /\ sequence \in 0..sequence
    <3>1. now \in 1..MaxTime /\ sequence \in 0..MaxSequence /\ MaxSequence \in Nat
      BY SubmissionAssumption DEF SubmitInv, SubmitTypeOK
    <3> QED
      BY <3>1
  <2>3. SubmitTypeOK'
    BY <1>1, <2>1, <2>2 DEF SubmitInv, SubmitTypeOK
  <2>4. BeyondIsUntouched' /\ UnsentIsUntouched' /\ KnownIsTrue'
    BY <1>1, <2>1 DEF SubmitInv, BeyondIsUntouched, UnsentIsUntouched, KnownIsTrue, Dead,
                      Untouched, Current
  <2> QED
    BY <1>2, <2>3, <2>4 DEF SubmitInv
<1>4. ASSUME NEW e \in Envelope, Evict(e) PROVE SubmitInv'
  <2>1. UNCHANGED <<view, viewSequence, flight>> /\ pool' = pool \ {e}
    BY <1>4 DEF Evict, viewVars
  <2>2. SubmitTypeOK'
    BY <1>1, <2>1 DEF SubmitInv, SubmitTypeOK
  <2>3. BeyondIsUntouched' /\ UnsentIsUntouched' /\ KnownIsTrue'
    BY <1>1, <2>1 DEF SubmitInv, BeyondIsUntouched, UnsentIsUntouched, KnownIsTrue, Dead,
                      Untouched, Current
  <2> QED
    BY <1>2, <2>2, <2>3 DEF SubmitInv
<1>5. ASSUME NEW e \in Envelope, Arrive(e) PROVE SubmitInv'
  <2>1. /\ UNCHANGED <<view, viewSequence>> /\ flight' = flight \ {e} /\ e \in flight
        /\ pool' = pool \/ (pool' = pool \cup {e} /\ Includable(e))
    BY <1>5 DEF Arrive, viewVars
  <2>2. SubmitTypeOK'
    BY <1>1, <2>1 DEF SubmitInv, SubmitTypeOK
  <2>3. \A x \in Envelope : Untouched(x) => Untouched(x)'
    BY <1>1, <2>1 DEF Untouched
  <2>4. BeyondIsUntouched'
    BY <1>1, <2>1 DEF SubmitInv, BeyondIsUntouched, Untouched
  <2>5. UnsentIsUntouched'
    BY <1>1, <2>1 DEF SubmitInv, UnsentIsUntouched, Untouched, Current
  <2>6. KnownIsTrue'
    BY <1>1, <2>1 DEF SubmitInv, KnownIsTrue, Dead, Untouched
  <2> QED
    BY <1>2, <2>2, <2>4, <2>5, <2>6 DEF SubmitInv
<1> QED
  BY <1>3, <1>4, <1>5
\* A further call follows one without effect.
LEMMA ResubmitKeepsInv ==
  ASSUME SubmitInv, NEW w \in Writes, Resubmit(w)
  PROVE  SubmitInv'
<1> DEFINE n == <<w, calls[w] + 1>>
<1>1. /\ calls \in [Writes -> 0..MaxCalls] /\ MaxCalls \in Nat
      /\ pc \in [Writes -> {"idle", "load", "sending", "polling", "told"}]
  BY SubmissionAssumption DEF SubmitInv, SubmitTypeOK
<1>2. /\ calls[w] < MaxCalls /\ calls' = [calls EXCEPT ![w] = calls[w] + 1]
      /\ pc' = [pc EXCEPT ![w] = "load"]
      /\ UNCHANGED <<now, sequence, pool, flight, fate, included, view, viewSequence,
                     envelope, attempt, priorAmbiguous, poll, told, known>>
  BY DEF Resubmit, chainVars, viewVars, sendVars, callerVars
<1>3. /\ calls[w] + 1 \in 0..MaxCalls /\ calls[w] + 1 # 0 /\ n \in Envelope
      /\ calls'[w] = calls[w] + 1 /\ pc'[w] = "load"
      /\ \A v \in Writes : v # w => calls'[v] = calls[v] /\ pc'[v] = pc[v]
  <2>1. calls[w] + 1 \in 1..MaxCalls /\ calls[w] + 1 \in 0..MaxCalls /\ calls[w] + 1 # 0
    BY <1>1, <1>2
  <2> QED
    BY <1>1, <1>2, <2>1 DEF Envelope
<1>4. SubmitTypeOK'
  BY <1>1, <1>2, <1>3 DEF SubmitInv, SubmitTypeOK
<1>5. Untouched(n) /\ known[n] = "open"
  <2>1. n[2] > calls[n[1]]
    BY <1>1
  <2> QED
    BY <1>3, <2>1 DEF SubmitInv, BeyondIsUntouched
<1>6. Current(w)' = n /\ \A v \in Writes : v # w => Current(v)' = Current(v)
  BY <1>3 DEF Current
<1>7. \A e \in Envelope : Untouched(e)' <=> Untouched(e)
  BY <1>2 DEF Untouched
<1>8. BeyondIsUntouched'
  <2> SUFFICES ASSUME NEW e \in Envelope, e[2] > calls'[e[1]]
               PROVE  Untouched(e)' /\ known'[e] = "open"
    BY DEF BeyondIsUntouched
  <2>1. e[1] \in Writes /\ e[2] \in 1..MaxCalls
    BY DEF Envelope
  <2>2. e[2] > calls[e[1]]
    BY <1>1, <1>3, <2>1
  <2> QED
    BY <1>2, <2>2 DEF SubmitInv, BeyondIsUntouched, Untouched
<1>9. IdleIsFirst'
  BY <1>3 DEF SubmitInv, IdleIsFirst
<1>10. UnsentIsUntouched' /\ PendingIsOpen'
  <2>1. n \notin pool' /\ n \notin flight' /\ fate'[n] = "open" /\ known'[n] = "open"
    BY <1>2, <1>5 DEF Untouched
  <2>2. ASSUME NEW v \in Writes
        PROVE  /\ pc'[v] = "load" \/ (pc'[v] = "sending" /\ ~priorAmbiguous'[v])
                    => Untouched(Current(v))'
               /\ pc'[v] \in {"load", "sending", "polling"} => known'[Current(v)'] = "open"
    <3>1. CASE v = w
      BY <1>6, <2>1, <3>1 DEF Untouched
    <3>2. CASE v # w
      BY <1>2, <1>3, <1>6, <3>2 DEF SubmitInv, UnsentIsUntouched, PendingIsOpen, Untouched
    <3> QED
      BY <3>1, <3>2
  <2> QED
    BY <2>2 DEF UnsentIsUntouched, PendingIsOpen
<1>11. KnownIsTrue' /\ IncludedInTime'
  BY <1>2 DEF SubmitInv, KnownIsTrue, IncludedInTime, Dead, Untouched
<1>12. EarlierIsIneffective'
  <2> SUFFICES ASSUME NEW e \in Envelope, e[2] < calls'[e[1]]
               PROVE  known[e] \in {"failed", "never"}
    BY <1>2 DEF EarlierIsIneffective
  <2>1. e[1] \in Writes /\ e[2] \in 1..MaxCalls /\ e = <<e[1], e[2]>>
    BY DEF Envelope
  <2>2. CASE e[2] < calls[e[1]]
    BY <2>2 DEF SubmitInv, EarlierIsIneffective
  <2>3. CASE ~(e[2] < calls[e[1]])
    <3>1. e[1] = w /\ e[2] = calls[w]
      BY <1>1, <1>3, <2>1, <2>3
    <3>2. e = Current(w) /\ calls[w] # 0
      BY <1>1, <2>1, <3>1 DEF Current
    <3>3. pc[w] = "told" /\ known[Current(w)] \in {"failed", "never"}
      BY <3>2 DEF Resubmit, SubmitInv, IdleIsFirst
    <3> QED
      BY <3>2, <3>3
  <2> QED
    BY <2>2, <2>3
<1> QED
  BY <1>4, <1>8, <1>9, <1>10, <1>11, <1>12 DEF SubmitInv

\* A lookup learns what happened, or that it can no longer happen.
LEMMA LookupKeepsInv ==
  ASSUME SubmitInv, NEW w \in Writes, Lookup(w)
  PROVE  SubmitInv'
<1> DEFINE c == Current(w)
<1>1. /\ pc[w] = "told" /\ known[c] = "open" /\ calls[w] # 0
      /\ UNCHANGED <<now, sequence, pool, flight, fate, included, view, viewSequence, calls,
                     pc, envelope, attempt, priorAmbiguous, poll, told>>
  BY DEF Lookup, chainVars, viewVars, sendVars, SubmitInv, IdleIsFirst
<1>2. c \in Envelope /\ c[1] = w /\ c[2] = calls[w]
  BY <1>1, CurrentIsEnvelope DEF SubmitInv
<1>3. known \in [Envelope -> {"open", "success", "failed", "never"}]
  BY DEF SubmitInv, SubmitTypeOK
<1>4. PICK k \in {"success", "failed", "never"} :
         /\ known' = [known EXCEPT ![c] = k]
         /\ k \in {"success", "failed"} => fate[c] = k
         /\ k = "never" => Dead(c)
  <2>1. CASE Found(c) /\ known' = [known EXCEPT ![c] = fate[c]]
    <3>1. fate[c] \in {"success", "failed"}
      BY <1>2, <2>1 DEF Found, SubmitInv, SubmitTypeOK
    <3> QED
      BY <2>1, <3>1
  <2>2. CASE /\ ~Found(c) /\ view > envelope[c].validUntil
             /\ known' = [known EXCEPT ![c] = "never"]
    BY <1>2, <2>2, ExpiredIsDead
  <2> QED
    BY <2>1, <2>2 DEF Lookup
<1>5. known'[c] = k /\ \A e \in Envelope : e # c => known'[e] = known[e]
  BY <1>2, <1>3, <1>4
<1>6. SubmitTypeOK'
  BY <1>1, <1>3, <1>4 DEF SubmitInv, SubmitTypeOK
<1>7. IdleIsFirst' /\ UnsentIsUntouched' /\ IncludedInTime'
  BY <1>1 DEF SubmitInv, IdleIsFirst, UnsentIsUntouched, IncludedInTime, Untouched, Current
<1> HIDE DEF c
<1>8. BeyondIsUntouched'
  <2> SUFFICES ASSUME NEW e \in Envelope, e[2] > calls[e[1]]
               PROVE  Untouched(e)' /\ known'[e] = "open"
    BY <1>1 DEF BeyondIsUntouched
  <2>1. e # c
    <3>1. calls \in [Writes -> 0..MaxCalls]
      BY Zenon DEF SubmitInv, SubmitTypeOK
    <3> QED
      BY <1>2, <3>1
  <2> QED
    BY <1>1, <1>5, <2>1 DEF SubmitInv, BeyondIsUntouched, Untouched
<1>9. PendingIsOpen'
  <2> SUFFICES ASSUME NEW v \in Writes, pc[v] \in {"load", "sending", "polling"}
               PROVE  known'[Current(v)] = "open"
    BY <1>1 DEF PendingIsOpen, Current
  <2>1. calls[v] # 0 /\ v # w /\ known[Current(v)] = "open"
    BY <1>1 DEF SubmitInv, IdleIsFirst, PendingIsOpen
  <2>2. Current(v) \in Envelope /\ Current(v) # c
    BY <1>2, <2>1, CurrentIsEnvelope DEF SubmitInv
  <2> QED
    BY <1>5, <2>1, <2>2
<1>10. KnownIsTrue'
  <2> SUFFICES ASSUME NEW e \in Envelope
               PROVE  /\ known'[e] \in {"success", "failed"} => fate[e] = known'[e]
                      /\ known'[e] = "never" => Dead(e)
    BY <1>1 DEF KnownIsTrue, Dead, Untouched
  <2>1. CASE e = c
    BY <1>4, <1>5, <2>1
  <2>2. CASE e # c
    BY <1>5, <2>2 DEF SubmitInv, KnownIsTrue
  <2> QED
    BY <2>1, <2>2
<1>11. EarlierIsIneffective'
  <2> SUFFICES ASSUME NEW e \in Envelope, e[2] < calls[e[1]]
               PROVE  known'[e] \in {"failed", "never"}
    BY <1>1 DEF EarlierIsIneffective
  <2>1. known[e] \in {"failed", "never"}
    BY DEF SubmitInv, EarlierIsIneffective
  <2> QED
    BY <1>1, <1>5, <2>1
<1> QED
  BY <1>6, <1>7, <1>8, <1>9, <1>10, <1>11 DEF SubmitInv

\* The build fixes the sequence number and the time bound of an envelope that
\* nobody holds.
LEMMA BuildKeepsInv ==
  ASSUME SubmitInv, NEW w \in Writes, NEW validUntil \in 1..(MaxTime - 1), Build(w, validUntil)
  PROVE  SubmitInv'
<1> DEFINE c == Current(w)
<1>1. /\ pc[w] = "load" /\ calls[w] # 0
      /\ UNCHANGED <<now, sequence, pool, flight, fate, included, view, viewSequence, calls,
                     attempt, priorAmbiguous, poll, told, known>>
      /\ pc' = [pc EXCEPT ![w] = "sending"]
      /\ envelope' = [envelope EXCEPT ![c] =
                        [sequence |-> viewSequence + 1, validUntil |-> validUntil]]
  BY DEF Build, chainVars, viewVars, callerVars, SubmitInv, IdleIsFirst
<1>2. c \in Envelope /\ Untouched(c) /\ known[c] = "open"
  BY <1>1, CurrentIsEnvelope DEF SubmitInv, UnsentIsUntouched, PendingIsOpen
<1>3. /\ pc \in [Writes -> {"idle", "load", "sending", "polling", "told"}]
      /\ envelope \in [Envelope -> [sequence : 0..(MaxSequence + 1), validUntil : 0..MaxTime]]
  BY DEF SubmitInv, SubmitTypeOK
<1>4. SubmitTypeOK'
  <2>1. /\ viewSequence \in 0..sequence /\ sequence \in 0..MaxSequence
        /\ MaxSequence \in Nat /\ MaxTime \in Nat
    BY SubmissionAssumption DEF SubmitInv, SubmitTypeOK
  <2>2. viewSequence + 1 \in 0..(MaxSequence + 1) /\ validUntil \in 0..MaxTime
    BY <2>1
  <2>3. envelope' \in [Envelope -> [sequence : 0..(MaxSequence + 1), validUntil : 0..MaxTime]]
    BY <1>1, <1>2, <1>3, <2>2
  <2>4. pc' \in [Writes -> {"idle", "load", "sending", "polling", "told"}]
    BY <1>1, <1>3
  <2> QED
    BY <1>1, <2>3, <2>4 DEF SubmitInv, SubmitTypeOK
<1>5. /\ pc'[w] = "sending" /\ \A v \in Writes : v # w => pc'[v] = pc[v]
      /\ \A e \in Envelope : e # c => envelope'[e] = envelope[e]
  BY <1>1, <1>2, <1>3
<1>6. BeyondIsUntouched' /\ IdleIsFirst' /\ EarlierIsIneffective'
  BY <1>1, <1>5 DEF SubmitInv, BeyondIsUntouched, IdleIsFirst, EarlierIsIneffective, Untouched
<1>7. UnsentIsUntouched' /\ PendingIsOpen'
  BY <1>1, <1>2, <1>5 DEF SubmitInv, UnsentIsUntouched, PendingIsOpen, Untouched, Current
<1>8. KnownIsTrue' /\ IncludedInTime'
  BY <1>1, <1>2, <1>5 DEF SubmitInv, KnownIsTrue, IncludedInTime, Dead, Untouched
<1> QED
  BY <1>4, <1>6, <1>7, <1>8 DEF SubmitInv

\* Every step keeps it.
LEMMA SubmitInvNext == SubmitInv /\ [SubmitNext]_submitVars => SubmitInv'
<1> SUFFICES ASSUME SubmitInv, [SubmitNext]_submitVars PROVE SubmitInv'
  OBVIOUS
<1>1. CASE UNCHANGED submitVars
  BY <1>1 DEF SubmitInv, SubmitTypeOK, BeyondIsUntouched, IdleIsFirst, UnsentIsUntouched, PendingIsOpen,
              KnownIsTrue, EarlierIsIneffective, IncludedInTime, Dead, Untouched, Current,
              submitVars, chainVars, viewVars, sendVars, callerVars
<1>2. CASE CloseLedger
  BY <1>2, CloseLedgerKeepsInv
<1>3. CASE Ingest \/ \E e \in Envelope : Evict(e) \/ Arrive(e)
  BY <1>3, NetworkKeepsInv
<1>4. ASSUME NEW w \in Writes, Resubmit(w) PROVE SubmitInv'
  BY <1>4, ResubmitKeepsInv
<1>5. ASSUME NEW w \in Writes, Lookup(w) PROVE SubmitInv'
  BY <1>5, LookupKeepsInv
<1>6. ASSUME NEW w \in Writes, NEW validUntil \in 1..(MaxTime - 1), Build(w, validUntil)
      PROVE  SubmitInv'
  BY <1>6, BuildKeepsInv
<1>7. ASSUME NEW w \in Writes, CallStep(w) PROVE SubmitInv'
  BY <1>7, CallStepShape, CallKeepsInv
<1> QED
  BY <1>1, <1>2, <1>3, <1>4, <1>5, <1>6, <1>7 DEF SubmitNext, BuildStep, CallStep

\* The invariant holds of every behaviour of the write path, with any number of
\* writes, calls, resends and lookups.
THEOREM SubmitInvariance == SubmitSpec => []SubmitInv
BY SubmitInvInit, SubmitInvNext, PTL DEF SubmitSpec

\* The variables of network, RPC, SDK and caller keep their types.
THEOREM SubmitTypeCorrect == SubmitSpec => []SubmitTypeOK
<1>1. SubmitInv => SubmitTypeOK
  BY DEF SubmitInv
<1> QED
  BY <1>1, SubmitInvariance, PTL

\* A code that invites another attempt (isRetryable, or not found past the time
\* bound) is never wrong: its envelope is not applied, then or later.
THEOREM NeverIsFinal == SubmitSpec => []NeverMeansNever
<1>1. SubmitInv => NeverMeansNever
  BY DEF SubmitInv, KnownIsTrue, Dead, NeverMeansNever
<1> QED
  BY <1>1, SubmitInvariance, PTL
-----------------------------------------------------------------------------
(* The write path implements WriteOnce.                                    *)

\* What the abstract record holds of an attempt.
Settled == [e \in Envelope |-> IF known[e] = "never" THEN "never" ELSE fate[e]]

\* The attempts of the abstract record are the envelopes.
LEMMA AttemptsAreEnvelopes == Once!Attempt = Envelope
BY DEF Once!Attempt, Envelope

\* A step that leaves calls, fates and knowledge alone is a stutter.
LEMMA Stutters ==
  ASSUME UNCHANGED <<calls, fate, known>>
  PROVE  UNCHANGED Once!onceVars
BY DEF Once!onceVars

\* What the caller learns, it learns of an attempt that was made.
LEMMA LearnsOrForgets ==
  ASSUME SubmitInv, NEW c \in Envelope, c[2] \in 1..calls[c[1]], known[c] = "open",
         NEW k \in {"success", "failed", "never"}, known' = [known EXCEPT ![c] = k],
         k \in {"success", "failed"} => fate[c] = k, k = "never" => fate[c] = "open",
         UNCHANGED <<calls, fate>>
  PROVE  Once!OnceNext
<1>1. /\ known \in [Envelope -> {"open", "success", "failed", "never"}]
      /\ fate \in [Envelope -> {"open", "success", "failed"}]
  BY DEF SubmitInv, SubmitTypeOK
<1>2. known'[c] = k /\ \A e \in Envelope : e # c => known'[e] = known[e]
  BY <1>1
<1>3. CASE k = "never"
  <2>1. /\ Settled[c] = "open" /\ Settled'[c] = "never"
        /\ \A e \in Envelope : e # c => Settled'[e] = Settled[e]
    BY <1>2, <1>3 DEF Settled
  <2>2. Settled' = [Settled EXCEPT ![c] = "never"]
    BY <2>1 DEF Settled
  <2>3. Once!Forget(c)
    BY <1>3, <2>1, <2>2 DEF Once!Forget, Settled
  <2> QED
    BY <2>3, AttemptsAreEnvelopes DEF Once!OnceNext
<1>4. CASE k \in {"success", "failed"}
  <2>1. /\ Settled[c] = k /\ \A e \in Envelope : Settled'[e] = Settled[e]
    BY <1>1, <1>2, <1>4 DEF Settled
  <2>2. Settled' = Settled
    BY <2>1 DEF Settled
  <2>3. Once!Learn(c)
    BY <1>4, <2>1, <2>2 DEF Once!Learn, Settled
  <2> QED
    BY <2>3, AttemptsAreEnvelopes DEF Once!OnceNext
<1> QED
  BY <1>3, <1>4

\* The network decides on an attempt, or nothing is seen of the ledger.
LEMMA CloseLedgerRefines ==
  ASSUME SubmitInv, CloseLedger
  PROVE  [Once!OnceNext]_(Once!onceVars)
<1>1. UNCHANGED <<calls, known>>
  BY DEF CloseLedger, callerVars
<1>2. CASE UNCHANGED <<fate, included, pool>>
  BY <1>1, <1>2, Stutters
<1>3. ASSUME NEW e \in pool, NEW f \in {"success", "failed"}, Includable(e),
             fate' = [fate EXCEPT ![e] = f]
      PROVE  Once!OnceNext
  <2>1. /\ e \in Envelope /\ fate \in [Envelope -> {"open", "success", "failed"}]
        /\ calls \in [Writes -> 0..MaxCalls] /\ MaxCalls \in Nat
    BY SubmissionAssumption DEF SubmitInv, SubmitTypeOK
  <2>2. known[e] = "open" /\ fate[e] = "open" /\ ~(e[2] > calls[e[1]])
    BY <1>3, <2>1, HeldIsOpen DEF Includable
  <2>3. e[2] \in 1..calls[e[1]]
    <3>1. e[1] \in Writes /\ e[2] \in 1..MaxCalls
      BY <2>1 DEF Envelope
    <3> QED
      BY <2>1, <2>2, <3>1
  <2>4. /\ Settled[e] = "open" /\ Settled'[e] = f
        /\ \A x \in Envelope : x # e => Settled'[x] = Settled[x]
    BY <1>1, <1>3, <2>1, <2>2 DEF Settled
  <2>5. Settled' = [Settled EXCEPT ![e] = f]
    BY <2>4 DEF Settled
  <2>6. Once!Include(e, f)
    BY <1>1, <2>3, <2>4, <2>5 DEF Once!Include, Settled
  <2> QED
    BY <2>1, <2>6, AttemptsAreEnvelopes DEF Once!OnceNext
<1> QED
  BY <1>2, <1>3 DEF CloseLedger

\* A caller that resubmits begins an attempt it may begin.
LEMMA ResubmitRefines ==
  ASSUME SubmitInv, NEW w \in Writes, Resubmit(w)
  PROVE  Once!OnceNext
<1>1. calls[w] = 0 \/ known[<<w, calls[w]>>] \in {"failed", "never"}
  BY DEF Resubmit, SubmitInv, IdleIsFirst, Current
<1>2. UNCHANGED <<fate, known>> /\ calls[w] < MaxCalls /\ calls' = [calls EXCEPT ![w] = @ + 1]
  BY DEF Resubmit, chainVars, callerVars
<1>3. Once!Try(w)
  BY <1>1, <1>2 DEF Once!Try, Once!Ineffective
<1> QED
  BY <1>3 DEF Once!OnceNext

\* A caller learns the truth about an attempt.
LEMMA LookupRefines ==
  ASSUME SubmitInv, NEW w \in Writes, Lookup(w)
  PROVE  Once!OnceNext
<1> DEFINE c == Current(w)
<1>1. /\ known[c] = "open" /\ calls[w] # 0 /\ UNCHANGED <<calls, fate>>
  BY DEF Lookup, chainVars, SubmitInv, IdleIsFirst
<1>2. c \in Envelope /\ c[1] = w /\ c[2] = calls[w]
  BY <1>1, CurrentIsEnvelope DEF SubmitInv
<1>3. c[2] \in 1..calls[c[1]]
  <2>1. calls[w] \in 0..MaxCalls /\ MaxCalls \in Nat
    BY SubmissionAssumption DEF SubmitInv, SubmitTypeOK
  <2> QED
    BY <1>1, <1>2, <2>1
<1>4. CASE Found(c) /\ known' = [known EXCEPT ![c] = fate[c]]
  <2>1. fate[c] \in {"success", "failed"}
    BY <1>2, <1>4 DEF Found, SubmitInv, SubmitTypeOK
  <2> HIDE DEF c
  <2> QED
    BY <1>1, <1>2, <1>3, <1>4, <2>1, LearnsOrForgets
<1>5. CASE /\ ~Found(c) /\ view > envelope[c].validUntil
           /\ known' = [known EXCEPT ![c] = "never"]
  <2>1. fate[c] = "open"
    BY <1>2, <1>5, ExpiredIsDead DEF Dead
  <2> HIDE DEF c
  <2> QED
    BY <1>1, <1>2, <1>3, <1>5, <2>1, LearnsOrForgets
<1> QED
  BY <1>4, <1>5 DEF Lookup

\* A call that ends reports what is true.
LEMMA CallRefines ==
  ASSUME SubmitInv, NEW w \in Writes, CallShape(w)
  PROVE  [Once!OnceNext]_(Once!onceVars)
<1> DEFINE c == Current(w)
<1>1. /\ known[c] = "open" /\ calls[w] # 0 /\ UNCHANGED <<calls, fate>>
  BY DEF CallShape, SubmitInv, IdleIsFirst, PendingIsOpen
<1>2. c \in Envelope /\ c[1] = w /\ c[2] = calls[w]
  BY <1>1, CurrentIsEnvelope DEF SubmitInv
<1>3. c[2] \in 1..calls[c[1]]
  <2>1. calls[w] \in 0..MaxCalls /\ MaxCalls \in Nat
    BY SubmissionAssumption DEF SubmitInv, SubmitTypeOK
  <2> QED
    BY <1>1, <1>2, <2>1
<1>4. CASE Awaits(w) \/ Continues(w)
  <2>1. known' = known
    BY <1>4 DEF Awaits, Await, Continues, callerVars
  <2> QED
    BY <1>1, <2>1, Stutters
<1>5. CASE Settles(w)
  <2>1. PICK code \in Codes :
          /\ Tell(w, code)
          /\ Verdict(code) \in {"success", "failed"} => fate[c] = Verdict(code)
          /\ Verdict(code) = "never" => Dead(c)
    BY <1>5 DEF Settles
  <2>2. known' = [known EXCEPT ![c] = Verdict(code)]
    BY <2>1 DEF Tell
  <2>3. Verdict(code) \in {"open", "success", "failed", "never"}
    BY DEF Verdict
  <2>4. CASE Verdict(code) = "open"
    <3>1. known' = known
      BY <1>1, <1>2, <2>2, <2>4 DEF SubmitInv, SubmitTypeOK
    <3> QED
      BY <1>1, <3>1, Stutters
  <2>5. CASE Verdict(code) # "open"
    <3>1. Verdict(code) = "never" => fate[c] = "open"
      BY <2>1 DEF Dead
    <3> DEFINE k == Verdict(code)
    <3>2. /\ k \in {"success", "failed", "never"} /\ known' = [known EXCEPT ![c] = k]
          /\ k \in {"success", "failed"} => fate[c] = k
          /\ k = "never" => fate[c] = "open"
      BY <2>1, <2>2, <2>3, <2>5, <3>1
    <3> HIDE DEF c, k
    <3> QED
      BY <1>1, <1>2, <1>3, <3>2, LearnsOrForgets
  <2> QED
    BY <2>4, <2>5
<1> QED
  BY <1>4, <1>5 DEF CallShape

\* The write path implements the abstract record of attempts: a write is only
\* attempted again when the attempt before had no effect and never will, and the
\* caller is told nothing but the truth.
THEOREM Refines == SubmitSpec => KeepsPromise
<1>1. SubmitInit => Once!OnceInit
  <2> SUFFICES ASSUME SubmitInit PROVE Once!OnceInit
    OBVIOUS
  <2>1. /\ fate = [e \in Envelope |-> "open"] /\ known = [e \in Envelope |-> "open"]
        /\ calls = [w \in Writes |-> 0]
    BY DEF SubmitInit
  <2>2. Settled = [e \in Envelope |-> "open"]
    BY <2>1 DEF Settled
  <2> QED
    BY <2>1, <2>2, AttemptsAreEnvelopes DEF Once!OnceInit, Settled
<1>2. SubmitInv /\ [SubmitNext]_submitVars => [Once!OnceNext]_(Once!onceVars)
  <2> SUFFICES ASSUME SubmitInv, [SubmitNext]_submitVars PROVE [Once!OnceNext]_(Once!onceVars)
    OBVIOUS
  <2>1. CASE UNCHANGED submitVars
    BY <2>1, Stutters DEF submitVars, chainVars, callerVars
  <2>2. CASE CloseLedger
    BY <2>2, CloseLedgerRefines
  <2>3. CASE Ingest \/ \E e \in Envelope : Evict(e) \/ Arrive(e)
    <3>1. UNCHANGED <<calls, fate, known>>
      BY <2>3 DEF Ingest, Evict, Arrive, chainVars, callerVars
    <3> QED
      BY <3>1, Stutters
  <2>4. ASSUME NEW w \in Writes, Resubmit(w) \/ Lookup(w) PROVE Once!OnceNext
    BY <2>4, ResubmitRefines, LookupRefines
  <2>5. ASSUME NEW w \in Writes, NEW validUntil \in 1..(MaxTime - 1), Build(w, validUntil)
        PROVE  UNCHANGED Once!onceVars
    <3>1. UNCHANGED <<calls, fate, known>>
      BY <2>5 DEF Build, chainVars, callerVars
    <3> QED
      BY <3>1, Stutters
  <2>6. ASSUME NEW w \in Writes, CallStep(w) PROVE [Once!OnceNext]_(Once!onceVars)
    BY <2>6, CallStepShape, CallRefines
  <2> QED
    BY <2>1, <2>2, <2>3, <2>4, <2>5, <2>6 DEF SubmitNext, BuildStep, CallStep
<1> QED
  BY <1>1, <1>2, SubmitInvariance, PTL DEF SubmitSpec, KeepsPromise, Once!OnceSpec

\* No write takes effect twice, however often it is rebuilt: at most one of its
\* attempts is ever applied.
THEOREM NoDoubleWrite == SubmitSpec => []AtMostOnce
<1>1. SubmitInv => AtMostOnce
  <2> SUFFICES ASSUME SubmitInv, NEW a \in Envelope, NEW b \in Envelope, a[1] = b[1],
                      Settled[a] = "success", Settled[b] = "success", a[2] < b[2]
               PROVE  FALSE
    <3>1. \A a, b \in Envelope :
            a[1] = b[1] /\ ~(a[2] < b[2]) /\ ~(b[2] < a[2]) => a = b
      BY DEF Envelope
    <3> QED
      BY <3>1, AttemptsAreEnvelopes DEF AtMostOnce, Once!AtMostOnce, Settled
  <2>1. fate[a] = "success" /\ fate[b] = "success"
    BY DEF Settled
  <2>2. ~(b[2] > calls[b[1]])
    BY <2>1 DEF SubmitInv, BeyondIsUntouched, Untouched
  <2>3. a[2] < calls[a[1]]
    <3>1. /\ a[1] \in Writes /\ a[2] \in 1..MaxCalls /\ b[2] \in 1..MaxCalls
          /\ calls \in [Writes -> 0..MaxCalls] /\ MaxCalls \in Nat
      BY SubmissionAssumption DEF Envelope, SubmitInv, SubmitTypeOK
    <3> QED
      BY <2>2, <3>1
  <2>4. known[a] \in {"failed", "never"}
    BY <2>3 DEF SubmitInv, EarlierIsIneffective
  <2> QED
    BY <2>1, <2>4 DEF Settled, SubmitInv, KnownIsTrue
<1> QED
  BY <1>1, SubmitInvariance, PTL


-----------------------------------------------------------------------------
(* The page: what a sentence claims.                                       *)

\* A nonempty set of naturals has a least element.
LEMMA LeastElement ==
  ASSUME NEW H \in SUBSET Nat, H # {}
  PROVE  Min(H) \in H
<1> DEFINE T == {k \in Nat : \A j \in H : ~(j <= k)}
<1>1. SUFFICES ASSUME \A x \in H : \E y \in H : ~(x <= y) PROVE FALSE
  <2>1. \E x \in H : \A y \in H : x <= y
    BY <1>1
  <2> QED
    BY <2>1 DEF Min
<1>2. 0 \in T
  <2>1. 0 \notin H
    <3> SUFFICES ASSUME 0 \in H PROVE FALSE
      OBVIOUS
    <3>1. PICK y \in H : ~(0 <= y)
      BY <1>1
    <3> QED
      BY <3>1
  <2> QED
    BY <2>1
<1>3. ASSUME NEW k \in Nat, k \in T PROVE k + 1 \in T
  <2>1. \A j \in H : j > k
    BY <1>3
  <2>2. k + 1 \notin H
    <3> SUFFICES ASSUME k + 1 \in H PROVE FALSE
      OBVIOUS
    <3>1. PICK y \in H : ~(k + 1 <= y)
      BY <1>1
    <3> QED
      BY <2>1, <3>1
  <2>3. ASSUME NEW j \in H PROVE ~(j <= k + 1)
    <3>1. j \in Nat /\ j > k /\ j # k + 1
      BY <2>1, <2>2
    <3> QED
      BY <3>1
  <2> QED
    BY <2>3
<1> HIDE DEF T
<1>4. \A k \in Nat : k \in T
  BY <1>2, <1>3, InductiveSet
<1>5. PICK j \in H : TRUE
  OBVIOUS
<1> QED
  BY <1>4, <1>5 DEF T

\* A code is that of a rule that fits the text.
Fits(rules, text, code) ==
  \E i \in DOMAIN rules :
    rules[i].code = code /\ \E phrases \in rules[i].any : phrases \subseteq text

\* The parser answers with the code of a rule that fits.
LEMMA CodeOfARule ==
  ASSUME NEW text, parseContractError(text) # "UNKNOWN"
  PROVE  Fits(Rules, text, parseContractError(text))
<1> DEFINE hits == {i \in DOMAIN Rules : \E phrases \in Rules[i].any : phrases \subseteq text}
<1>1. hits # {} /\ parseContractError(text) = Rules[Min(hits)].code
  BY DEF parseContractError
<1>2. hits \in SUBSET Nat
  <2>1. DOMAIN Rules \in SUBSET Nat
    BY DEF Rules, WalletRules, ExecutionRules, NetworkRules, StateRules, InitRules, FundRules
  <2> QED
    BY <2>1
<1>3. Min(hits) \in hits
  BY <1>1, <1>2, LeastElement
<1> HIDE DEF hits
<1>4. Min(hits) \in DOMAIN Rules /\ \E phrases \in Rules[Min(hits)].any : phrases \subseteq text
  BY <1>3 DEF hits
<1> QED
  BY <1>1, <1>4 DEF Fits

\* A rule of two tables put together is a rule of one of them.
LEMMA FitsEither ==
  ASSUME NEW S, NEW r \in Seq(S), NEW q \in Seq(S), NEW text, NEW code,
         Fits(r \o q, text, code)
  PROVE  Fits(r, text, code) \/ Fits(q, text, code)
<1>1. PICK i \in DOMAIN (r \o q) :
        (r \o q)[i].code = code /\ \E phrases \in (r \o q)[i].any : phrases \subseteq text
  BY DEF Fits
<1>2. i \in 1..(Len(r) + Len(q)) /\ Len(r) \in Nat /\ Len(q) \in Nat
  OBVIOUS
<1>3. CASE i <= Len(r)
  <2>1. i \in DOMAIN r /\ (r \o q)[i] = r[i]
    BY <1>2, <1>3
  <2> QED
    BY <1>1, <2>1 DEF Fits
<1>4. CASE i > Len(r)
  <2>1. i - Len(r) \in DOMAIN q /\ (r \o q)[i] = q[i - Len(r)]
    BY <1>2, <1>4
  <2> QED
    BY <1>1, <2>1 DEF Fits
<1> QED
  BY <1>2, <1>3, <1>4

\* The rules of the six tables.
Table(rules) == {rules[i] : i \in DOMAIN rules}
AllRules == Table(WalletRules) \cup Table(ExecutionRules) \cup Table(NetworkRules)
              \cup Table(StateRules) \cup Table(InitRules) \cup Table(FundRules)

\* A list with elements of S.
LEMMA ListOver ==
  ASSUME NEW r, NEW n \in Nat, r = [i \in 1..n |-> r[i]], NEW S, \A i \in 1..n : r[i] \in S
  PROVE  r \in Seq(S)
OBVIOUS

\* The tables and their lengths.
LEMMA TablesAreLists ==
  /\ WalletRules \in Seq(AllRules) /\ DOMAIN WalletRules = 1..3
  /\ ExecutionRules \in Seq(AllRules) /\ DOMAIN ExecutionRules = 1..3
  /\ NetworkRules \in Seq(AllRules) /\ DOMAIN NetworkRules = 1..3
  /\ StateRules \in Seq(AllRules) /\ DOMAIN StateRules = 1..5
  /\ InitRules \in Seq(AllRules) /\ DOMAIN InitRules = 1..10
  /\ FundRules \in Seq(AllRules) /\ DOMAIN FundRules = 1..7
<1>1. WalletRules \in Seq(AllRules) /\ DOMAIN WalletRules = 1..3
  <2>1. WalletRules = [i \in 1..3 |-> WalletRules[i]]
    BY DEF WalletRules
  <2> QED
    BY <2>1, ListOver DEF AllRules, Table
<1>2. ExecutionRules \in Seq(AllRules) /\ DOMAIN ExecutionRules = 1..3
  <2>1. ExecutionRules = [i \in 1..3 |-> ExecutionRules[i]]
    BY DEF ExecutionRules
  <2> QED
    BY <2>1, ListOver DEF AllRules, Table
<1>3. NetworkRules \in Seq(AllRules) /\ DOMAIN NetworkRules = 1..3
  <2>1. NetworkRules = [i \in 1..3 |-> NetworkRules[i]]
    BY DEF NetworkRules
  <2> QED
    BY <2>1, ListOver DEF AllRules, Table
<1>4. StateRules \in Seq(AllRules) /\ DOMAIN StateRules = 1..5
  <2>1. StateRules = [i \in 1..5 |-> StateRules[i]]
    BY DEF StateRules
  <2> QED
    BY <2>1, ListOver DEF AllRules, Table
<1>5. InitRules \in Seq(AllRules) /\ DOMAIN InitRules = 1..10
  <2>1. InitRules = [i \in 1..10 |-> InitRules[i]]
    BY DEF InitRules
  <2> QED
    BY <2>1, ListOver DEF AllRules, Table
<1>6. FundRules \in Seq(AllRules) /\ DOMAIN FundRules = 1..7
  <2>1. FundRules = [i \in 1..7 |-> FundRules[i]]
    BY DEF FundRules
  <2> QED
    BY <2>1, ListOver DEF AllRules, Table
<1> QED
  BY <1>1, <1>2, <1>3, <1>4, <1>5, <1>6

\* A rule that fits is in one of the six tables.
LEMMA FitsOneTable ==
  ASSUME NEW text, NEW code, Fits(Rules, text, code)
  PROVE  \/ Fits(WalletRules, text, code) \/ Fits(ExecutionRules, text, code)
         \/ Fits(NetworkRules, text, code) \/ Fits(StateRules, text, code)
         \/ Fits(InitRules, text, code) \/ Fits(FundRules, text, code)
<1> DEFINE two == WalletRules \o ExecutionRules
           three == two \o NetworkRules
           four == three \o StateRules
           five == four \o InitRules
<1>1. Rules = five \o FundRules
  BY DEF Rules
<1>2. two \in Seq(AllRules)
  BY TablesAreLists
<1> HIDE DEF two
<1>3. three \in Seq(AllRules)
  BY <1>2, TablesAreLists
<1> HIDE DEF three
<1>4. four \in Seq(AllRules)
  BY <1>3, TablesAreLists
<1> HIDE DEF four
<1>5. five \in Seq(AllRules)
  BY <1>4, TablesAreLists
<1> HIDE DEF five
<1>6. Fits(five, text, code) \/ Fits(FundRules, text, code)
  BY <1>1, <1>5, TablesAreLists, FitsEither
<1>7. Fits(five, text, code) => Fits(four, text, code) \/ Fits(InitRules, text, code)
  BY <1>4, TablesAreLists, FitsEither DEF five
<1>8. Fits(four, text, code) => Fits(three, text, code) \/ Fits(StateRules, text, code)
  BY <1>3, TablesAreLists, FitsEither DEF four
<1>9. Fits(three, text, code) => Fits(two, text, code) \/ Fits(NetworkRules, text, code)
  BY <1>2, TablesAreLists, FitsEither DEF three
<1>10. Fits(two, text, code) => Fits(WalletRules, text, code) \/ Fits(ExecutionRules, text, code)
  BY TablesAreLists, FitsEither DEF two
<1> QED
  BY <1>6, <1>7, <1>8, <1>9, <1>10

\* The codes of the rules, table by table.
LEMMA WalletRulesCodes ==
  /\ WalletRules[1].code = "WALLET_REJECTED"
  /\ WalletRules[2].code = "WALLET_NOT_INSTALLED"
  /\ WalletRules[3].code = "WALLET_PERMISSION_DENIED"
BY DEF WalletRules, Rule

\* The codes of the execution table,
LEMMA ExecutionRulesCodes ==
  /\ ExecutionRules[1].code = "TX_FAILED_ON_CHAIN"
  /\ ExecutionRules[2].code = "TX_BAD_SEQ"
  /\ ExecutionRules[3].code = "TX_INSUFFICIENT_FEE"
BY DEF ExecutionRules, Rule

\* of the network table,
LEMMA NetworkRulesCodes ==
  /\ NetworkRules[1].code = "NETWORK_TIMEOUT"
  /\ NetworkRules[2].code = "NETWORK_ERROR"
  /\ NetworkRules[3].code = "NETWORK_RPC_UNAVAILABLE"
BY DEF NetworkRules, Rule

\* of the table of states,
LEMMA StateRulesCodes ==
  /\ StateRules[1].code = "STATE_CIRCLE_PAUSED"
  /\ StateRules[2].code = "INIT_ALREADY_INITIALIZED"
  /\ StateRules[3].code = "STATE_ALREADY_JOINED"
  /\ StateRules[4].code = "STATE_ALREADY_CONTRIBUTED"
  /\ StateRules[5].code = "AUTH_NOT_A_MEMBER"
BY DEF StateRules, Rule

\* of the table of initialization,
LEMMA InitRulesCodes ==
  /\ InitRules[1].code = "INIT_TOO_FEW_MEMBERS"
  /\ InitRules[2].code = "INIT_TOO_MANY_MEMBERS"
  /\ InitRules[3].code = "INIT_DUPLICATE_MEMBERS"
  /\ InitRules[4].code = "INIT_INVALID_ROUND_AMOUNT"
  /\ InitRules[5].code = "INIT_POT_OVERFLOW"
  /\ InitRules[6].code = "INIT_PENALTY_OVERFLOW"
  /\ InitRules[7].code = "INIT_DEADLINE_BELOW_MINIMUM"
  /\ InitRules[8].code = "INIT_DEADLINE_ABOVE_MAXIMUM"
  /\ InitRules[9].code = "INIT_INVALID_TOKEN_ADDRESS"
  /\ InitRules[10].code = "TOKEN_UNUSABLE"
BY DEF InitRules, Rule

\* and of the table of funds.
LEMMA FundRulesCodes ==
  /\ FundRules[1].code = "TOKEN_INSUFFICIENT_BALANCE"
  /\ FundRules[2].code = "TOKEN_TRANSFER_FAILED"
  /\ FundRules[3].code = "DEADLINE_PASSED"
  /\ FundRules[4].code = "DEADLINE_NOT_PASSED"
  /\ FundRules[5].code = "STATE_ROUND_NOT_COMPLETE"
  /\ FundRules[6].code = "STATE_WRONG_STATUS"
  /\ FundRules[7].code = "STATE_ALREADY_CLOSED"
BY DEF FundRules, Rule

\* Only the first rule tells of a rejection, only the fourth of a failure.
LEMMA WhoSaysRejected ==
  ASSUME NEW text, Fits(Rules, text, "WALLET_REJECTED")
  PROVE  \E phrases \in WalletRules[1].any : phrases \subseteq text
<1>1. ~Fits(ExecutionRules, text, "WALLET_REJECTED")
  <2>1. ASSUME NEW i \in DOMAIN ExecutionRules PROVE ExecutionRules[i].code # "WALLET_REJECTED"
    <3>1. i = 1 \/ i = 2 \/ i = 3
      BY TablesAreLists
    <3> QED
      BY <3>1, ExecutionRulesCodes
  <2> QED
    BY <2>1 DEF Fits
<1>2. ~Fits(NetworkRules, text, "WALLET_REJECTED")
  <2>1. ASSUME NEW i \in DOMAIN NetworkRules PROVE NetworkRules[i].code # "WALLET_REJECTED"
    <3>1. i = 1 \/ i = 2 \/ i = 3
      BY TablesAreLists
    <3> QED
      BY <3>1, NetworkRulesCodes
  <2> QED
    BY <2>1 DEF Fits
<1>3. ~Fits(StateRules, text, "WALLET_REJECTED")
  <2>1. ASSUME NEW i \in DOMAIN StateRules PROVE StateRules[i].code # "WALLET_REJECTED"
    <3>1. i = 1 \/ i = 2 \/ i = 3 \/ i = 4 \/ i = 5
      BY TablesAreLists
    <3> QED
      BY <3>1, StateRulesCodes
  <2> QED
    BY <2>1 DEF Fits
<1>4. ~Fits(InitRules, text, "WALLET_REJECTED")
  <2>1. ASSUME NEW i \in DOMAIN InitRules PROVE InitRules[i].code # "WALLET_REJECTED"
    <3>1. i = 1 \/ i = 2 \/ i = 3 \/ i = 4 \/ i = 5 \/ i = 6 \/ i = 7 \/ i = 8 \/ i = 9 \/ i = 10
      BY TablesAreLists
    <3> QED
      BY <3>1, InitRulesCodes
  <2> QED
    BY <2>1 DEF Fits
<1>5. ~Fits(FundRules, text, "WALLET_REJECTED")
  <2>1. ASSUME NEW i \in DOMAIN FundRules PROVE FundRules[i].code # "WALLET_REJECTED"
    <3>1. i = 1 \/ i = 2 \/ i = 3 \/ i = 4 \/ i = 5 \/ i = 6 \/ i = 7
      BY TablesAreLists
    <3> QED
      BY <3>1, FundRulesCodes
  <2> QED
    BY <2>1 DEF Fits
<1>6. Fits(WalletRules, text, "WALLET_REJECTED")
  BY <1>1, <1>2, <1>3, <1>4, <1>5, FitsOneTable
<1>7. PICK i \in DOMAIN WalletRules : /\ WalletRules[i].code = "WALLET_REJECTED"
                               /\ \E phrases \in WalletRules[i].any : phrases \subseteq text
  BY <1>6 DEF Fits
<1>8. i = 1
  <2>1. i = 1 \/ i = 2 \/ i = 3
    BY TablesAreLists
  <2> QED
    BY <1>7, <2>1, WalletRulesCodes
<1> QED
  BY <1>7, <1>8

\* Only one rule says that a transaction failed on chain.
LEMMA WhoSaysFailed ==
  ASSUME NEW text, Fits(Rules, text, "TX_FAILED_ON_CHAIN")
  PROVE  \E phrases \in ExecutionRules[1].any : phrases \subseteq text
<1>1. ~Fits(WalletRules, text, "TX_FAILED_ON_CHAIN")
  <2>1. ASSUME NEW i \in DOMAIN WalletRules PROVE WalletRules[i].code # "TX_FAILED_ON_CHAIN"
    <3>1. i = 1 \/ i = 2 \/ i = 3
      BY TablesAreLists
    <3> QED
      BY <3>1, WalletRulesCodes
  <2> QED
    BY <2>1 DEF Fits
<1>2. ~Fits(NetworkRules, text, "TX_FAILED_ON_CHAIN")
  <2>1. ASSUME NEW i \in DOMAIN NetworkRules PROVE NetworkRules[i].code # "TX_FAILED_ON_CHAIN"
    <3>1. i = 1 \/ i = 2 \/ i = 3
      BY TablesAreLists
    <3> QED
      BY <3>1, NetworkRulesCodes
  <2> QED
    BY <2>1 DEF Fits
<1>3. ~Fits(StateRules, text, "TX_FAILED_ON_CHAIN")
  <2>1. ASSUME NEW i \in DOMAIN StateRules PROVE StateRules[i].code # "TX_FAILED_ON_CHAIN"
    <3>1. i = 1 \/ i = 2 \/ i = 3 \/ i = 4 \/ i = 5
      BY TablesAreLists
    <3> QED
      BY <3>1, StateRulesCodes
  <2> QED
    BY <2>1 DEF Fits
<1>4. ~Fits(InitRules, text, "TX_FAILED_ON_CHAIN")
  <2>1. ASSUME NEW i \in DOMAIN InitRules PROVE InitRules[i].code # "TX_FAILED_ON_CHAIN"
    <3>1. i = 1 \/ i = 2 \/ i = 3 \/ i = 4 \/ i = 5 \/ i = 6 \/ i = 7 \/ i = 8 \/ i = 9 \/ i = 10
      BY TablesAreLists
    <3> QED
      BY <3>1, InitRulesCodes
  <2> QED
    BY <2>1 DEF Fits
<1>5. ~Fits(FundRules, text, "TX_FAILED_ON_CHAIN")
  <2>1. ASSUME NEW i \in DOMAIN FundRules PROVE FundRules[i].code # "TX_FAILED_ON_CHAIN"
    <3>1. i = 1 \/ i = 2 \/ i = 3 \/ i = 4 \/ i = 5 \/ i = 6 \/ i = 7
      BY TablesAreLists
    <3> QED
      BY <3>1, FundRulesCodes
  <2> QED
    BY <2>1 DEF Fits
<1>6. Fits(ExecutionRules, text, "TX_FAILED_ON_CHAIN")
  BY <1>1, <1>2, <1>3, <1>4, <1>5, FitsOneTable
<1>7. PICK i \in DOMAIN ExecutionRules : /\ ExecutionRules[i].code = "TX_FAILED_ON_CHAIN"
                               /\ \E phrases \in ExecutionRules[i].any : phrases \subseteq text
  BY <1>6 DEF Fits
<1>8. i = 1
  <2>1. i = 1 \/ i = 2 \/ i = 3
    BY TablesAreLists
  <2> QED
    BY <1>7, <2>1, ExecutionRulesCodes
<1> QED
  BY <1>7, <1>8

\* So a rejection is only read from a word of rejection, a failure on chain only
\* from the words for one.
LEMMA RejectionIsWorded ==
  ASSUME NEW text, parseContractError(text) = "WALLET_REJECTED"
  PROVE  text \cap {"user rejected", "denied", "rejected", "cancelled", "canceled",
                    "freighter did not return"} # {}
<1>1. \E phrases \in WalletRules[1].any : phrases \subseteq text
  BY CodeOfARule, WhoSaysRejected
<1>2. WalletRules[1].any = One({"user rejected", "denied", "rejected", "cancelled", "canceled",
                               "freighter did not return"})
  BY DEF WalletRules, Rule
<1> QED
  BY <1>1, <1>2 DEF One

\* A text with that code contains one of its phrases.
LEMMA FailureIsWorded ==
  ASSUME NEW text, parseContractError(text) = "TX_FAILED_ON_CHAIN"
  PROVE  text \cap {"= transaction failed", "= tx_failed", "txfailed"} # {}
<1>1. \E phrases \in ExecutionRules[1].any : phrases \subseteq text
  BY CodeOfARule, WhoSaysFailed
<1>2. ExecutionRules[1].any = One({"= transaction failed", "= tx_failed", "txfailed"})
  BY DEF ExecutionRules, Rule
<1> QED
  BY <1>1, <1>2 DEF One

\* What a sentence claims of the transaction gives its code away.
LEMMA ClaimsOfCodes ==
  ASSUME NEW code
  PROVE  /\ "no funds were moved" \in USER_MESSAGES(code) => code = "WALLET_REJECTED"
         /\ "rejected on-chain" \in USER_MESSAGES(code) => code = "TX_FAILED_ON_CHAIN"
BY DEF USER_MESSAGES

\* Before the submission nothing says that the transaction was rejected on chain.
LEMMA EarlyErrors ==
  ASSUME NEW code \in simulationErrors \cup signatureErrors
  PROVE  "rejected on-chain" \notin USER_MESSAGES(code)
<1> SUFFICES ASSUME code = "TX_FAILED_ON_CHAIN" PROVE FALSE
  BY ClaimsOfCodes
<1>1. CASE code \in simulationErrors
  <2>1. PICK text : /\ text \in RpcTexts \cup {{"network"}}
                    /\ code = parseContractError(text)
    BY <1>1 DEF simulationErrors
  <2> QED
    BY <2>1, FailureIsWorded DEF RpcTexts
<1>2. CASE code \in signatureErrors
  <2> DEFINE Plain == {{}, {"not installed"}, {"user rejected"}, {"denied"}, {"network"},
                       {"freighter did not return"}}
             Missing == UNION {explainUnsupportedAction(caps) : caps \in Providers}
  <2>0. signatureErrors = {parseContractError(text) : text \in Plain \cup Missing}
    BY DEF signatureErrors
  <2> HIDE DEF Plain, Missing
  <2>1. PICK text \in Plain \cup Missing : code = parseContractError(text)
    BY <1>2, <2>0
  <2>2. ASSUME NEW caps PROVE explainUnsupportedAction(caps) \subseteq {{"freighter", "install"}, {"freighter"}}
    BY DEF explainUnsupportedAction
  <2>3. CASE text \in Plain
    BY <2>1, <2>3, FailureIsWorded DEF Plain
  <2>4. CASE text \in Missing
    <3>1. PICK caps \in Providers : text \in explainUnsupportedAction(caps)
      BY <2>4 DEF Missing
    <3>2. text \in {{"freighter", "install"}, {"freighter"}}
      BY <2>2, <3>1
    <3> QED
      BY <2>1, <3>2, FailureIsWorded
  <2> QED
    BY <2>1, <2>3, <2>4
<1> QED
  BY <1>1, <1>2

\* After it nothing says that no funds were moved.
LEMMA LateErrors ==
  ASSUME NEW code \in submissionErrors \cup confirmationErrors \cup {"UNKNOWN"}
  PROVE  "no funds were moved" \notin USER_MESSAGES(code)
<1> SUFFICES ASSUME code = "WALLET_REJECTED" PROVE FALSE
  BY ClaimsOfCodes
<1>1. PICK text : /\ code = parseContractError(text)
                  /\ text \in RpcTexts \cup {{"txbadseq"}, {"txinsufficientfee"}, {},
                                             {"= transaction failed"}, {"= timeout"}}
  <2>1. ASSUME NEW text PROVE onChainFailureError(text) \in
                  {parseContractError(text), parseContractError({"= transaction failed"})}
    BY DEF onChainFailureError
  <2> QED
    BY <2>1 DEF submissionErrors, confirmationErrors
<1> QED
  BY <1>1, RejectionIsWorded DEF RpcTexts

-----------------------------------------------------------------------------
(* The invariant.                                                          *)

ShownPage == [address : Accounts \cup {None}, pending : BOOLEAN, verified : BOOLEAN,
              refreshing : BOOLEAN, fetching : BOOLEAN, retry : BOOLEAN,
              told : SUBSET Claims, last : Nat]

Shape ==
  /\ page \in [Tabs -> ShownPage] /\ op \in [Tabs -> Op]
  /\ lease \in [Accounts -> Tabs \cup {None}]
  /\ account \in Accounts
  /\ attempts \in Nat

Busy(t) == op[t].phase \notin {"idle", "lease"}

\* An action has a signer, the account the page showed; while the wallet has not
\* changed the page shows it still.
SignerIsShown ==
  \A t \in Tabs : op[t].phase # "idle" =>
    /\ op[t].signer \in Accounts
    /\ op[t].same => page[t].address = op[t].signer

\* Unless its lease is known to have failed, an account has the lease of the tab
\* that acts for it, and none while a tab is between reading and writing it.
LeaseHolds ==
  \A t \in Tabs : op[t].phase # "idle" /\ op[t].signer \notin loophole =>
    lease[op[t].signer] = IF Busy(t) THEN t ELSE None

\* Attempts are numbered, no number is that of two tabs, and none that is still
\* to come has been sent.
Numbered ==
  /\ \A k \in sent : k \in Nat /\ k <= attempts
  /\ \A t \in Tabs : page[t].last <= attempts
  /\ \A t, u \in Tabs : t # u /\ page[t].last # 0 => page[t].last # page[u].last

\* An action under way has a number and has been told nothing yet; its envelope
\* is sent after the signature and not before.
SentInOrder ==
  \A t \in Tabs : Busy(t) =>
    /\ page[t].last # 0 /\ ~page[t].retry /\ page[t].told = {}
    /\ page[t].last \in sent <=> op[t].phase \in {"send", "poll", "refresh"}

SessionInv ==
  Shape /\ SignerIsShown /\ LeaseHolds /\ Numbered /\ SentInOrder /\ FailureIsHonest

\* The invariant holds before any tab is opened.
LEMMA SessionInvInit == SessionInit => SessionInv
<1> SUFFICES ASSUME SessionInit PROVE SessionInv
  OBVIOUS
<1>1. /\ page = [t \in Tabs |-> NewPage] /\ op = [t \in Tabs |-> NoOp]
      /\ lease = [a \in Accounts |-> None] /\ attempts = 0 /\ sent = {}
  BY DEF SessionInit
<1>2. NewPage \in ShownPage /\ NoOp \in Op
  BY DEF NewPage, ShownPage, NoOp, Op, Phases, Claims
<1>3. \A t \in Tabs : op[t].phase = "idle" /\ page[t].last = 0
  BY <1>1 DEF NewPage, NoOp
<1>4. Shape
  <2>1. account \in Accounts
    BY SessionAssumption DEF SessionInit
  <2>2. page \in [Tabs -> ShownPage] /\ op \in [Tabs -> Op]
    BY <1>1, <1>2
  <2>3. lease \in [Accounts -> Tabs \cup {None}] /\ attempts \in Nat
    BY <1>1
  <2> QED
    BY <2>1, <2>2, <2>3 DEF Shape
<1>5. SignerIsShown /\ LeaseHolds
  BY <1>3 DEF SignerIsShown, LeaseHolds
<1>6. Numbered
  BY <1>1, <1>3 DEF Numbered
<1>7. SentInOrder /\ FailureIsHonest
  BY <1>3 DEF SentInOrder, FailureIsHonest, Busy
<1> QED
  BY <1>4, <1>5, <1>6, <1>7 DEF SessionInv

-----------------------------------------------------------------------------
(* Steps of one tab.                                                       *)

Sending == {"send", "poll", "refresh"}

\* A tab's page or its action changes, but neither the lease nor what was sent:
\* wallet events, refreshes, a closed tab, and an action that goes on.
StaysStep(t, p, o) ==
  /\ t \in Tabs /\ p \in ShownPage /\ o \in Op
  /\ page' = [page EXCEPT ![t] = p] /\ op' = [op EXCEPT ![t] = o]
  /\ UNCHANGED <<lease, sent, attempts, loophole>>
  /\ account' \in Accounts

\* Such a step keeps the invariant.
LEMMA Stays ==
  ASSUME SessionInv, NEW t, NEW p, NEW o, StaysStep(t, p, o),
         \/ o.phase = "idle" /\ p.last \in {0, page[t].last}
         \/ /\ o.signer = op[t].signer /\ op[t].phase # "idle" /\ o.phase # "idle"
            /\ o.phase = "lease" <=> op[t].phase = "lease"
            /\ o.phase \in Sending <=> op[t].phase \in Sending
            /\ p.last = page[t].last,
         o.phase # "idle" /\ o.same => p.address = o.signer,
         \/ ~p.retry /\ p.told = {}
         \/ p.retry = page[t].retry /\ p.told = page[t].told
  PROVE  SessionInv'
<1>1. Shape /\ SignerIsShown /\ LeaseHolds /\ Numbered /\ SentInOrder /\ FailureIsHonest
  BY DEF SessionInv
<1>2. /\ t \in Tabs /\ p \in ShownPage /\ o \in Op
      /\ page' = [page EXCEPT ![t] = p] /\ op' = [op EXCEPT ![t] = o]
      /\ lease' = lease /\ sent' = sent /\ attempts' = attempts /\ loophole' = loophole
      /\ account' \in Accounts
  BY DEF StaysStep
<1>3. Shape'
  BY <1>1, <1>2 DEF Shape
<1>4. \A u \in Tabs : u # t => page'[u] = page[u] /\ op'[u] = op[u]
  BY <1>1, <1>2 DEF Shape
<1>5. page'[t] = p /\ op'[t] = o
  BY <1>1, <1>2 DEF Shape
<1>6. p.last \in {0, page[t].last}
  OBVIOUS
<1>7. SignerIsShown'
  BY <1>1, <1>4, <1>5 DEF SignerIsShown
<1>8. LeaseHolds'
  BY <1>1, <1>2, <1>4, <1>5 DEF LeaseHolds, Busy
<1>9. Numbered'
  BY <1>1, <1>2, <1>4, <1>5, <1>6 DEF Numbered, Shape
<1>10. SentInOrder'
  BY <1>1, <1>2, <1>4, <1>5 DEF SentInOrder, Busy, Sending
<1>11. FailureIsHonest'
  <2>1. ASSUME NEW u \in Tabs, u # t, page'[u].last # 0
        PROVE  /\ page'[u].retry \/ "no funds were moved" \in page'[u].told
                    => page'[u].last \notin sent'
               /\ "rejected on-chain" \in page'[u].told => page'[u].last \in sent'
    <3>1. page'[u] = page[u] /\ sent' = sent
      BY <1>2, <1>4, <2>1
    <3>2. page[u].last # 0
      BY <3>1, <2>1
    <3>3. /\ page[u].retry \/ "no funds were moved" \in page[u].told
                    => page[u].last \notin sent
          /\ "rejected on-chain" \in page[u].told => page[u].last \in sent
      BY <1>1, <3>2 DEF FailureIsHonest
    <3> QED
      BY <3>1, <3>3
  <2>2. ASSUME p.last # 0
        PROVE  /\ p.retry \/ "no funds were moved" \in p.told => p.last \notin sent
               /\ "rejected on-chain" \in p.told => p.last \in sent
    BY <1>1, <1>2, <1>6, <2>2 DEF FailureIsHonest
  <2>3. ASSUME page'[t].last # 0
        PROVE  /\ page'[t].retry \/ "no funds were moved" \in page'[t].told
                    => page'[t].last \notin sent'
               /\ "rejected on-chain" \in page'[t].told => page'[t].last \in sent'
    <3>1. page'[t] = p /\ sent' = sent
      BY <1>2, <1>5
    <3> QED
      BY <2>2, <2>3, <3>1
  <2> QED
    BY <2>1, <2>3 DEF FailureIsHonest
<1> QED
  BY <1>3, <1>7, <1>8, <1>9, <1>10, <1>11 DEF SessionInv

\* An action ends: what the page then says must be true of the attempt.
EndsStep(t, p) ==
  /\ op[t].phase # "idle" /\ Release(t)
  /\ page' = [page EXCEPT ![t] = p]
  /\ UNCHANGED <<account, sent, attempts>>
  /\ p.last \in {0, page[t].last}
  /\ p.last # 0 =>
       /\ p.retry \/ "no funds were moved" \in p.told => p.last \notin sent
       /\ "rejected on-chain" \in p.told => p.last \in sent

\* Such a step keeps the invariant.
LEMMA Ends ==
  ASSUME SessionInv, NEW t \in Tabs, NEW p \in ShownPage, EndsStep(t, p)
  PROVE  SessionInv'
<1>1. Shape /\ SignerIsShown /\ LeaseHolds /\ Numbered /\ SentInOrder /\ FailureIsHonest
  BY DEF SessionInv
<1>2. /\ lease' = [lease EXCEPT ![op[t].signer] = None]
      /\ op' = [op EXCEPT ![t] = NoOp]
      /\ loophole \subseteq loophole'
      /\ op[t].phase # "idle"
  BY DEF EndsStep, Release
<1>2a. /\ page' = [page EXCEPT ![t] = p]
       /\ sent' = sent /\ attempts' = attempts /\ account' = account
       /\ p.last \in {0, page[t].last}
  BY DEF EndsStep
<1>2b. p.last # 0 =>
         /\ p.retry \/ "no funds were moved" \in p.told => p.last \notin sent
         /\ "rejected on-chain" \in p.told => p.last \in sent
  BY DEF EndsStep
<1>3. NoOp \in Op /\ NoOp.phase = "idle"
  BY DEF NoOp, Op, Phases
<1>4. \A u \in Tabs : u # t => page'[u] = page[u] /\ op'[u] = op[u]
  BY <1>1, <1>2, <1>2a DEF Shape
<1>5. page'[t] = p /\ op'[t].phase = "idle"
  <2>1. page'[t] = p
    BY <1>1, <1>2a DEF Shape
  <2>2. op'[t] = NoOp
    BY <1>1, <1>2 DEF Shape
  <2>3. op'[t].phase = "idle"
    BY <2>2 DEF NoOp
  <2> QED
    BY <2>1, <2>3
<1>6. op[t].signer \in Accounts
  BY <1>1, <1>2 DEF SignerIsShown
<1>7. Shape'
  BY <1>1, <1>2, <1>2a, <1>3 DEF Shape
<1>8. SignerIsShown'
  BY <1>1, <1>4, <1>5 DEF SignerIsShown
<1>9. LeaseHolds'
  <2> SUFFICES ASSUME NEW u \in Tabs, op'[u].phase # "idle", op'[u].signer \notin loophole'
               PROVE  lease'[op'[u].signer] = IF Busy(u)' THEN u ELSE None
    BY DEF LeaseHolds
  <2>1. u # t /\ op'[u] = op[u]
    BY <1>4, <1>5
  <2>2. lease[op[u].signer] = IF Busy(u) THEN u ELSE None
    BY <1>1, <1>2, <2>1 DEF LeaseHolds
  <2>3. op[u].signer \in Accounts
    BY <1>1, <2>1 DEF SignerIsShown
  <2>4. CASE op[u].signer = op[t].signer
    <3>1. lease[op[t].signer] = IF Busy(t) THEN t ELSE None
      BY <1>1, <1>2, <2>1, <2>4 DEF LeaseHolds
    <3>2. ~Busy(u)
      BY <2>1, <2>2, <2>4, <3>1, SessionAssumption
    <3> QED
      BY <1>1, <1>2, <2>1, <2>3, <2>4, <3>2 DEF Busy, Shape
  <2>5. CASE op[u].signer # op[t].signer
    BY <1>1, <1>2, <2>1, <2>2, <2>3, <2>5 DEF Busy, Shape
  <2> QED
    BY <2>4, <2>5
<1>10. Numbered'
  <2>0. \A u \in Tabs : page'[u].last \in {0, page[u].last}
    BY <1>2a, <1>4, <1>5
  <2>1. \A k \in sent' : k \in Nat /\ k <= attempts'
    BY <1>1, <1>2a DEF Numbered
  <2>2. \A u \in Tabs : page'[u].last <= attempts'
    BY <1>1, <1>2a, <2>0 DEF Numbered, Shape
  <2>3. \A u, v \in Tabs : u # v /\ page'[u].last # 0 => page'[u].last # page'[v].last
    BY <1>1, <2>0 DEF Numbered
  <2> QED
    BY <2>1, <2>2, <2>3 DEF Numbered
<1>11. SentInOrder'
  <2> SUFFICES ASSUME NEW u \in Tabs, op'[u].phase \notin {"idle", "lease"}
               PROVE  /\ page'[u].last # 0 /\ ~page'[u].retry /\ page'[u].told = {}
                      /\ page'[u].last \in sent' <=> op'[u].phase \in {"send", "poll", "refresh"}
    BY DEF SentInOrder, Busy
  <2>1. page'[u] = page[u] /\ op'[u] = op[u]
    BY <1>4, <1>5
  <2>2. /\ page[u].last # 0 /\ ~page[u].retry /\ page[u].told = {}
        /\ page[u].last \in sent <=> op[u].phase \in {"send", "poll", "refresh"}
    BY <1>1, <2>1 DEF SentInOrder, Busy
  <2>3. sent' = sent
    BY <1>2a
  <2> QED
    BY <2>1, <2>2, <2>3
<1>12. FailureIsHonest'
  <2>1. ASSUME NEW u \in Tabs, u # t, page'[u].last # 0
        PROVE  /\ page'[u].retry \/ "no funds were moved" \in page'[u].told
                    => page'[u].last \notin sent'
               /\ "rejected on-chain" \in page'[u].told => page'[u].last \in sent'
    <3>1. page'[u] = page[u] /\ sent' = sent
      BY <1>2a, <1>4, <2>1
    <3>2. page[u].last # 0
      BY <3>1, <2>1
    <3>3. /\ page[u].retry \/ "no funds were moved" \in page[u].told
                    => page[u].last \notin sent
          /\ "rejected on-chain" \in page[u].told => page[u].last \in sent
      BY <1>1, <3>2 DEF FailureIsHonest
    <3> QED
      BY <3>1, <3>3
  <2>2. ASSUME page'[t].last # 0
        PROVE  /\ page'[t].retry \/ "no funds were moved" \in page'[t].told
                    => page'[t].last \notin sent'
               /\ "rejected on-chain" \in page'[t].told => page'[t].last \in sent'
    <3>1. page'[t] = p /\ sent' = sent
      BY <1>2a, <1>5
    <3> QED
      BY <1>2b, <2>2, <3>1
  <2> QED
    BY <2>1, <2>2 DEF FailureIsHonest
<1> QED
  BY <1>7, <1>8, <1>9, <1>10, <1>11, <1>12 DEF SessionInv

\* A failure before the envelope is sent, and after it.
LEMMA Fails ==
  ASSUME SessionInv, NEW t \in Tabs, NEW hash \in BOOLEAN, NEW code,
         Busy(t), Fail(t, hash, code), UNCHANGED <<account, sent, attempts>>,
         IF hash THEN op[t].phase \in Sending /\ "no funds were moved" \notin USER_MESSAGES(code)
                 ELSE op[t].phase \notin Sending /\ "rejected on-chain" \notin USER_MESSAGES(code)
  PROVE  SessionInv'
<1>1. Shape /\ SentInOrder
  BY DEF SessionInv
<1> DEFINE offered == ~op[t].aborted /\ ~hash /\ isRetryableError(USER_MESSAGES(code))
           says == IF op[t].aborted THEN {} ELSE USER_MESSAGES(code) \cap Claims
           p == [page[t] EXCEPT !.retry = offered, !.told = says]
<1>2. page' = [page EXCEPT ![t].retry = offered, ![t].told = says] /\ Release(t)
  BY DEF Fail
<1>3. offered \in BOOLEAN /\ (offered => ~hash)
  OBVIOUS
<1>4. /\ says \subseteq Claims
      /\ \A claim \in says : claim \in USER_MESSAGES(code)
  OBVIOUS
<1> HIDE DEF offered, says
<1>5. page[t] \in ShownPage
  BY <1>1 DEF Shape
<1>6. p \in ShownPage /\ p.last = page[t].last /\ p.retry = offered /\ p.told = says
  BY <1>3, <1>4, <1>5 DEF ShownPage
<1>7. page' = [page EXCEPT ![t] = p]
  BY <1>1, <1>2, <1>5 DEF Shape, ShownPage
<1> HIDE DEF p
<1>8. page[t].last \in sent <=> op[t].phase \in Sending
  BY <1>1 DEF SentInOrder, Sending
<1>9. op[t].phase # "idle"
  BY DEF Busy
<1>10. p.last # 0 =>
         /\ p.retry \/ "no funds were moved" \in p.told => p.last \notin sent
         /\ "rejected on-chain" \in p.told => p.last \in sent
  BY <1>3, <1>4, <1>6, <1>8
<1>11. EndsStep(t, p)
  BY <1>2, <1>6, <1>7, <1>9, <1>10 DEF EndsStep
<1> QED
  BY <1>6, <1>11, Ends

-----------------------------------------------------------------------------
(* Every action keeps the invariant.                                       *)

\* Another account in the wallet.
LEMMA SwitchAccountStep ==
  ASSUME SessionInv, NEW a \in Accounts, SwitchAccount(a) PROVE SessionInv'
<1>1. Shape /\ SignerIsShown /\ LeaseHolds /\ Numbered /\ SentInOrder /\ FailureIsHonest
  BY DEF SessionInv
<1>2. /\ page' = [t \in Tabs |-> [page[t] EXCEPT !.pending = TRUE]]
      /\ account' = a /\ lease' = lease /\ op' = op /\ sent' = sent
      /\ attempts' = attempts /\ loophole' = loophole
  BY DEF SwitchAccount
<1>3. \A t \in Tabs :
        /\ page'[t] \in ShownPage
        /\ page'[t].address = page[t].address /\ page'[t].last = page[t].last
        /\ page'[t].retry = page[t].retry /\ page'[t].told = page[t].told
  BY <1>1, <1>2 DEF Shape, ShownPage
<1>4. Shape'
  BY <1>1, <1>2, <1>3 DEF Shape
<1>5. SignerIsShown'
  BY <1>1, <1>2, <1>3 DEF SignerIsShown
<1>6. LeaseHolds'
  BY <1>1, <1>2 DEF LeaseHolds, Busy
<1>7. Numbered'
  BY <1>1, <1>2, <1>3 DEF Numbered
<1>8. SentInOrder'
  BY <1>1, <1>2, <1>3 DEF SentInOrder, Busy
<1>9. FailureIsHonest'
  <2> SUFFICES ASSUME NEW t \in Tabs, page'[t].last # 0
               PROVE  /\ page'[t].retry \/ "no funds were moved" \in page'[t].told
                           => page'[t].last \notin sent'
                      /\ "rejected on-chain" \in page'[t].told => page'[t].last \in sent'
    BY DEF FailureIsHonest
  <2>1. /\ page'[t].last = page[t].last /\ sent' = sent
        /\ page'[t].retry = page[t].retry /\ page'[t].told = page[t].told
    BY <1>2, <1>3
  <2>2. /\ page[t].retry \/ "no funds were moved" \in page[t].told
             => page[t].last \notin sent
        /\ "rejected on-chain" \in page[t].told => page[t].last \in sent
    BY <1>1, <2>1 DEF FailureIsHonest
  <2> QED
    BY <2>1, <2>2
<1> QED
  BY <1>4, <1>5, <1>6, <1>7, <1>8, <1>9 DEF SessionInv

\* A lease runs out.
LEMMA LeaseExpiresStep ==
  ASSUME SessionInv, NEW a \in Accounts, LeaseExpires(a) PROVE SessionInv'
<1>1. Shape /\ SignerIsShown /\ LeaseHolds /\ Numbered /\ SentInOrder /\ FailureIsHonest
  BY DEF SessionInv
<1>2. /\ lease' = [lease EXCEPT ![a] = None]
      /\ loophole' = loophole \cup
           {b \in {a} : \E t \in Tabs : op[t].signer = b /\ lease[b] = t}
      /\ account' = account /\ page' = page /\ op' = op /\ sent' = sent
      /\ attempts' = attempts
  BY DEF LeaseExpires
<1>3. Shape'
  BY <1>1, <1>2 DEF Shape
<1>4. LeaseHolds'
  <2> SUFFICES ASSUME NEW t \in Tabs, op[t].phase # "idle", op[t].signer \notin loophole'
               PROVE  lease'[op[t].signer] = IF Busy(t) THEN t ELSE None
    BY <1>2 DEF LeaseHolds, Busy
  <2>1. lease[op[t].signer] = IF Busy(t) THEN t ELSE None
    BY <1>1, <1>2 DEF LeaseHolds
  <2>2. op[t].signer \in Accounts
    BY <1>1 DEF SignerIsShown
  <2>3. op[t].signer = a => ~Busy(t)
    BY <1>2, <2>1
  <2> QED
    BY <1>1, <1>2, <2>1, <2>2, <2>3 DEF Shape
<1>5. SignerIsShown' /\ Numbered'
  BY <1>1, <1>2 DEF SignerIsShown, Numbered
<1>6. SentInOrder'
  BY <1>1, <1>2 DEF SentInOrder, Busy
<1>7. FailureIsHonest'
  BY <1>1, <1>2 DEF FailureIsHonest
<1> QED
  BY <1>3, <1>4, <1>5, <1>6, <1>7 DEF SessionInv

\* A click on a button.
LEMMA ClickStep ==
  ASSUME SessionInv, NEW t \in Tabs, NEW retry \in BOOLEAN, Click(t, retry) PROVE SessionInv'
<1>1. Shape /\ SignerIsShown /\ LeaseHolds /\ Numbered /\ SentInOrder /\ FailureIsHonest
  BY DEF SessionInv
<1> DEFINE o == [phase |-> "lease", signer |-> page[t].address, same |-> TRUE, aborted |-> FALSE]
<1>2. /\ op' = [op EXCEPT ![t] = o]
      /\ account' = account /\ lease' = lease /\ page' = page /\ sent' = sent
      /\ attempts' = attempts /\ loophole' = loophole
  BY DEF Click
<1>3. /\ op[t].phase = "idle" /\ page[t].address # None
      /\ lease[page[t].address] = None
  BY DEF Click, MayAct, LeaseFree
<1>4. page[t].address \in Accounts
  BY <1>1, <1>3 DEF Shape, ShownPage
<1>5. o \in Op
  BY <1>4 DEF Op, Phases
<1>6. o.phase = "lease" /\ o.signer = page[t].address
  OBVIOUS
<1> HIDE DEF o
<1>7. Shape'
  BY <1>1, <1>2, <1>5 DEF Shape
<1>8. op'[t] = o /\ \A u \in Tabs : u # t => op'[u] = op[u]
  BY <1>1, <1>2 DEF Shape
<1>9. SignerIsShown'
  BY <1>1, <1>2, <1>4, <1>6, <1>8 DEF SignerIsShown
<1>10. LeaseHolds'
  <2> SUFFICES ASSUME NEW u \in Tabs, op'[u].phase # "idle", op'[u].signer \notin loophole
               PROVE  lease[op'[u].signer] = IF op'[u].phase \notin {"idle", "lease"} THEN u ELSE None
    BY <1>2 DEF LeaseHolds, Busy
  <2>1. CASE u = t
    BY <1>3, <1>6, <1>8, <2>1
  <2>2. CASE u # t
    BY <1>1, <1>8, <2>2 DEF LeaseHolds, Busy
  <2> QED
    BY <2>1, <2>2
<1>11. Numbered' /\ FailureIsHonest'
  <2>1. Numbered'
    BY <1>1, <1>2 DEF Numbered
  <2>2. FailureIsHonest'
    BY <1>1, <1>2 DEF FailureIsHonest
  <2> QED
    BY <2>1, <2>2
<1>12. SentInOrder'
  <2> SUFFICES ASSUME NEW u \in Tabs, op'[u].phase \notin {"idle", "lease"}
               PROVE  /\ page'[u].last # 0 /\ ~page'[u].retry /\ page'[u].told = {}
                      /\ page'[u].last \in sent' <=> op'[u].phase \in {"send", "poll", "refresh"}
    BY DEF SentInOrder, Busy
  <2>1. op'[u] = op[u]
    BY <1>6, <1>8
  <2>2. /\ page[u].last # 0 /\ ~page[u].retry /\ page[u].told = {}
        /\ page[u].last \in sent <=> op[u].phase \in {"send", "poll", "refresh"}
    BY <1>1, <2>1 DEF SentInOrder, Busy
  <2> QED
    BY <1>2, <2>1, <2>2
<1> QED
  BY <1>7, <1>9, <1>10, <1>11, <1>12 DEF SessionInv

\* The next number is new.
LEMMA NextNumber ==
  ASSUME SessionInv
  PROVE  /\ attempts + 1 \in Nat /\ attempts + 1 # 0 /\ attempts + 1 \notin sent
         /\ \A t \in Tabs : page[t].last # attempts + 1 /\ page[t].last <= attempts + 1
         /\ \A k \in sent : k <= attempts + 1
<1>1. Shape /\ Numbered
  BY DEF SessionInv
<1>2. attempts \in Nat /\ \A t \in Tabs : page[t].last \in Nat /\ page[t].last <= attempts
  BY <1>1 DEF Shape, ShownPage, Numbered
<1>3. \A k \in sent : k \in Nat /\ k <= attempts
  BY <1>1 DEF Numbered
<1> QED
  BY <1>2, <1>3

\* An action that writes its lease and goes on.
Begins(t) ==
  /\ op[t].phase = "lease"
  /\ account' = account /\ sent' = sent
  /\ attempts' = attempts + 1
  /\ page' = [page EXCEPT ![t].retry = FALSE, ![t].told = {}, ![t].last = attempts + 1]
  /\ op' = [op EXCEPT ![t].phase = "simulate"]
  /\ lease' = [lease EXCEPT ![op[t].signer] = t]
  /\ loophole' = loophole \cup
       {a \in {op[t].signer} : \E u \in Tabs \ {t} :
          op[u].phase = "lease" /\ op[u].signer = a}

\* An attempt begins.
LEMMA BeginStep ==
  ASSUME SessionInv, NEW t \in Tabs, Begins(t) PROVE SessionInv'
<1>1. Shape /\ SignerIsShown /\ LeaseHolds /\ Numbered /\ SentInOrder /\ FailureIsHonest
  BY DEF SessionInv
<1> DEFINE n == attempts + 1
           p == [page[t] EXCEPT !.retry = FALSE, !.told = {}, !.last = n]
           o == [op[t] EXCEPT !.phase = "simulate"]
<1>2. n \in Nat /\ n # 0 /\ n \notin sent
  BY NextNumber
<1>3. /\ \A u \in Tabs : page[u].last # n /\ page[u].last <= n
      /\ \A k \in sent : k \in Nat /\ k <= n
  BY <1>1, NextNumber DEF Numbered
<1>4. page[t] \in ShownPage /\ op[t] \in Op /\ op[t].phase = "lease"
  BY <1>1 DEF Shape, Begins
<1>5. attempts' = n /\ sent' = sent /\ account' = account
  BY DEF Begins
<1>6. /\ page' = [page EXCEPT ![t].retry = FALSE, ![t].told = {}, ![t].last = n]
      /\ op' = [op EXCEPT ![t].phase = "simulate"]
      /\ lease' = [lease EXCEPT ![op[t].signer] = t]
  BY DEF Begins
<1>7. /\ loophole \subseteq loophole'
      /\ op[t].signer \notin loophole' =>
           \A u \in Tabs : u # t /\ op[u].phase = "lease" => op[u].signer # op[t].signer
  BY DEF Begins
<1> HIDE DEF n
<1>8. p \in ShownPage /\ p.last = n /\ p.retry = FALSE /\ p.told = {} /\ p.address = page[t].address
  BY <1>2, <1>4 DEF ShownPage
<1>9. o \in Op /\ o.phase = "simulate" /\ o.signer = op[t].signer /\ o.same = op[t].same
  BY <1>4 DEF Op, Phases
<1>10. page' = [page EXCEPT ![t] = p] /\ op' = [op EXCEPT ![t] = o]
  BY <1>1, <1>6 DEF Shape, ShownPage, Op
<1> HIDE DEF p, o
<1>11. op[t].signer \in Accounts
  BY <1>1, <1>4 DEF SignerIsShown
<1>12. Shape'
  <2>1. page' \in [Tabs -> ShownPage] /\ op' \in [Tabs -> Op]
    BY <1>1, <1>8, <1>9, <1>10 DEF Shape
  <2>2. lease' \in [Accounts -> Tabs \cup {None}]
    BY <1>1, <1>6, <1>11 DEF Shape
  <2>3. attempts' \in Nat /\ account' \in Accounts
    BY <1>1, <1>2, <1>5 DEF Shape
  <2> QED
    BY <2>1, <2>2, <2>3 DEF Shape
<1>13. /\ page'[t] = p /\ op'[t] = o
       /\ \A u \in Tabs : u # t => page'[u] = page[u] /\ op'[u] = op[u]
  BY <1>1, <1>10 DEF Shape
<1>14. SignerIsShown'
  BY <1>1, <1>4, <1>8, <1>9, <1>13 DEF SignerIsShown
<1>15. LeaseHolds'
  <2> SUFFICES ASSUME NEW u \in Tabs, op'[u].phase # "idle", op'[u].signer \notin loophole'
               PROVE  lease'[op'[u].signer] = IF op'[u].phase \notin {"idle", "lease"} THEN u ELSE None
    BY DEF LeaseHolds, Busy
  <2>1. CASE u = t
    BY <1>1, <1>6, <1>9, <1>11, <1>13, <2>1 DEF Shape
  <2>2. CASE u # t
    <3>1. op'[u] = op[u] /\ op[u].signer \in Accounts
      BY <1>1, <1>13, <2>2 DEF SignerIsShown
    <3>2. lease[op[u].signer] = IF Busy(u) THEN u ELSE None
      BY <1>1, <1>7, <3>1 DEF LeaseHolds
    <3>3. op[u].signer # op[t].signer
      <4>1. CASE Busy(u)
        <5>1. op[t].signer \notin loophole => lease[op[t].signer] = None
          BY <1>1, <1>4 DEF LeaseHolds, Busy
        <5> QED
          BY <1>7, <3>1, <3>2, <4>1, <5>1, SessionAssumption
      <4>2. CASE ~Busy(u)
        BY <1>7, <2>2, <3>1, <4>2 DEF Busy
      <4> QED
        BY <4>1, <4>2
    <3> QED
      BY <1>1, <1>6, <3>1, <3>2, <3>3 DEF Busy, Shape
  <2> QED
    BY <2>1, <2>2
<1>16. Numbered'
  <2>1. \A k \in sent' : k \in Nat /\ k <= attempts'
    BY <1>3, <1>5
  <2>2. \A u \in Tabs : page'[u].last <= attempts'
    BY <1>2, <1>3, <1>5, <1>8, <1>13
  <2>3. ASSUME NEW u \in Tabs, NEW v \in Tabs, u # v, page'[u].last # 0
        PROVE  page'[u].last # page'[v].last
    <3>1. CASE u = t
      BY <1>3, <1>8, <1>13, <2>3, <3>1
    <3>2. CASE v = t
      BY <1>3, <1>8, <1>13, <2>3, <3>2
    <3>3. CASE u # t /\ v # t
      BY <1>1, <1>13, <2>3, <3>3 DEF Numbered
    <3> QED
      BY <3>1, <3>2, <3>3
  <2> QED
    BY <2>1, <2>2, <2>3 DEF Numbered
<1>17. SentInOrder'
  <2> SUFFICES ASSUME NEW u \in Tabs, op'[u].phase \notin {"idle", "lease"}
               PROVE  /\ page'[u].last # 0 /\ ~page'[u].retry /\ page'[u].told = {}
                      /\ page'[u].last \in sent' <=> op'[u].phase \in {"send", "poll", "refresh"}
    BY DEF SentInOrder, Busy
  <2>1. CASE u = t
    BY <1>2, <1>5, <1>8, <1>9, <1>13, <2>1
  <2>2. CASE u # t
    <3>1. op'[u] = op[u] /\ page'[u] = page[u] /\ sent' = sent
      BY <1>5, <1>13, <2>2
    <3>2. /\ page[u].last # 0 /\ ~page[u].retry /\ page[u].told = {}
          /\ page[u].last \in sent <=> op[u].phase \in {"send", "poll", "refresh"}
      BY <1>1, <3>1 DEF SentInOrder, Busy
    <3> QED
      BY <3>1, <3>2
  <2> QED
    BY <2>1, <2>2
<1>18. FailureIsHonest'
  <2> SUFFICES ASSUME NEW u \in Tabs, page'[u].last # 0
               PROVE  /\ page'[u].retry \/ "no funds were moved" \in page'[u].told
                           => page'[u].last \notin sent'
                      /\ "rejected on-chain" \in page'[u].told => page'[u].last \in sent'
    BY DEF FailureIsHonest
  <2>1. CASE u = t
    BY <1>2, <1>5, <1>8, <1>13, <2>1
  <2>2. CASE u # t
    <3>1. page'[u] = page[u] /\ sent' = sent
      BY <1>5, <1>13, <2>2
    <3>2. /\ page[u].retry \/ "no funds were moved" \in page[u].told
               => page[u].last \notin sent
          /\ "rejected on-chain" \in page[u].told => page[u].last \in sent
      BY <1>1, <3>1 DEF FailureIsHonest
    <3> QED
      BY <3>1, <3>2
  <2> QED
    BY <2>1, <2>2
<1> QED
  BY <1>12, <1>14, <1>15, <1>16, <1>17, <1>18 DEF SessionInv

\* A tab writes its lease.
LEMMA WriteLeaseStep ==
  ASSUME SessionInv, NEW t \in Tabs, WriteLease(t) PROVE SessionInv'
<1>1. Shape
  BY DEF SessionInv
<1>2. CASE Begins(t)
  BY <1>2, BeginStep
<1>3. CASE \E retryable \in BOOLEAN :
             /\ page' = [page EXCEPT ![t].retry = retryable, ![t].told = {}, ![t].last = 0]
             /\ Release(t)
             /\ UNCHANGED <<account, sent, attempts>>
  <2>1. PICK retryable \in BOOLEAN :
          /\ page' = [page EXCEPT ![t].retry = retryable, ![t].told = {}, ![t].last = 0]
          /\ Release(t)
          /\ UNCHANGED <<account, sent, attempts>>
    BY <1>3
  <2> DEFINE p == [page[t] EXCEPT !.retry = retryable, !.told = {}, !.last = 0]
  <2>2. page[t] \in ShownPage
    BY <1>1 DEF Shape
  <2>3. p \in ShownPage /\ p.last = 0
    BY <2>2 DEF ShownPage
  <2>4. page' = [page EXCEPT ![t] = p]
    BY <1>1, <2>1, <2>2 DEF Shape, ShownPage
  <2> HIDE DEF p
  <2>5. op[t].phase # "idle"
    BY DEF WriteLease
  <2>6. EndsStep(t, p)
    BY <2>1, <2>3, <2>4, <2>5 DEF EndsStep
  <2> QED
    BY <2>3, <2>6, Ends
<1> QED
  BY <1>2, <1>3 DEF WriteLease, Begins

\* The wallet reports another account.
LEMMA WalletEventStep ==
  ASSUME SessionInv, NEW t \in Tabs, WalletEvent(t) PROVE SessionInv'
<1>1. Shape /\ SignerIsShown
  BY DEF SessionInv
<1> DEFINE p == [NewPage EXCEPT !.last = page[t].last]
           o == IF op[t].phase = "idle" THEN op[t]
                ELSE [op[t] EXCEPT !.same = FALSE, !.aborted = TRUE]
<1>2. page[t] \in ShownPage /\ op[t] \in Op
  BY <1>1 DEF Shape
<1>3. p \in ShownPage /\ p.last = page[t].last /\ p.retry = FALSE /\ p.told = {}
  BY <1>2 DEF ShownPage, NewPage
<1>4. /\ o \in Op /\ o.phase = op[t].phase /\ o.signer = op[t].signer
      /\ o.phase # "idle" => ~o.same
  BY <1>2 DEF Op
<1>5. /\ page' = [page EXCEPT ![t] = p] /\ op' = [op EXCEPT ![t] = o]
      /\ UNCHANGED <<lease, sent, attempts, loophole, account>>
  BY <1>1 DEF WalletEvent, Shape
<1>6. account \in Accounts
  BY <1>1 DEF Shape
<1> HIDE DEF p, o
<1>7. StaysStep(t, p, o)
  BY <1>3, <1>4, <1>5, <1>6 DEF StaysStep
<1> QED
  BY <1>3, <1>4, <1>7, Stays

\* Steps that change the page of a tab, and not what it says of the last action.
LEMMA PageStep ==
  ASSUME SessionInv, NEW t \in Tabs, NEW p \in ShownPage,
         page' = [page EXCEPT ![t] = p],
         UNCHANGED <<account, lease, op, sent, attempts, loophole>>,
         p.last = page[t].last /\ p.retry = page[t].retry /\ p.told = page[t].told,
         p.address = page[t].address \/ page[t].address = None
  PROVE  SessionInv'
<1>1. Shape /\ SignerIsShown
  BY DEF SessionInv
<1>2. op[t] \in Op /\ op' = [op EXCEPT ![t] = op[t]] /\ account' \in Accounts
  BY <1>1 DEF Shape
<1>3. StaysStep(t, p, op[t])
  BY <1>2 DEF StaysStep
<1>4. op[t].phase # "idle" /\ op[t].same => p.address = op[t].signer
  BY <1>1, SessionAssumption DEF SignerIsShown
<1> QED
  BY <1>3, <1>4, Stays

\* Steps that carry an action on and change nothing else.
LEMMA GoesOn ==
  ASSUME SessionInv, NEW t \in Tabs, NEW phase \in Phases \ {"idle", "lease"}, Busy(t),
         phase \in Sending <=> op[t].phase \in Sending,
         op' = [op EXCEPT ![t].phase = phase],
         UNCHANGED <<account, page, lease, sent, attempts, loophole>>
  PROVE  SessionInv'
<1>1. Shape /\ SignerIsShown
  BY DEF SessionInv
<1> DEFINE o == [op[t] EXCEPT !.phase = phase]
<1>2. op[t] \in Op /\ page[t] \in ShownPage /\ account \in Accounts
  BY <1>1 DEF Shape
<1>3. o \in Op /\ o.phase = phase /\ o.signer = op[t].signer /\ o.same = op[t].same
  BY <1>2 DEF Op
<1>4. op' = [op EXCEPT ![t] = o] /\ page' = [page EXCEPT ![t] = page[t]]
  BY <1>1, <1>2 DEF Shape, Op
<1> HIDE DEF o
<1>5. StaysStep(t, page[t], o)
  BY <1>2, <1>3, <1>4 DEF StaysStep
<1>6. o.same => page[t].address = o.signer
  BY <1>1, <1>3 DEF SignerIsShown, Busy
<1>7. /\ o.phase # "idle" /\ op[t].phase # "idle"
      /\ o.phase # "lease" /\ op[t].phase # "lease"
  BY <1>3 DEF Busy
<1> QED
  BY <1>3, <1>5, <1>6, <1>7, Stays

\* The page has the account.
LEMMA WalletResolvedStep ==
  ASSUME SessionInv, NEW t \in Tabs, WalletResolved(t) PROVE SessionInv'
<1>1. Shape
  BY DEF SessionInv
<1> DEFINE p == [page[t] EXCEPT !.address = account, !.verified = TRUE]
<1>2. page[t] \in ShownPage /\ account \in Accounts
  BY <1>1 DEF Shape
<1>3. /\ p \in ShownPage
      /\ p.last = page[t].last /\ p.retry = page[t].retry /\ p.told = page[t].told
  BY <1>2 DEF ShownPage
<1>4. /\ page' = [page EXCEPT ![t] = p] /\ page[t].address = None
      /\ UNCHANGED <<account, lease, op, sent, attempts, loophole>>
  BY <1>1, <1>2 DEF WalletResolved, Shape, ShownPage
<1> HIDE DEF p
<1> QED
  BY <1>3, <1>4, PageStep

\* The deployment is verified.
LEMMA VerifyDeploymentStep ==
  ASSUME SessionInv, NEW t \in Tabs, NEW verified \in BOOLEAN, VerifyDeployment(t, verified)
  PROVE  SessionInv'
<1>1. Shape
  BY DEF SessionInv
<1> DEFINE p == [page[t] EXCEPT !.verified = verified]
<1>2. page[t] \in ShownPage
  BY <1>1 DEF Shape
<1>3. /\ p \in ShownPage /\ p.address = page[t].address
      /\ p.last = page[t].last /\ p.retry = page[t].retry /\ p.told = page[t].told
  BY <1>2 DEF ShownPage
<1>4. /\ page' = [page EXCEPT ![t] = p]
      /\ UNCHANGED <<account, lease, op, sent, attempts, loophole>>
  BY <1>1, <1>2 DEF VerifyDeployment, Shape, ShownPage
<1> HIDE DEF p
<1> QED
  BY <1>3, <1>4, PageStep

\* The user refreshes.
LEMMA ManualRefreshStep ==
  ASSUME SessionInv, NEW t \in Tabs, ManualRefresh(t) \/ ManualRefreshEnds(t)
  PROVE  SessionInv'
<1>1. Shape
  BY DEF SessionInv
<1> DEFINE p(b) == [page[t] EXCEPT !.refreshing = b, !.fetching = b]
<1>2. page[t] \in ShownPage
  BY <1>1 DEF Shape
<1>3. \A b \in BOOLEAN :
        /\ p(b) \in ShownPage /\ p(b).address = page[t].address
        /\ p(b).last = page[t].last /\ p(b).retry = page[t].retry /\ p(b).told = page[t].told
  BY <1>2 DEF ShownPage
<1>4. /\ \E b \in BOOLEAN : page' = [page EXCEPT ![t] = p(b)]
      /\ UNCHANGED <<account, lease, op, sent, attempts, loophole>>
  BY <1>1, <1>2 DEF ManualRefresh, ManualRefreshEnds, Shape, ShownPage
<1> HIDE DEF p
<1> QED
  BY <1>3, <1>4, PageStep

\* A tab is closed.
LEMMA CloseTabStep ==
  ASSUME SessionInv, NEW t \in Tabs, CloseTab(t) PROVE SessionInv'
<1>1. Shape
  BY DEF SessionInv
<1>2. NewPage \in ShownPage /\ NewPage.last = 0 /\ NewPage.retry = FALSE /\ NewPage.told = {}
  BY DEF NewPage, ShownPage
<1>3. NoOp \in Op /\ NoOp.phase = "idle"
  BY DEF NoOp, Op, Phases
<1>4. account' \in Accounts
  BY <1>1 DEF CloseTab, Shape
<1>5. StaysStep(t, NewPage, NoOp)
  BY <1>2, <1>3, <1>4 DEF CloseTab, StaysStep
<1> QED
  BY <1>2, <1>3, <1>5, Stays

\* The simulation answers.
LEMMA SimulateStep ==
  ASSUME SessionInv, NEW t \in Tabs, Simulate(t) PROVE SessionInv'
<1>1. Shape /\ SignerIsShown
  BY DEF SessionInv
<1>2. op[t].phase = "simulate" /\ UNCHANGED <<account, sent, attempts>>
  BY DEF Simulate
<1>3. CASE op' = [op EXCEPT ![t].phase = "sign"] /\ UNCHANGED <<page, lease, loophole>>
  <2>1. Busy(t) /\ op[t].phase \notin Sending
    BY <1>2 DEF Busy, Sending
  <2>2. "sign" \in Phases \ {"idle", "lease"} /\ "sign" \notin Sending
    BY DEF Phases, Sending
  <2> QED
    BY <1>2, <1>3, <2>1, <2>2, GoesOn
<1>4. CASE \E code \in simulationErrors : Fail(t, FALSE, code)
  <2>1. PICK code \in simulationErrors : Fail(t, FALSE, code)
    BY <1>4
  <2>2. "rejected on-chain" \notin USER_MESSAGES(code)
    BY EarlyErrors
  <2>3. Busy(t) /\ op[t].phase \notin Sending
    BY <1>2 DEF Busy, Sending
  <2> QED
    BY <1>2, <2>1, <2>2, <2>3, Fails
<1> QED
  BY <1>3, <1>4 DEF Simulate

\* The network answers a send.
LEMMA SendAnswerStep ==
  ASSUME SessionInv, NEW t \in Tabs, SendAnswer(t) PROVE SessionInv'
<1>1. op[t].phase = "send" /\ UNCHANGED <<account, sent, attempts>>
  BY DEF SendAnswer
<1>2. CASE op' = [op EXCEPT ![t].phase = "poll"] /\ UNCHANGED <<page, lease, loophole>>
  <2>1. Busy(t) /\ op[t].phase \in Sending
    BY <1>1 DEF Busy, Sending
  <2>2. "poll" \in Phases \ {"idle", "lease"} /\ "poll" \in Sending
    BY DEF Phases, Sending
  <2> QED
    BY <1>1, <1>2, <2>1, <2>2, GoesOn
<1>3. CASE \E code \in submissionErrors : Fail(t, TRUE, code)
  <2>1. PICK code \in submissionErrors : Fail(t, TRUE, code)
    BY <1>3
  <2>2. "no funds were moved" \notin USER_MESSAGES(code)
    BY LateErrors
  <2>3. Busy(t) /\ op[t].phase \in Sending
    BY <1>1 DEF Busy, Sending
  <2> QED
    BY <1>1, <2>1, <2>2, <2>3, Fails
<1> QED
  BY <1>2, <1>3 DEF SendAnswer

\* A poll ends in failure.
LEMMA PollFailsStep ==
  ASSUME SessionInv, NEW t \in Tabs, PollFails(t) PROVE SessionInv'
<1>1. op[t].phase = "poll" /\ UNCHANGED <<account, sent, attempts>>
  BY DEF PollFails
<1>2. PICK code \in confirmationErrors : Fail(t, TRUE, code)
  BY DEF PollFails
<1>3. "no funds were moved" \notin USER_MESSAGES(code)
  BY LateErrors
<1>4. Busy(t) /\ op[t].phase \in Sending
  BY <1>1 DEF Busy, Sending
<1> QED
  BY <1>1, <1>2, <1>3, <1>4, Fails

\* A poll ends in success.
LEMMA PollSucceedsStep ==
  ASSUME SessionInv, NEW t \in Tabs, PollSucceeds(t) PROVE SessionInv'
<1>1. op[t].phase = "poll" /\ UNCHANGED <<account, sent, attempts>>
  BY DEF PollSucceeds
<1>2. Shape /\ SignerIsShown
  BY DEF SessionInv
<1>3. CASE op[t].aborted
  <2>1. Fail(t, TRUE, "UNKNOWN")
    BY <1>3 DEF PollSucceeds
  <2>2. "no funds were moved" \notin USER_MESSAGES("UNKNOWN")
    BY LateErrors
  <2>3. Busy(t) /\ op[t].phase \in Sending
    BY <1>1 DEF Busy, Sending
  <2> QED
    BY <1>1, <2>1, <2>2, <2>3, Fails
<1>4. CASE ~op[t].aborted
  <2> DEFINE p == [page[t] EXCEPT !.fetching = FALSE]
             o == [op[t] EXCEPT !.phase = "refresh"]
  <2>1. page[t] \in ShownPage /\ op[t] \in Op
    BY <1>2 DEF Shape
  <2>2. /\ p \in ShownPage /\ p.address = page[t].address
        /\ p.last = page[t].last /\ p.retry = page[t].retry /\ p.told = page[t].told
    BY <2>1 DEF ShownPage
  <2>3. o \in Op /\ o.phase = "refresh" /\ o.signer = op[t].signer /\ o.same = op[t].same
    BY <2>1 DEF Op, Phases
  <2>4. /\ page' = [page EXCEPT ![t] = p] /\ op' = [op EXCEPT ![t] = o]
        /\ UNCHANGED <<lease, loophole>>
    BY <1>2, <1>4, <2>1 DEF PollSucceeds, Shape, ShownPage, Op
  <2>5. account \in Accounts
    BY <1>2 DEF Shape
  <2> HIDE DEF p, o
  <2>6. StaysStep(t, p, o)
    BY <1>1, <2>2, <2>3, <2>4, <2>5 DEF StaysStep
  <2>7. o.same => p.address = o.signer
    BY <1>1, <1>2, <2>2, <2>3 DEF SignerIsShown
  <2>8. o.phase \in Sending /\ op[t].phase \in Sending
    BY <1>1, <2>3 DEF Sending
  <2> QED
    BY <1>1, <2>2, <2>3, <2>6, <2>7, <2>8, Stays
<1> QED
  BY <1>3, <1>4

\* The refresh after a success ends.
LEMMA PostRefreshEndsStep ==
  ASSUME SessionInv, NEW t \in Tabs, PostRefreshEnds(t) PROVE SessionInv'
<1>1. Shape /\ FailureIsHonest
  BY DEF SessionInv
<1>2. page[t] \in ShownPage /\ page' = [page EXCEPT ![t] = page[t]]
  BY <1>1 DEF Shape, PostRefreshEnds
<1>3. page[t].last # 0 =>
        /\ page[t].retry \/ "no funds were moved" \in page[t].told => page[t].last \notin sent
        /\ "rejected on-chain" \in page[t].told => page[t].last \in sent
  BY <1>1 DEF FailureIsHonest
<1>4. EndsStep(t, page[t])
  BY <1>2, <1>3 DEF EndsStep, PostRefreshEnds
<1> QED
  BY <1>2, <1>4, Ends

\* The envelope leaves.
Leaves(t) ==
  /\ op[t].phase = "sign"
  /\ sent' = sent \cup {page[t].last}
  /\ op' = [op EXCEPT ![t].phase = "send"]
  /\ UNCHANGED <<account, page, lease, attempts, loophole>>

\* A tab leaves its attempt.
LEMMA LeavesStep ==
  ASSUME SessionInv, NEW t \in Tabs, Leaves(t) PROVE SessionInv'
<1>1. Shape /\ SignerIsShown /\ LeaseHolds /\ Numbered /\ SentInOrder /\ FailureIsHonest
  BY DEF SessionInv
<1> DEFINE n == page[t].last
           o == [op[t] EXCEPT !.phase = "send"]
<1>2. /\ op[t].phase = "sign" /\ sent' = sent \cup {n}
      /\ op' = [op EXCEPT ![t].phase = "send"]
      /\ account' = account /\ page' = page /\ lease' = lease /\ attempts' = attempts
      /\ loophole' = loophole
  BY DEF Leaves
<1>3. op[t] \in Op /\ page[t] \in ShownPage
  BY <1>1 DEF Shape
<1>4. o \in Op /\ o.phase = "send" /\ o.signer = op[t].signer /\ o.same = op[t].same
  BY <1>3 DEF Op, Phases
<1>5. op' = [op EXCEPT ![t] = o]
  BY <1>1, <1>2, <1>3 DEF Shape, Op
<1>6. n # 0 /\ ~page[t].retry /\ page[t].told = {} /\ n \in Nat /\ n <= attempts
  BY <1>1, <1>2, <1>3 DEF SentInOrder, Busy, Numbered, ShownPage
<1> HIDE DEF o
<1>7. op'[t] = o /\ \A u \in Tabs : u # t => op'[u] = op[u]
  BY <1>1, <1>5 DEF Shape
<1>8. \A u \in Tabs : u # t /\ page[u].last # 0 => page[u].last # n
  BY <1>1 DEF Numbered
<1>9. Shape'
  BY <1>1, <1>2, <1>4, <1>5 DEF Shape
<1>10. SignerIsShown'
  BY <1>1, <1>2, <1>4, <1>7 DEF SignerIsShown
<1>11. LeaseHolds'
  BY <1>1, <1>2, <1>4, <1>7 DEF LeaseHolds, Busy
<1>12. Numbered'
  BY <1>1, <1>2, <1>6 DEF Numbered
<1>13. SentInOrder'
  <2> SUFFICES ASSUME NEW u \in Tabs, op'[u].phase \notin {"idle", "lease"}
               PROVE  /\ page'[u].last # 0 /\ ~page'[u].retry /\ page'[u].told = {}
                      /\ page'[u].last \in sent' <=> op'[u].phase \in {"send", "poll", "refresh"}
    BY DEF SentInOrder, Busy
  <2>1. CASE u = t
    BY <1>2, <1>4, <1>6, <1>7, <2>1
  <2>2. CASE u # t
    <3>1. op'[u] = op[u] /\ page'[u] = page[u]
      BY <1>2, <1>7, <2>2
    <3>2. /\ page[u].last # 0 /\ ~page[u].retry /\ page[u].told = {}
          /\ page[u].last \in sent <=> op[u].phase \in {"send", "poll", "refresh"}
      BY <1>1, <3>1 DEF SentInOrder, Busy
    <3>3. page[u].last \in sent' <=> page[u].last \in sent
      BY <1>2, <1>8, <2>2, <3>2
    <3> QED
      BY <3>1, <3>2, <3>3
  <2> QED
    BY <2>1, <2>2
<1>14. FailureIsHonest'
  <2> SUFFICES ASSUME NEW u \in Tabs, page'[u].last # 0
               PROVE  /\ page'[u].retry \/ "no funds were moved" \in page'[u].told
                           => page'[u].last \notin sent'
                      /\ "rejected on-chain" \in page'[u].told => page'[u].last \in sent'
    BY DEF FailureIsHonest
  <2>1. CASE u = t
    <3>1. page'[u] = page[t]
      BY <1>2, <2>1
    <3>2. ~page[t].retry /\ "no funds were moved" \notin page[t].told
          /\ "rejected on-chain" \notin page[t].told
      BY <1>6
    <3> QED
      BY <3>1, <3>2
  <2>2. CASE u # t
    <3>1. page'[u] = page[u]
      BY <1>2
    <3>2. /\ page[u].retry \/ "no funds were moved" \in page[u].told
               => page[u].last \notin sent
          /\ "rejected on-chain" \in page[u].told => page[u].last \in sent
      BY <1>1, <3>1 DEF FailureIsHonest
    <3>3. page[u].last \in sent' <=> page[u].last \in sent
      BY <1>2, <1>8, <2>2, <3>1
    <3> QED
      BY <3>1, <3>2, <3>3
  <2> QED
    BY <2>1, <2>2
<1> QED
  BY <1>9, <1>10, <1>11, <1>12, <1>13, <1>14 DEF SessionInv

\* The wallet signs and the page sends.
LEMMA SignAndSendStep ==
  ASSUME SessionInv, NEW t \in Tabs, SignAndSend(t) PROVE SessionInv'
<1>1. CASE Leaves(t)
  BY <1>1, LeavesStep
<1>2. CASE UNCHANGED sent /\ \E code \in signatureErrors : Fail(t, FALSE, code)
  <2>1. PICK code \in signatureErrors : Fail(t, FALSE, code)
    BY <1>2
  <2>2. "rejected on-chain" \notin USER_MESSAGES(code)
    BY EarlyErrors
  <2>3. Busy(t) /\ op[t].phase \notin Sending /\ UNCHANGED <<account, sent, attempts>>
    BY <1>2 DEF SignAndSend, Busy, Sending
  <2> QED
    BY <2>1, <2>2, <2>3, Fails
<1> QED
  BY <1>1, <1>2 DEF SignAndSend, Leaves

\* Every step keeps the invariant.
LEMMA SessionStep == SessionInv /\ [SessionNext]_sessionVars => SessionInv'
<1> SUFFICES ASSUME SessionInv, [SessionNext]_sessionVars PROVE SessionInv'
  OBVIOUS
<1>1. CASE UNCHANGED sessionVars
  <2>1. /\ account' = account /\ lease' = lease /\ page' = page /\ op' = op
        /\ sent' = sent /\ attempts' = attempts /\ loophole' = loophole
    BY <1>1 DEF sessionVars
  <2>2. Shape' /\ SignerIsShown' /\ LeaseHolds' /\ Numbered' /\ SentInOrder'
    BY <2>1 DEF SessionInv, Shape, SignerIsShown, LeaseHolds, Numbered, SentInOrder, Busy
  <2>3. FailureIsHonest'
    BY <2>1 DEF SessionInv, FailureIsHonest
  <2> QED
    BY <2>2, <2>3 DEF SessionInv
<1>2. ASSUME NEW a \in Accounts, SwitchAccount(a) \/ LeaseExpires(a) PROVE SessionInv'
  BY <1>2, SwitchAccountStep, LeaseExpiresStep
<1>3. ASSUME NEW t \in Tabs, WalletEvent(t) \/ WalletResolved(t) \/ CloseTab(t) PROVE SessionInv'
  BY <1>3, WalletEventStep, WalletResolvedStep, CloseTabStep
<1>4. ASSUME NEW t \in Tabs, SignAndSend(t) \/ PollSucceeds(t) PROVE SessionInv'
  BY <1>4, SignAndSendStep, PollSucceedsStep
<1>5. ASSUME NEW t \in Tabs, Proceed(t) PROVE SessionInv'
  BY <1>5, WriteLeaseStep, SimulateStep, SendAnswerStep, PollFailsStep, PostRefreshEndsStep
     DEF Proceed
<1>6. ASSUME NEW t \in Tabs, ManualRefresh(t) \/ ManualRefreshEnds(t) PROVE SessionInv'
  BY <1>6, ManualRefreshStep
<1>7. ASSUME NEW t \in Tabs, NEW b \in BOOLEAN, VerifyDeployment(t, b) \/ Click(t, b)
      PROVE  SessionInv'
  BY <1>7, VerifyDeploymentStep, ClickStep
<1> QED
  BY <1>1, <1>2, <1>3, <1>4, <1>5, <1>6, <1>7 DEF SessionNext

\* Every reachable state of tabs and wallet satisfies it.
LEMMA SessionInvariant == SessionSpec => []SessionInv
<1> QED
  BY SessionInvInit, SessionStep, PTL DEF SessionSpec

-----------------------------------------------------------------------------
(* The theorems.                                                           *)

\* Whatever words the wallet, the browser and the network fail with, a retry is
\* offered and "no funds were moved" is shown only for an attempt that was never
\* sent, and "rejected on-chain" only for one that was.
THEOREM FailuresAreHonest == SessionSpec => []FailureIsHonest
<1>1. SessionInv => FailureIsHonest
  BY DEF SessionInv
<1> QED
  BY <1>1, SessionInvariant, PTL

\* However many tabs there are, two act for one account at a time only through
\* the known holes of the lease.
THEOREM LeasesExclude == SessionSpec => []SameActionOnce
<1>1. SessionInv => SameActionOnce
  <2> SUFFICES ASSUME SessionInv, NEW t \in Tabs, NEW u \in Tabs,
                      t # u, op[t].signer = op[u].signer, op[t].signer \notin loophole,
                      Busy(t), Busy(u)
               PROVE  FALSE
    BY DEF SameActionOnce, Busy
  <2>1. lease[op[t].signer] = t
    BY DEF SessionInv, LeaseHolds, Busy
  <2>2. lease[op[u].signer] = u
    BY DEF SessionInv, LeaseHolds, Busy
  <2> QED
    BY <2>1, <2>2
<1> QED
  BY <1>1, SessionInvariant, PTL

\* An action's phase changes from "sign" to "send" in no step but its own.
LEMMA OnlySignAndSendSends ==
  ASSUME SessionInv, [SessionNext]_sessionVars, NEW t \in Tabs, op[t].phase = "sign", op'[t].phase = "send"
  PROVE  SignAndSend(t) /\ SameIdentity(t)
<1>1. op \in [Tabs -> Op]
  BY DEF SessionInv, Shape
<1>2. op'[t] # op[t]
  OBVIOUS
<1>3. CASE UNCHANGED sessionVars
  BY <1>2, <1>3 DEF sessionVars
<1>4. ASSUME NEW a \in Accounts, SwitchAccount(a) \/ LeaseExpires(a) PROVE FALSE
  BY <1>2, <1>4 DEF SwitchAccount, LeaseExpires
<1>5. ASSUME NEW u \in Tabs, Release(u) PROVE FALSE
  BY <1>1, <1>5 DEF Release, NoOp
<1>6. ASSUME NEW u \in Tabs, WalletEvent(u) PROVE FALSE
  BY <1>1, <1>6 DEF WalletEvent, Op
<1>7. ASSUME NEW u \in Tabs, NEW b \in BOOLEAN,
             WalletResolved(u) \/ ManualRefresh(u) \/ ManualRefreshEnds(u) \/ VerifyDeployment(u, b)
      PROVE  FALSE
  BY <1>2, <1>7 DEF WalletResolved, ManualRefresh, ManualRefreshEnds, VerifyDeployment
<1>8. ASSUME NEW u \in Tabs, CloseTab(u) PROVE FALSE
  BY <1>1, <1>8 DEF CloseTab, NoOp
<1>9. ASSUME NEW u \in Tabs, NEW b \in BOOLEAN, Click(u, b) PROVE FALSE
  BY <1>1, <1>9 DEF Click
<1>10. ASSUME NEW u \in Tabs, PollSucceeds(u) PROVE FALSE
  BY <1>1, <1>5, <1>10 DEF PollSucceeds, Fail, Op
<1>11. ASSUME NEW u \in Tabs, Proceed(u) PROVE FALSE
  <2>1. CASE WriteLease(u)
    BY <1>1, <1>5, <2>1 DEF WriteLease, Op
  <2>2. CASE Simulate(u)
    BY <1>1, <1>5, <2>2 DEF Simulate, Fail, Op
  <2>3. CASE SendAnswer(u)
    BY <1>1, <1>5, <2>3 DEF SendAnswer, Fail, Op
  <2>4. CASE PollFails(u) \/ PostRefreshEnds(u)
    BY <1>5, <2>4 DEF PollFails, PostRefreshEnds, Fail
  <2> QED
    BY <1>11, <2>1, <2>2, <2>3, <2>4 DEF Proceed
<1>12. ASSUME NEW u \in Tabs, SignAndSend(u) PROVE u = t /\ SameIdentity(t)
  BY <1>1, <1>5, <1>12 DEF SignAndSend, Fail, Op
<1> QED
  BY <1>3, <1>4, <1>6, <1>7, <1>8, <1>9, <1>10, <1>11, <1>12 DEF SessionNext

\* An envelope leaves a page only while the page shows, and the wallet has
\* selected, the account it was reviewed as, and the deployment is verified.
THEOREM SendsAreReviewed == SessionSpec => SendIsReviewed
<1>1. ASSUME SessionInv, [SessionNext]_sessionVars, NEW t \in Tabs, op[t].phase = "sign", op'[t].phase = "send"
      PROVE  /\ page[t].verified
             /\ page[t].address = op[t].signer /\ account = op[t].signer
  <2>1. SameIdentity(t)
    BY <1>1, OnlySignAndSendSends
  <2>2. op[t].same => page[t].address = op[t].signer
    BY <1>1 DEF SessionInv, SignerIsShown
  <2> QED
    BY <2>1, <2>2 DEF SameIdentity
<1>2. SessionInv /\ [SessionNext]_sessionVars =>
        [\A t \in Tabs :
           op[t].phase = "sign" /\ op'[t].phase = "send" =>
             /\ page[t].verified
             /\ page[t].address = op[t].signer /\ account = op[t].signer]_sessionVars
  BY <1>1
<1> QED
  BY <1>2, SessionInvariant, PTL DEF SessionSpec, SendIsReviewed

=============================================================================
