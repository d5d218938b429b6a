---------------------------- MODULE CircleClient ----------------------------
(***************************************************************************)
(* The SDK's CircleClient of one member (sdk/src/client.ts) beside the      *)
(* contract and everybody else who calls it.  A full state is read by two   *)
(* RPC calls, the status and then the round, while the contract moves on;   *)
(* it is cached until it expires or a confirmed write of this client        *)
(* discards it; gates are evaluated over it; and a write may first compare  *)
(* what its caller expects with a state read for the purpose.               *)
(*                                                                         *)
(* The write itself is module Submission's business: here it is applied or  *)
(* not, and its result is a success, a failure or unknown.                  *)
(***************************************************************************)
EXTENDS Circle, Gates

CONSTANT me          \* the member whose client this is

ASSUME ClientAssumption == me \in MemberSet

VARIABLES
  cache,             \* _stateCache: a full state, or NoState
  reads,             \* calls of getFullState in progress: caller |-> a read
  write              \* the mutation in progress

clientVars == <<cache, reads, write>>
allVars == <<vars, clientVars>>

NoState == [status |-> "none", currentRound |-> NoRound, behind |-> FALSE]

\* A read has seen nothing yet, the status, or the round as well; a call of a
\* getter (app) and the preflight of a write may be in progress at once.
\* History: behind says that a write of this client, later confirmed, was
\* applied after all of the state was read.
NoRead == [phase |-> "none", status |-> "none", currentRound |-> NoRound,
           behind |-> FALSE]
Readers == {"app", "preflight"}

\* A mutation: none, its preflight reading, ready to submit, or confirmed but
\* not yet returned.  `expected` is what the caller pinned; history: `began` has
\* the contract's own values when the preflight began, `checked` says that the
\* preflight passed with the round read.
Nothing == [status |-> "none", roundIndex |-> Null, paidOut |-> FALSE]
NoWrite == [phase |-> "idle", expected |-> Nothing, began |-> Nothing,
            checked |-> FALSE]

ClientInit ==
  /\ Init
  /\ cache = NoState
  /\ reads = [r \in Readers |-> NoRead]
  /\ write = NoWrite

-----------------------------------------------------------------------------
(* Reading.                                                                *)

\* get_status on chain; before initialize it panics.
get_status == IF status = "Uninitialized" THEN "none" ELSE status

\* get_current_round on chain: an error once the circle is over.
get_current_round ==
  IF status \in {"Pending", "Active"} THEN round ELSE NoRound

\* getFullState by the application, unless a valid cache answers.
BeginRead ==
  /\ reads["app"].phase = "none" /\ cache = NoState
  /\ reads' = [reads EXCEPT !["app"].phase = "begun"]
  /\ UNCHANGED <<vars, cache, write>>

\* The first call answers: the status at that moment, and the configuration.
ReadStatus(r) ==
  /\ reads[r].phase = "begun" /\ get_status # "none"
  /\ reads' = [reads EXCEPT ![r].phase = "status", ![r].status = get_status]
  /\ UNCHANGED <<vars, cache, write>>

\* The second call, made for a Pending or Active circle only, answers later.
\* That the circle is over by then, or that the call fails, leaves the round
\* null.
ReadRound(r) ==
  /\ reads[r].phase = "status"
  /\ \E answer \in {NoRound, get_current_round} :
       reads' = [reads EXCEPT ![r].phase = "round",
         ![r].currentRound = IF reads[r].status \in {"Active", "Pending"}
                               THEN answer ELSE NoRound]
  /\ UNCHANGED <<vars, cache, write>>

\* The state is cached, whatever happened to the cache since the read began.
StoreRead ==
  /\ reads["app"].phase = "round"
  /\ cache' = [status |-> reads["app"].status,
               currentRound |-> reads["app"].currentRound,
               behind |-> reads["app"].behind]
  /\ reads' = [reads EXCEPT !["app"] = NoRead]
  /\ UNCHANGED <<vars, write>>

\* An RPC call fails: getFullState throws.
FailRead ==
  /\ reads["app"].phase # "none"
  /\ reads' = [reads EXCEPT !["app"] = NoRead]
  /\ UNCHANGED <<vars, cache, write>>

\* The cache entry reaches cacheTtlMs.
Expire ==
  /\ cache # NoState
  /\ cache' = NoState
  /\ UNCHANGED <<vars, reads, write>>

-----------------------------------------------------------------------------
(* Writing.                                                                *)

\* The caller pins what its cached state shows.
PinnedFields == [status |-> cache.status,
                 roundIndex |-> cache.currentRound.round_index,
                 paidOut |-> cache.currentRound.paid_out]

\* A mutation with expectations begins with a forced read.  Which one it is
\* matters to the submission only; join takes none.
BeginPreflight ==
  /\ write.phase = "idle" /\ cache.currentRound # NoRound
  /\ write' = [phase |-> "preflight", expected |-> PinnedFields,
               began |-> [status |-> status, roundIndex |-> round.round_index,
                          paidOut |-> round.paid_out],
               checked |-> FALSE]
  /\ reads' = [reads EXCEPT !["preflight"].phase = "begun"]
  /\ UNCHANGED <<vars, cache>>

\* resolveActualState: the values of the state just read; without a round only
\* the status is known.
Resolved(s) ==
  IF s.currentRound = NoRound THEN [status |-> s.status]
  ELSE [status |-> s.status, roundIndex |-> s.currentRound.round_index,
        paidOut |-> s.currentRound.paid_out]

\* preflightGuard: the state is cached, and a mismatch ends the write as
\* stale_state.
EndPreflight ==
  LET s == [status |-> reads["preflight"].status,
            currentRound |-> reads["preflight"].currentRound,
            behind |-> FALSE]
  IN  /\ reads["preflight"].phase = "round"
      /\ cache' = s
      /\ reads' = [reads EXCEPT !["preflight"] = NoRead]
      /\ write' = IF detectStateMismatches(write.expected, Resolved(s)) = {}
                    THEN [write EXCEPT !.phase = "submit", 
                                      !.checked = s.currentRound # NoRound]
                    ELSE NoWrite
      /\ UNCHANGED vars

\* A preflight that cannot read lets the write proceed.
FailPreflight ==
  /\ write.phase = "preflight"
  /\ reads' = [reads EXCEPT !["preflight"] = NoRead]
  /\ write' = [write EXCEPT !.phase = "submit"]
  /\ UNCHANGED <<vars, cache>>

\* The invocation of the mutation's entry point.
Invoke(action) ==
  \/ action = "join" /\ join(me)
  \/ action = "contribute" /\ contribute(me)
  \/ action = "payout" /\ payout
  \/ action = "default" /\ \E m \in MemberSet \ {me} : mark_default(m)
  \/ action = "close" /\ close(me)

\* The envelope is sent, after the preflight or with none, and applied.  The
\* SDK learns it, or the result stays unknown (which is the end of the call).
SubmitApplied(action, result) ==
  /\ \/ write.phase = "idle"
     \/ write.phase = "submit" /\ action # "join"
  /\ Invoke(action)
  /\ write' = IF result = "success" THEN [NoWrite EXCEPT !.phase = "success"]
                                     ELSE NoWrite
  /\ reads' = [reads EXCEPT !["app"].behind =
                 @ \/ (result = "success" /\ reads["app"].phase = "round")]
  /\ UNCHANGED cache

\* After its preflight it fails in the simulation, or is never applied.
SubmitFailed ==
  /\ write.phase = "submit"
  /\ write' = NoWrite
  /\ UNCHANGED <<vars, cache, reads>>

\* Only a success discards the cache.
ReturnSuccess ==
  /\ write.phase = "success"
  /\ cache' = NoState
  /\ write' = NoWrite
  /\ UNCHANGED <<vars, reads>>

-----------------------------------------------------------------------------
\* The others, and the clock.
Others ==
  /\ \/ initialize \/ payout \/ settle_round \/ AdvanceLedger
     \/ add_authorized_caller \/ pause(Admin) \/ resume(Admin)
     \/ \E a \in Address \ {me} :
          join(a) \/ contribute(a) \/ mark_default(a) \/ cancel(a) \/ close(a)
  /\ UNCHANGED clientVars

ClientNext ==
  \/ Others
  \/ BeginRead \/ StoreRead \/ FailRead \/ Expire
  \/ \E r \in Readers : ReadStatus(r) \/ ReadRound(r)
  \/ BeginPreflight \/ EndPreflight \/ FailPreflight
  \/ \E action \in {"join", "contribute", "payout", "default", "close"},
        result \in {"success", "unknown"} : SubmitApplied(action, result)
  \/ SubmitFailed \/ ReturnSuccess

ClientSpec == ClientInit /\ [][ClientNext]_allVars

-----------------------------------------------------------------------------
(* Properties.                                                             *)

\* A snapshot of the contract as it is, read in the ledger that is closing.
Snapshot == [status |-> get_status, currentRound |-> get_current_round,
             members |-> members, fresh |-> TRUE, latestLedger |-> ledger]
CachedSnapshot(latest) ==
  [status |-> cache.status, currentRound |-> cache.currentRound,
   members |-> members, fresh |-> TRUE, latestLedger |-> latest]
Options(m) == [memberAddress |-> m, hasLockedCollateral |-> collateral[m] > 0,
               hasContributed |-> m \in contributed[round.round_index]]

\* Over the contract as it is, no gate blocks a member from an action that the
\* contract would accept.  (It does block the admin, who may close.)
BlocksNothingAcceptable(m, Gate(_)) ==
  /\ Accepts("join", m) => Gate("join") = "allowed"
  /\ Accepts("contribute", m) => Gate("contribute") = "allowed"
  /\ Accepts("payout", m) => Gate("payout") = "allowed"
  /\ Accepts("default", m) => Gate("default") = "allowed"
  /\ Accepts("close", m) => Gate("close") = "allowed"

\* And what a gate allows, the contract accepts from a member with the funds,
\* once the circle is registered and not paused; a default needs a member not yet flagged and
\* with collateral left, a close a circle not yet closed, which the snapshot
\* does not show.
AllowsOnlyAcceptable(m, Gate(_)) ==
  /\ Gate("join") = "allowed" /\ wallet[m] >= CollateralDue
       => Accepts("join", m)
  /\ Gate("contribute") = "allowed" /\ wallet[m] >= round_amount
       => Accepts("contribute", m)
  /\ Gate("payout") = "allowed" /\ registration = "authorized"
       => Accepts("payout", m)
  /\ Gate("default") = "allowed" /\ m \in Delinquent
       => Accepts("default", m)
  /\ Gate("close") = "allowed" /\ ~closed => Accepts("close", m)

\* What concerns the contract alone is looked at while the client is idle: every
\* state of the contract is met then.
AtRest == cache = NoState /\ write = NoWrite /\ reads = [r \in Readers |-> NoRead]

\* The gates and the contract agree, for every action and every member, up to
\* what a snapshot cannot show: neither a button that can only fail nor an
\* action withheld from someone the contract would serve.
GatesAgree ==
  AtRest /\ get_status # "none" => \A m \in MemberSet :
    LET Gate(action) == computeActionEligibility(action, Snapshot, Options(m))
    IN  /\ BlocksNothingAcceptable(m, Gate)
        /\ m \in Callers /\ ~paused => AllowsOnlyAcceptable(m, Gate)

\* A cached state may be old and its two parts of different ledgers, yet what
\* it rules out for good is ruled out: once it is past Pending this member does
\* not join any more, and after it has shown the circle over nobody pays out,
\* marks a default or, this member, contributes.
BlocksForGood ==
  cache # NoState =>
    /\ gateJoin(CachedSnapshot(Null), Options(me)) = "wrong_status"
         => ~join(me)
    /\ gateClose(CachedSnapshot(Null), Options(me)) = "allowed"
         => /\ ~contribute(me) /\ ~payout
            /\ \A m \in MemberSet : ~mark_default(m)

\* The status is read before the round.  So an Active snapshot never pairs with
\* the deadline the round had before activation restarted it, and however old
\* the indexer's ledger is, the gate of mark_default does not open before the
\* deadline of the round it shows.
DefaultGateNeverEarly ==
  (cache.currentRound.round_index = round.round_index /\ ~deadline_passed) =>
    \A latest \in 0..ledger :
      gateDefault(CachedSnapshot(latest),
                  [Options(me) EXCEPT !.hasContributed = FALSE]) # "allowed"

\* What an old or torn snapshot rules out, or opens, it does so rightly, on every
\* step (at the start nothing is cached, and the gate of mark_default looks at
\* nothing but the snapshot).
OldSnapshotsAreSafe ==
  [][/\ BlocksForGood
     /\ UNCHANGED <<cache, round, ledger>> \/ DefaultGateNeverEarly']_allVars

\* A write that passed its preflight, with the round read, was not already
\* overtaken when the preflight began: the pinned status and round were then
\* still the contract's, although they were read one after the other.
PreflightCatches ==
  write.checked /\ write.phase = "submit" =>
    /\ write.expected.status = write.began.status
    /\ write.expected.roundIndex = write.began.roundIndex

-----------------------------------------------------------------------------
\* getFullState's comment says that caching "is safe because circle state only
\* changes when a mutating transaction is confirmed; the cache is automatically
\* invalidated after any successful mutation method on this client".  A read
\* that was under way when the mutation returned fills the cache afterwards, and
\* the client is shown, and gated by, the state before its own write.
ClaimOwnWriteIsSeen == write.phase # "success" => ~cache.behind
=============================================================================
