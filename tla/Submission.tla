----------------------------- MODULE Submission -----------------------------
(***************************************************************************)
(* The SDK's write path (sdk/src/circleUpClient.ts, buildAndSendCore,       *)
(* submitEnvelope, awaitConfirmation and lookupTransaction): build one      *)
(* envelope, send it up to SEND_MAX_ATTEMPTS times, poll for its hash, and  *)
(* tell the caller a result code.  Around it stand the network and the RPC  *)
(* it talks to, and the caller that follows the table of result codes.      *)
(*                                                                         *)
(* A ledger number and its close time are one number here, `now`: what      *)
(* matters is their order against an envelope's upper time bound.  The      *)
(* client's own clock, which sets that bound, may be ahead or behind.       *)
(***************************************************************************)
EXTENDS Integers, FiniteSets

CONSTANTS
  Writes,                \* the writes of one account
  MaxCalls,              \* bound: calls of the SDK for one write
  MaxTime,               \* bound: the last ledger
  MaxSequence,           \* bound: the account's sequence number
  maxConsecutiveErrors   \* PollConfig.maxConsecutiveErrors

ASSUME SubmissionAssumption ==
  /\ MaxCalls \in Nat
  /\ MaxTime \in Nat \ {0}
  /\ MaxSequence \in Nat
  /\ maxConsecutiveErrors \in Nat \ {0}

SEND_MAX_ATTEMPTS == 3
STALE_LEDGER_POLLS == 3

\* One envelope for each call of the SDK.
Envelope == Writes \X (1..MaxCalls)

VARIABLES
  \* The network.
  now,        \* the last closed ledger, and its close time
  sequence,   \* the account's sequence number in that ledger
  pool,       \* envelopes the validators hold
  flight,     \* envelopes of which a late copy is still on its way
  fate,       \* envelope |-> "open", "success" or "failed"
  included,   \* envelope |-> the ledger that included it, 0 for none
  \* The RPC's view of it.
  view,       \* the ledger the RPC has ingested
  viewSequence, \* the account's sequence number in that ledger
  \* The SDK, for each write.
  calls,      \* calls made so far; the last one is current
  pc,         \* where the current call stands
  envelope,   \* envelope |-> its sequence number and upper time bound
  attempt,    \* submitEnvelope: attempt
  priorAmbiguous, \* submitEnvelope: an earlier send may have been delivered
  poll,       \* awaitConfirmation: its options and local variables
  \* The caller.
  told,       \* envelope |-> the result code of the call, "" before
  known       \* envelope |-> what the caller makes of it

chainVars == <<now, sequence, pool, flight, fate, included>>
viewVars == <<view, viewSequence>>
sendVars == <<envelope, attempt, priorAmbiguous, poll>>
callerVars == <<told, known>>
submitVars == <<chainVars, viewVars, calls, pc, sendVars, callerVars>>

\* Codes of calls that fail before anything is sent.
UnsentCodes == {"invalid_argument", "account_not_found", "simulation_failed",
                "network_error", "unknown"}
\* isRetryable: codes after which the SDK says it is safe to rebuild.
RetryableCodes == {"network_error", "try_again_later", "tx_rejected",
                   "tx_expired"}
\* Codes that leave the outcome open; only the last carries diagnostics.
OpenCodes == {"timeout", "stale_rpc", "outcome_unknown"}
NeverCodes == UnsentCodes \cup RetryableCodes
Codes == NeverCodes \cup OpenCodes \cup {"success", "tx_failed"}

PollState ==
  [submission : {"accepted", "unknown"},
   ifNeverApplied : {"tx_expired", "tx_rejected", "try_again_later"},
   consecutiveErrors : 0..maxConsecutiveErrors,
   lastLedger : 0..MaxTime,               \* 0 where the code has undefined
   unchangedLedgerPolls : 0..STALE_LEDGER_POLLS,
   polled : BOOLEAN]                      \* a round of the loop was made

NotPolling == [submission |-> "unknown", ifNeverApplied |-> "tx_expired",
               consecutiveErrors |-> 0, lastLedger |-> 0,
               unchangedLedgerPolls |-> 0, polled |-> FALSE]

SubmitTypeOK ==
  /\ now \in 1..MaxTime /\ view \in 1..now
  /\ sequence \in 0..MaxSequence /\ viewSequence \in 0..sequence
  /\ pool \in SUBSET Envelope /\ flight \in SUBSET Envelope
  /\ fate \in [Envelope -> {"open", "success", "failed"}]
  /\ included \in [Envelope -> 0..MaxTime]
  /\ calls \in [Writes -> 0..MaxCalls]
  /\ pc \in [Writes -> {"idle", "load", "sending", "polling", "told"}]
  /\ envelope \in [Envelope -> [sequence : 0..(MaxSequence + 1),
                                validUntil : 0..MaxTime]]
  /\ attempt \in [Writes -> 1..SEND_MAX_ATTEMPTS]
  /\ priorAmbiguous \in [Writes -> BOOLEAN]
  /\ poll \in [Writes -> PollState]
  /\ told \in [Envelope -> Codes \cup {""}]
  /\ known \in [Envelope -> {"open", "success", "failed", "never"}]

SubmitInit ==
  /\ now = 1 /\ view = 1
  /\ sequence = 0 /\ viewSequence = 0
  /\ pool = {} /\ flight = {}
  /\ fate = [e \in Envelope |-> "open"]
  /\ included = [e \in Envelope |-> 0]
  /\ calls = [w \in Writes |-> 0]
  /\ pc = [w \in Writes |-> "idle"]
  /\ envelope = [e \in Envelope |-> [sequence |-> 0, validUntil |-> 0]]
  /\ attempt = [w \in Writes |-> 1]
  /\ priorAmbiguous = [w \in Writes |-> FALSE]
  /\ poll = [w \in Writes |-> NotPolling]
  /\ told = [e \in Envelope |-> ""]
  /\ known = [e \in Envelope |-> "open"]

Current(w) == <<w, calls[w]>>

-----------------------------------------------------------------------------
(* The network.                                                            *)

\* Whether the next ledger may still include the envelope.
Includable(e) ==
  /\ fate[e] = "open"
  /\ envelope[e].sequence = sequence + 1
  /\ now < envelope[e].validUntil

\* The next ledger includes at most one envelope of the account.  What can no
\* longer be included is dropped.
CloseLedger ==
  /\ now < MaxTime
  /\ now' = now + 1
  /\ \/ /\ \E e \in pool, f \in {"success", "failed"} :
             /\ Includable(e)
             /\ fate' = [fate EXCEPT ![e] = f]
             /\ included' = [included EXCEPT ![e] = now + 1]
             /\ pool' = pool \ {e}
        /\ sequence < MaxSequence
        /\ sequence' = sequence + 1
     \/ \* The account's owner may have spent the number elsewhere.
        /\ sequence' \in {sequence, sequence + 1} \cap 0..MaxSequence
        /\ UNCHANGED <<fate, included, pool>>
  /\ UNCHANGED <<flight, viewVars, calls, pc, sendVars, callerVars>>

\* Under load the validators evict an envelope; it may still be sent again.
Evict(e) ==
  /\ e \in pool
  /\ pool' = pool \ {e}
  /\ UNCHANGED <<now, sequence, flight, fate, included, viewVars, calls, pc,
                 sendVars, callerVars>>

\* A copy whose sender no longer waits for an answer arrives, or gets lost.
Arrive(e) ==
  /\ e \in flight
  /\ flight' = flight \ {e}
  /\ pool' \in {pool} \cup {pool \cup {x} : x \in {y \in {e} : Includable(y)}}
  /\ UNCHANGED <<now, sequence, fate, included, viewVars, calls, pc, sendVars,
                 callerVars>>

\* The RPC ingests what it has missed.
Ingest ==
  /\ view < now
  /\ view' = now /\ viewSequence' = sequence
  /\ UNCHANGED <<chainVars, calls, pc, sendVars, callerVars>>

\* getTransaction finds what the view includes.
Found(e) == fate[e] # "open" /\ included[e] <= view

-----------------------------------------------------------------------------
(* The caller.                                                             *)

\* What a result code says of the envelope.
Verdict(code) ==
  CASE code = "success" -> "success"
    [] code = "tx_failed" -> "failed"
    [] code \in NeverCodes -> "never"
    [] OTHER -> "open"

\* The SDK returns to its caller, and its local variables are gone.
Tell(w, code) ==
  /\ pc' = [pc EXCEPT ![w] = "told"]
  /\ told' = [told EXCEPT ![Current(w)] = code]
  /\ known' = [known EXCEPT ![Current(w)] = Verdict(code)]
  /\ attempt' = [attempt EXCEPT ![w] = 1]
  /\ priorAmbiguous' = [priorAmbiguous EXCEPT ![w] = FALSE]
  /\ poll' = [poll EXCEPT ![w] = NotPolling]

\* A first call, or another one once the table of codes (isRetryable) or a
\* lookup says that the one before had no effect.
Resubmit(w) ==
  /\ calls[w] < MaxCalls
  /\ \/ pc[w] = "idle"
     \/ pc[w] = "told" /\ known[Current(w)] \in {"failed", "never"}
  /\ calls' = [calls EXCEPT ![w] = @ + 1]
  /\ pc' = [pc EXCEPT ![w] = "load"]
  /\ UNCHANGED <<chainVars, viewVars, sendVars, callerVars>>

\* A slip of BoundKnown: the time bound is left out of the diagnostics.
BoundKnown_Slip(e) == FALSE

\* The time bound is handed to the caller with the diagnostics only.
BoundKnown(e) == told[e] = "outcome_unknown"

\* A slip of Lookup: not found is taken to mean never applied.
Lookup_Slip(w) ==
  LET e == Current(w) IN
  /\ pc[w] = "told" /\ known[e] = "open"
  /\ \/ Found(e) /\ known' = [known EXCEPT ![e] = fate[e]]
     \/ ~Found(e) /\ known' = [known EXCEPT ![e] = "never"]
  /\ UNCHANGED <<chainVars, viewVars, calls, pc, sendVars, told>>

\* lookupTransaction, as its comment tells the caller to use it: not found is
\* final once the view is past the time bound.
Lookup(w) ==
  LET e == Current(w) IN
  /\ pc[w] = "told" /\ known[e] = "open"
  /\ \/ Found(e) /\ known' = [known EXCEPT ![e] = fate[e]]
     \/ /\ ~Found(e) /\ BoundKnown(e) /\ view > envelope[e].validUntil
        /\ known' = [known EXCEPT ![e] = "never"]
  /\ UNCHANGED <<chainVars, viewVars, calls, pc, sendVars, told>>

-----------------------------------------------------------------------------
(* buildAndSendCore, up to the signature.                                  *)

\* validateInvocation, getAccount, build, simulate, assemble and sign may fail;
\* so far nothing was sent.
FailUnsent(w, code) ==
  /\ pc[w] = "load" /\ code \in UnsentCodes
  /\ Tell(w, code)
  /\ UNCHANGED <<chainVars, viewVars, calls, envelope>>

\* getAccount answers from the view; the build sets the time bound by the
\* client's clock; the simulation passes and the envelope is signed.
Build(w, validUntil) ==
  /\ pc[w] = "load"
  /\ envelope' = [envelope EXCEPT ![Current(w)] =
                    [sequence |-> viewSequence + 1, validUntil |-> validUntil]]
  /\ pc' = [pc EXCEPT ![w] = "sending"]
  /\ UNCHANGED <<chainVars, viewVars, calls, attempt, priorAmbiguous, poll,
                 callerVars>>

-----------------------------------------------------------------------------
(* submitEnvelope.                                                         *)

\* awaitConfirmation begins, with these options.
Await(w, submission, ifNeverApplied, lastLedger) ==
  /\ pc' = [pc EXCEPT ![w] = "polling"]
  /\ attempt' = [attempt EXCEPT ![w] = 1]
  /\ priorAmbiguous' = [priorAmbiguous EXCEPT ![w] = FALSE]
  /\ poll' = [poll EXCEPT ![w] =
       [NotPolling EXCEPT !.submission = submission,
                          !.ifNeverApplied = ifNeverApplied,
                          !.lastLedger = lastLedger]]
  /\ UNCHANGED callerVars

\* The RPC queues the envelope (PENDING), or the validators hold it already
\* (DUPLICATE).
SendAccepted(w) ==
  LET e == Current(w) IN
  /\ pc[w] = "sending"
  /\ e \in pool \/ Includable(e)
  /\ pool' = pool \cup {e}
  /\ Await(w, "accepted", "tx_expired", view)
  /\ UNCHANGED <<now, sequence, flight, fate, included, viewVars, calls,
                 envelope>>

\* A slip of SendRefused: an earlier ambiguous send is forgotten.
SendRefused_Slip(w, code) ==
  /\ pc[w] = "sending" /\ code \in {"tx_rejected", "try_again_later"}
  /\ Tell(w, code)
  /\ UNCHANGED <<chainVars, viewVars, calls, envelope>>

\* The node asked answers ERROR or TRY_AGAIN_LATER and does not queue this
\* copy.  After an ambiguous send another copy may be queued elsewhere, or may
\* be the very reason of a bad sequence number.
SendRefused(w, code) ==
  /\ pc[w] = "sending" /\ code \in {"tx_rejected", "try_again_later"}
  /\ IF priorAmbiguous[w] THEN Await(w, "unknown", code, 0) ELSE Tell(w, code)
  /\ UNCHANGED <<chainVars, viewVars, calls, envelope>>

\* The call failed.  A transient failure is followed by a resend of the same
\* envelope while attempts remain.
SendFailed(w, ambiguous, transient) ==
  LET unsure == priorAmbiguous[w] \/ ambiguous
      again == transient /\ attempt[w] < SEND_MAX_ATTEMPTS
  IN  \/ /\ again
         /\ attempt' = [attempt EXCEPT ![w] = @ + 1]
         /\ priorAmbiguous' = [priorAmbiguous EXCEPT ![w] = unsure]
         /\ UNCHANGED <<pc, poll, callerVars>>
      \/ ~again /\ unsure /\ Await(w, "unknown", "tx_expired", 0)
      \/ ~again /\ ~unsure /\ Tell(w, "network_error")

\* mayHaveReachedServer is false: no connection, 429, or a JSON-RPC refusal.
SendUnreached(w, transient) ==
  /\ pc[w] = "sending"
  /\ SendFailed(w, FALSE, transient)
  /\ UNCHANGED <<chainVars, viewVars, calls, envelope>>

\* A request without an answer was lost, or it was served and the answer was
\* lost, or it is still on its way.
MaybeDelivered(e) ==
  /\ \/ UNCHANGED <<pool, flight>>
     \/ Includable(e) /\ pool' = pool \cup {e} /\ UNCHANGED flight
     \/ flight' = flight \cup {e} /\ UNCHANGED pool
  /\ UNCHANGED <<now, sequence, fate, included>>

\* A timeout, a reset, a gateway error.
SendLost(w, transient) ==
  /\ pc[w] = "sending"
  /\ SendFailed(w, TRUE, transient) /\ MaybeDelivered(Current(w))
  /\ UNCHANGED <<viewVars, calls, envelope>>

-----------------------------------------------------------------------------
(* awaitConfirmation: one round of the polling loop.                       *)

\* The loop goes on.
Poll(w, state) ==
  /\ poll' = [poll EXCEPT ![w] = state]
  /\ UNCHANGED <<pc, attempt, priorAmbiguous, callerVars>>

\* getTransaction fails; too many failures in a row give up.
PollError(w) ==
  /\ pc[w] = "polling"
  /\ LET errors == poll[w].consecutiveErrors + 1 IN
     IF errors >= maxConsecutiveErrors
       THEN Tell(w, "outcome_unknown")
       ELSE Poll(w, [poll[w] EXCEPT !.consecutiveErrors = errors,
                                    !.polled = TRUE])
  /\ UNCHANGED <<chainVars, viewVars, calls, envelope>>

\* SUCCESS or FAILED.
PollFound(w) ==
  /\ pc[w] = "polling" /\ Found(Current(w))
  /\ Tell(w, IF fate[Current(w)] = "success" THEN "success" ELSE "tx_failed")
  /\ UNCHANGED <<chainVars, viewVars, calls, envelope>>

\* NOT_FOUND in a ledger past the time bound.
PollExpired(w) ==
  /\ pc[w] = "polling" /\ ~Found(Current(w))
  /\ view > envelope[Current(w)].validUntil
  /\ Tell(w, poll[w].ifNeverApplied)
  /\ UNCHANGED <<chainVars, viewVars, calls, envelope>>

\* NOT_FOUND before that: the loop goes on unless the RPC stands still.
PollNotFound(w) ==
  /\ pc[w] = "polling" /\ ~Found(Current(w))
  /\ view <= envelope[Current(w)].validUntil
  /\ LET unchanged == IF view = poll[w].lastLedger
                       THEN poll[w].unchangedLedgerPolls + 1 ELSE 0
     IN IF unchanged >= STALE_LEDGER_POLLS
          THEN Tell(w, "stale_rpc")
          ELSE Poll(w, [poll[w] EXCEPT !.consecutiveErrors = 0,
                                       !.polled = TRUE,
                                       !.lastLedger = view,
                                       !.unchangedLedgerPolls = unchanged])
  /\ UNCHANGED <<chainVars, viewVars, calls, envelope>>

\* The time budget is over.  validatePollConfig makes it longer than the first
\* wait, so at least one round was made.
PollTimeout(w) ==
  /\ pc[w] = "polling" /\ poll[w].polled
  /\ Tell(w, IF poll[w].submission = "unknown" THEN "outcome_unknown"
                                               ELSE "timeout")
  /\ UNCHANGED <<chainVars, viewVars, calls, envelope>>

-----------------------------------------------------------------------------
SendStep(w) ==
  \/ SendAccepted(w)
  \/ \E code \in {"tx_rejected", "try_again_later"} : SendRefused(w, code)
  \/ \E transient \in BOOLEAN : SendUnreached(w, transient)
                                \/ SendLost(w, transient)

PollStep(w) ==
  PollError(w) \/ PollFound(w) \/ PollExpired(w) \/ PollNotFound(w)

\* The bound is 30 seconds after the client's clock, which need not be the
\* network's.
BuildStep(w) ==
  \/ \E code \in UnsentCodes : FailUnsent(w, code)
  \/ \E validUntil \in 1..(MaxTime - 1) : Build(w, validUntil)

SubmitNext ==
  \/ CloseLedger \/ Ingest
  \/ \E e \in Envelope : Evict(e) \/ Arrive(e)
  \/ \E w \in Writes :
       \/ Resubmit(w) \/ Lookup(w)
       \/ BuildStep(w) \/ SendStep(w) \/ PollStep(w) \/ PollTimeout(w)

\* Ledgers close and the RPC catches up; a pending request of the SDK is
\* answered or fails, its timers fire, and the caller does look up.
SubmitFairness ==
  /\ WF_submitVars(CloseLedger) /\ WF_submitVars(Ingest)
  /\ \A w \in Writes :
       /\ WF_submitVars(BuildStep(w)) /\ WF_submitVars(SendStep(w))
       /\ WF_submitVars(PollStep(w)) /\ WF_submitVars(PollTimeout(w))
       /\ WF_submitVars(Lookup(w))

SubmitSpec == SubmitInit /\ [][SubmitNext]_submitVars
FairSubmitSpec == SubmitSpec /\ SubmitFairness

-----------------------------------------------------------------------------
(* Properties.                                                             *)

\* A code that invites another attempt is never wrong, not even later: an
\* envelope reported as refused, expired or unsent is not applied by a copy
\* that an earlier send left with the RPC, in the network or with a validator.
NeverMeansNever ==
  \A e \in Envelope : known[e] = "never" => fate[e] = "open"

\* The write path keeps the promise of WriteOnce: an attempt said to be without
\* effect is settled as "never" in the abstract record.
Once == INSTANCE WriteOnce WITH
  attempts <- calls,
  fate <- [e \in Envelope |-> IF known[e] = "never" THEN "never" ELSE fate[e]]

KeepsPromise == Once!OnceSpec
AtMostOnce == Once!AtMostOnce

\* Every call of the SDK returns: resends are counted, and the polling loop
\* has a budget whatever the RPC answers.
EveryCallReturns ==
  \A w \in Writes : pc[w] \notin {"idle", "told"} ~> pc[w] = "told"

\* An outcome reported as unknown is settled by lookups: the chain passes the
\* time bound handed out with the diagnostics, and the view catches up.
UnknownIsSettled ==
  \A e \in Envelope : told[e] = "outcome_unknown" ~> known[e] # "open"

\* Nobody waits for ever: neither for a call nor for what became of it.
CallsSettle == EveryCallReturns /\ UnknownIsSettled
=============================================================================
