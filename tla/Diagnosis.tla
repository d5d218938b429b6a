----------------------------- MODULE Diagnosis -----------------------------
(***************************************************************************)
(* Why a call of the circle is refused, and what the SDK makes of it: the   *)
(* checks of each entry point in the order the contract makes them          *)
(* (contracts/circle/src/lib.rs), the error code of the first that fails,   *)
(* and the category and sentence the SDK derives from the code, the method  *)
(* and the kind of contract (sdk/src/simulationHelpers.ts).                 *)
(*                                                                         *)
(* A sentence is named by what it says; a test for a substring of it is     *)
(* membership in the set of the sentences that contain the substring.       *)
(***************************************************************************)
EXTENDS CircleClient

-----------------------------------------------------------------------------
(* The contract: the first check that fails, or "allowed".                 *)

\* The codes of ContractError, and of the errors of close and of pause.
ContractError ==
  [NotInitialized |-> 1, CircleNotActive |-> 2, NotMember |-> 4,
   DuplicateAction |-> 5, WrongStatus |-> 6, CirclePaused |-> 7,
   DeadlinePassed |-> 8, DeadlineNotPassed |-> 9, AlreadyPaidOut |-> 10,
   IncompleteRound |-> 11, MemberNotJoined |-> 12, AlreadyDefaulted |-> 13,
   MemberContributed |-> 14]
CloseError ==
  [CirclePaused |-> 7, AlreadyClosed |-> 1, NotTerminalState |-> 2,
   CloserUnauthorized |-> 3, RoundsIncomplete |-> 4]
PauseError ==
  [Unauthorized |-> 1, AlreadyPaused |-> 2, NotPaused |-> 3,
   NotInitializedYet |-> 4]
ErrorCode == ContractError @@ CloseError @@ PauseError

Paused == <<paused, "CirclePaused">>
Uninitialized == <<status = "Uninitialized", "panic">>
StatusIsNot(s) == <<status # s, "WrongStatus">>
Stranger(a) == <<a \notin MemberSet, "NotMember">>
RoundChecks == <<Paused, Uninitialized, StatusIsNot("Active"),
                 <<round.paid_out, "AlreadyPaidOut">>>>

join_refusal(a) ==
  FirstReason(<<Paused, Uninitialized, StatusIsNot("Pending"), Stranger(a),
                <<a \in joined, "DuplicateAction">>>>)

cancel_refusal(a) ==
  FirstReason(<<Paused, Uninitialized, StatusIsNot("Pending"), Stranger(a)>>)

contribute_refusal(a) ==
  FirstReason(RoundChecks \o
    <<<<deadline_passed, "DeadlinePassed">>, Stranger(a),
      <<a \in contributed[round.round_index], "DuplicateAction">>>>)

payout_refusal ==
  FirstReason(RoundChecks \o
    <<<<round.contributions_received # N, "IncompleteRound">>>>)

mark_default_refusal(a) ==
  LET r == round.round_index
  IN  FirstReason(RoundChecks \o
        <<<<~deadline_passed, "DeadlineNotPassed">>, Stranger(a),
          <<a \in MemberSet /\ collateral[a] = 0, "MemberNotJoined">>,
          <<a \in defaulted[r], "AlreadyDefaulted">>,
          <<a \in contributed[r], "MemberContributed">>>>)

settle_round_refusal ==
  FirstReason(RoundChecks \o
    <<<<~deadline_passed, "DeadlineNotPassed">>,
      <<round.contributions_received = N, "IncompleteRound">>>>)

close_refusal(a) ==
  FirstReason(<<Paused, Uninitialized, <<closed, "AlreadyClosed">>,
                <<status \notin {"Completed", "Cancelled"},
                  "NotTerminalState">>,
                <<a # Admin /\ a \notin MemberSet, "CloserUnauthorized">>,
                <<status = "Completed" /\ rounds_completed # N,
                  "RoundsIncomplete">>>>)

pause_refusal(a) ==
  FirstReason(<<<<status = "Uninitialized", "NotInitializedYet">>,
                <<a # Admin, "Unauthorized">>, <<paused, "AlreadyPaused">>>>)

resume_refusal(a) ==
  FirstReason(<<<<status = "Uninitialized", "NotInitializedYet">>,
                <<a # Admin, "Unauthorized">>, <<~paused, "NotPaused">>>>)

get_config_refusal ==
  FirstReason(<<<<status = "Uninitialized", "NotInitialized">>>>)
get_status_refusal == FirstReason(<<Uninitialized>>)
get_current_round_refusal ==
  FirstReason(<<Uninitialized,
                <<status \in {"Completed", "Cancelled"}, "CircleNotActive">>>>)

Refusal(method, a) ==
  CASE method = "join"         -> join_refusal(a)
    [] method = "cancel"       -> cancel_refusal(a)
    [] method = "contribute"   -> contribute_refusal(a)
    [] method = "payout"       -> payout_refusal
    [] method = "mark_default" -> mark_default_refusal(a)
    [] method = "settle_round" -> settle_round_refusal
    [] method = "close"        -> close_refusal(a)
    [] method = "pause"        -> pause_refusal(a)
    [] method = "resume"       -> resume_refusal(a)
    [] method = "get_config"   -> get_config_refusal
    [] method = "get_status"   -> get_status_refusal
    [] method = "get_current_round" -> get_current_round_refusal

Mutations == {"join", "cancel", "contribute", "payout", "mark_default",
              "settle_round", "close"}
Views == {"get_config", "get_status", "get_current_round"}
Methods == Mutations \cup {"pause", "resume"} \cup Views

-----------------------------------------------------------------------------
(* The SDK: from the code to a category and a sentence.                    *)

contractErrorCategory(code, method) ==
  CASE method \in {"pause", "resume"} ->
         IF code \in {1, 4} THEN "authorization"
         ELSE IF code \in {2, 3} THEN "state" ELSE "unknown"
    [] method = "close" ->
         IF code = 3 THEN "authorization"
         ELSE IF code \in 1..4 THEN "state" ELSE "unknown"
    [] method \in Mutations \ {"close"} ->
         IF code \in {4, 12} THEN "authorization"
         ELSE IF code \in {8, 9} THEN "deadline"
         ELSE IF code \in 5..14 THEN "state" ELSE "unknown"
    [] method \in {"get_config", "get_current_round", "get_pot_amount"} ->
         IF code \in 1..3 THEN "state" ELSE "unknown"
    [] OTHER -> "unknown"

pauseDiagnostics == <<"only the admin", "already paused", "not paused",
                      "not initialized">>
closeDiagnostics == <<"already closed", "not terminal", "may not close",
                      "rounds incomplete">>
viewDiagnostics == <<"has not been initialized", "circle is not active",
                     "pot overflows">>
mutationDiagnostics ==
  4 :> "not a member" @@ 5 :> "already done" @@ 6 :> "wrong state" @@
  7 :> "paused" @@ 8 :> "deadline has passed" @@
  9 :> "deadline has not passed" @@ 10 :> "already paid out" @@
  11 :> "not eligible for settlement" @@ 12 :> "not joined" @@
  13 :> "already in default" @@ 14 :> "contributed"

\* A slip of DiagnosticTables: the tables are asked whatever the method.
DiagnosticTables_AnyMethod(method) ==
  <<mutationDiagnostics, closeDiagnostics, pauseDiagnostics, viewDiagnostics>>

\* The tables that are asked for a method, in turn.
DiagnosticTables(method) ==
  (IF method \in {"pause", "resume"} THEN <<pauseDiagnostics>> ELSE <<>>)
  \o (IF method = "close" THEN <<closeDiagnostics>> ELSE <<>>)
  \o (IF method \in {"get_config", "get_current_round", "get_pot_amount"}
        THEN <<viewDiagnostics>> ELSE <<>>)
  \o (IF method \in Mutations THEN <<mutationDiagnostics>> ELSE <<>>)

\* The sentence of the first table that has the code; a code in none of them is
\* shown as a number, an error without a code (a panic) as it is.
extractSimulationError(refusal, method) ==
  IF refusal = "panic" THEN "as it is"
  ELSE LET code == ErrorCode[refusal]
           hits == {i \in DOMAIN DiagnosticTables(method) :
                      code \in DOMAIN DiagnosticTables(method)[i]}
       IN  IF hits = {} THEN "error code"
           ELSE DiagnosticTables(method)[CHOOSE i \in hits :
                                           \A j \in hits : i <= j][code]

\* A call of the RPC node that fails on its way, and how it is put.
RpcFailures == {"refused", "dns", "timeout", "fetch", "tls", "other"}
formatRpcError(failure) ==
  [refused |-> "could not connect", dns |-> "DNS resolution failed",
   timeout |-> "did not respond in time", fetch |-> "network fetch failed",
   tls |-> "TLS error", other |-> "as it is"][failure]

\* The sentences with one of the phrases that isConfigAbsent, isCircleNotActive
\* look for.  ("has not been initialized" has none of the former's.)
isConfigAbsent(sentence) == sentence \in {"not initialized"}
isCircleNotActive(sentence) ==
  sentence \in {"circle is not active", "no active round"}

normalizeNotInitializedError(sentence) ==
  IF isConfigAbsent(sentence) THEN "not initialized" ELSE sentence
normalizeCircleNotActiveError(sentence) ==
  IF isCircleNotActive(sentence) THEN "no active round" ELSE sentence

-----------------------------------------------------------------------------
(* Properties.                                                             *)

\* What a sentence says of the circle, the method called and the member named.
IsTrue(sentence, method, a) ==
  CASE sentence = "only the admin" -> a # Admin
    [] sentence = "already paused" -> paused
    [] sentence = "not paused" -> ~paused
    [] sentence = "not initialized" -> status = "Uninitialized"
    [] sentence = "has not been initialized" -> status = "Uninitialized"
    [] sentence = "already closed" -> closed
    [] sentence = "not terminal" -> status \in {"Pending", "Active"}
    [] sentence = "may not close" -> a # Admin /\ a \notin MemberSet
    [] sentence = "rounds incomplete" -> rounds_completed < N
    [] sentence = "circle is not active" ->
         status \in {"Completed", "Cancelled"}
    [] sentence = "not a member" -> a \notin MemberSet
    [] sentence = "already done" ->
         \/ method = "join" /\ a \in joined
         \/ method = "contribute" /\ a \in contributed[round.round_index]
    [] sentence = "wrong state" ->
         IF method \in {"join", "cancel"} THEN status # "Pending"
                                          ELSE status # "Active"
    [] sentence = "paused" -> paused
    [] sentence = "deadline has passed" -> deadline_passed
    [] sentence = "deadline has not passed" -> ~deadline_passed
    [] sentence = "already paid out" -> round.paid_out
    [] sentence = "not eligible for settlement" ->
         (method = "payout") # (contributed[round.round_index] = MemberSet)
    [] sentence = "not joined" -> a \notin joined
    [] sentence = "already in default" -> a \in defaulted[round.round_index]
    [] sentence = "contributed" -> a \in contributed[round.round_index]
    [] OTHER -> FALSE

\* The caller is at fault, the clock, or the circle.
CategoryOf(refusal) ==
  IF refusal \in {"NotMember", "MemberNotJoined", "CloserUnauthorized",
                  "Unauthorized", "NotInitializedYet"} THEN "authorization"
  ELSE IF refusal \in {"DeadlinePassed", "DeadlineNotPassed"} THEN "deadline"
  ELSE "state"

\* Every refusal with a code is put in a sentence that is true of the circle at
\* that moment, although the codes of the three error types overlap and the
\* tables are chosen by method; and it is filed under its category, but for a
\* close refused because the circle is paused.
SentencesAreTrue ==
  \A method \in Methods, a \in Address :
    LET why == Refusal(method, a)
    IN  why \in DOMAIN ErrorCode =>
          /\ IsTrue(extractSimulationError(why, method), method, a)
          /\ contractErrorCategory(ErrorCode[why], method) =
               IF method = "close" /\ why = "CirclePaused"
                 THEN "unknown" ELSE CategoryOf(why)

HasFunds(a, amount) == a \in MemberSet /\ wallet[a] >= amount

\* What is said to be accepted is exactly what can happen.
AcceptsIsExact ==
  \A a \in Address :
    /\ Accepts("join", a) <=> ENABLED join(a)
    /\ Accepts("cancel", a) <=> ENABLED cancel(a)
    /\ Accepts("contribute", a) <=> ENABLED contribute(a)
    /\ Accepts("payout", a) <=> ENABLED payout
    /\ Accepts("default", a) <=> ENABLED mark_default(a)
    /\ Accepts("close", a) <=> ENABLED close(a)

\* A refusal names the only reason there is: without one, the call succeeds
\* for a caller who signs, has the funds, and whose circle is registered.
RefusalsAreExact ==
  \A a \in Address :
    /\ (join_refusal(a) = "allowed" /\ a \in Callers
          /\ HasFunds(a, CollateralDue)) <=> ENABLED join(a)
    /\ (contribute_refusal(a) = "allowed" /\ a \in Callers
          /\ HasFunds(a, round_amount)) <=> ENABLED contribute(a)
    /\ (payout_refusal = "allowed" /\ registration = "authorized")
          <=> ENABLED payout
    /\ (mark_default_refusal(a) = "allowed") <=> ENABLED mark_default(a)
    /\ (settle_round_refusal = "allowed" /\ registration = "authorized")
          <=> ENABLED settle_round
    /\ (close_refusal(a) = "allowed" /\ a \in Callers) <=> ENABLED close(a)

\* The gate's reason, where the order of the checks is the contract's.
GateReason ==
  [wrong_status |-> {"WrongStatus", "NotTerminalState"},
   no_active_round |-> {}, not_a_member |-> {"NotMember"},
   already_joined |-> {"DuplicateAction"},
   already_contributed |-> {"DuplicateAction"},
   deadline_passed |-> {"DeadlinePassed"},
   round_not_complete |-> {"IncompleteRound"},
   allowed |-> {"allowed", "AlreadyClosed"}]

\* The reason a gate gives is the reason the contract would give.
GatesNameTheReason ==
  get_status # "none" /\ ~paused => \A m \in MemberSet :
    \A action \in {"join", "contribute", "payout", "close"} :
      Refusal(action, m) \in
        GateReason[computeActionEligibility(action, Snapshot, Options(m))]

\* A round that cannot be read is taken for the end of the circle exactly when
\* the circle is over, never when a call failed on its way or the contract was
\* never initialized; nor is a failed call taken for a missing configuration.
AbsenceIsReal ==
  LET reason == get_current_round_refusal
      sentence == normalizeCircleNotActiveError(
                    extractSimulationError(reason, "get_current_round"))
  IN  /\ reason # "allowed" =>
           (isCircleNotActive(sentence) <=> status \in {"Completed", "Cancelled"})
      /\ \A failure \in RpcFailures :
           LET text == formatRpcError(failure)
           IN  /\ ~isCircleNotActive(normalizeCircleNotActiveError(text))
               /\ ~isConfigAbsent(normalizeNotInitializedError(text))

\* Refused for the reason the contract has, told what is true, and told the
\* same by the gate beforehand and by the contract afterwards.
DiagnosesAgree ==
  AtRest => /\ AcceptsIsExact
            /\ RefusalsAreExact
            /\ SentencesAreTrue
            /\ GatesNameTheReason
            /\ AbsenceIsReal
=============================================================================
