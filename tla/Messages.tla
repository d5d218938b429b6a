------------------------------ MODULE Messages ------------------------------
(***************************************************************************)
(* What the web application tells of a failure (app/src/lib/                *)
(* contractErrors.ts, walletCapabilities.ts and the results of stellar.ts): *)
(* a raw text becomes an error code by the first rule that fits it, and the *)
(* code a sentence.  A text is the set of the phrases it holds, of those    *)
(* that some rule looks for; "= p" stands for a text that is p.             *)
(***************************************************************************)
EXTENDS Naturals, Sequences, FiniteSets, FiniteSetsExt

\* A rule: the code of a text that holds all phrases of one of the sets.
Rule(any, code) == [any |-> any, code |-> code]
One(phrases) == {{p} : p \in phrases}

WalletRules ==
  << Rule(One({"user rejected", "denied", "rejected", "cancelled", "canceled",
               "freighter did not return"}), "WALLET_REJECTED"),
     Rule({{"not installed"}, {"freighter", "install"}}, "WALLET_NOT_INSTALLED"),
     Rule(One({"permission denied", "approve the connection"}),
          "WALLET_PERMISSION_DENIED") >>

ExecutionRules ==
  << Rule(One({"= transaction failed", "= tx_failed", "txfailed"}), "TX_FAILED_ON_CHAIN"),
     Rule({{"txbadseq"}}, "TX_BAD_SEQ"),
     Rule({{"txinsufficientfee"}, {"insufficient", "fee"}}, "TX_INSUFFICIENT_FEE") >>

NetworkRules ==
  << Rule(One({"= timeout", "timed out"}), "NETWORK_TIMEOUT"),
     Rule(One({"network", "fetch", "econnrefused", "econnreset", "enotfound",
               "socket hang up", "bad gateway", "service unavailable"}), "NETWORK_ERROR"),
     Rule({{"rpc", "unavailable"}, {"rpc", "failed"}}, "NETWORK_RPC_UNAVAILABLE") >>

InitRules ==
  << Rule({{"need at least 2 members"}}, "INIT_TOO_FEW_MEMBERS"),
     Rule({{"too many members"}}, "INIT_TOO_MANY_MEMBERS"),
     Rule({{"duplicate members"}}, "INIT_DUPLICATE_MEMBERS"),
     Rule({{"round_amount must be positive"}}, "INIT_INVALID_ROUND_AMOUNT"),
     Rule({{"overflows pot calculation"}}, "INIT_POT_OVERFLOW"),
     Rule({{"overflows penalty calculation"}}, "INIT_PENALTY_OVERFLOW"),
     Rule({{"round_deadline_ledgers below minimum"}}, "INIT_DEADLINE_BELOW_MINIMUM"),
     Rule({{"round_deadline_ledgers above maximum"}}, "INIT_DEADLINE_ABOVE_MAXIMUM"),
     Rule({{"usdc_token must not be the circle contract"}}, "INIT_INVALID_TOKEN_ADDRESS"),
     Rule({{"does not implement the standard token interface"}}, "TOKEN_UNUSABLE") >>

StateRules ==
  << Rule({{"circle is paused"}}, "STATE_CIRCLE_PAUSED"),
     Rule({{"already initialized"}}, "INIT_ALREADY_INITIALIZED"),
     Rule({{"already joined"}}, "STATE_ALREADY_JOINED"),
     Rule({{"already contributed"}}, "STATE_ALREADY_CONTRIBUTED"),
     Rule(One({"not a circle member", "not a member"}), "AUTH_NOT_A_MEMBER") >>

FundRules ==
  << Rule({{"usdc transfer failed", "insufficient"}, {"token transfer failed", "insufficient"}},
          "TOKEN_INSUFFICIENT_BALANCE"),
     Rule(One({"usdc transfer failed", "token transfer failed"}), "TOKEN_TRANSFER_FAILED"),
     Rule(One({"deadline has passed", "past the round deadline", "deadline passed"}),
          "DEADLINE_PASSED"),
     Rule(One({"deadline has not passed", "deadline not passed"}), "DEADLINE_NOT_PASSED"),
     Rule({{"not all members have contributed"}}, "STATE_ROUND_NOT_COMPLETE"),
     Rule(One({"already paid out", "circle is not active", "wrong status",
               "circle still active"}), "STATE_WRONG_STATUS"),
     Rule(One({"already been closed", "already closed"}), "STATE_ALREADY_CLOSED") >>

Rules == WalletRules \o ExecutionRules \o NetworkRules \o StateRules \o InitRules \o FundRules

\* parseContractError without a contract's error code, as the application calls
\* it: the first rule that fits, in the order of the code.
parseContractError(text) ==
  LET hits == {i \in DOMAIN Rules : \E phrases \in Rules[i].any : phrases \subseteq text}
  IN  IF hits = {} THEN "UNKNOWN" ELSE Rules[Min(hits)].code

\* The sentence of a code, for those that speak of what to do, or of what has
\* become of the transaction.
USER_MESSAGES(code) ==
  CASE code = "WALLET_REJECTED" -> {"no funds were moved"}
    [] code = "WALLET_PERMISSION_DENIED" -> {"connection", "try again"}
    [] code = "NETWORK_ERROR" -> {"network", "connection", "try again"}
    [] code = "NETWORK_TIMEOUT" -> {"timed out", "may still confirm"}
    [] code = "NETWORK_RPC_UNAVAILABLE" -> {"rpc", "temporarily unavailable", "try again"}
    [] code = "TX_FAILED_ON_CHAIN" -> {"rejected on-chain"}
    [] code \in {"TX_BAD_SEQ", "TX_INSUFFICIENT_FEE"} -> {"network", "try again"}
    [] code \in {"UNKNOWN", "TOKEN_INSUFFICIENT_BALANCE"} -> {"try again"}
    [] OTHER -> {}

\* What a sentence may claim of the transaction itself.
Claims == {"no funds were moved", "rejected on-chain"}

\* circleDetailState.ts: may an action that failed with this sentence be tried
\* again by one click?
isRetryableError(sentence) ==
  sentence \cap {"timeout", "timed out", "network", "fetch", "connection", "rpc",
                 "temporarily unavailable"} # {}

\* The result code of a failed transaction, or "transaction failed" if it has
\* none or an unknown one.
onChainFailureError(text) ==
  IF parseContractError(text) = "UNKNOWN" THEN parseContractError({"= transaction failed"})
  ELSE parseContractError(text)

-----------------------------------------------------------------------------
(* The raw texts of each step of an action.                                *)

\* The errors of the RPC client and of fetch, as browsers word them.
RpcTexts ==
  {{"network"}, {"fetch"}, {"timed out"}, {"service unavailable"}, {"rpc", "unavailable"}, {}}

\* getAccount is told by two words only; a simulation that the contract refuses
\* says "Error(Contract, #N)", which no rule looks for.
simulationErrors ==
  {parseContractError(IF text \cap {"network", "fetch"} # {} THEN {"network"} ELSE text) :
     text \in RpcTexts} \cup {parseContractError(text) : text \in RpcTexts}

\* What the injected wallet can do.
Providers == [installed : BOOLEAN, canSignTransaction : BOOLEAN]

\* explainUnsupportedAction("sign"), or None.
explainUnsupportedAction(caps) ==
  IF ~caps.installed THEN {{"freighter", "install"}}
  ELSE IF ~caps.canSignTransaction THEN {{"freighter"}}
  ELSE {}

\* assertIdentity throws without a word that a rule knows, or because the wallet
\* is gone; the wallet cannot sign; the user rejects, or the wallet fails, with
\* or without a word, or returns nothing, or another transaction.
signatureErrors ==
  {parseContractError(text) :
     text \in {{}, {"not installed"}, {"user rejected"}, {"denied"}, {"network"},
               {"freighter did not return"}}
        \cup UNION {explainUnsupportedAction(caps) : caps \in Providers}}

\* sendTransaction has no answer ("Read unavailable" after 15 seconds, or an
\* error of the transport), or answers ERROR with a result code.
submissionErrors ==
  {parseContractError(text) : text \in RpcTexts}
    \cup {onChainFailureError(text) : text \in {{"txbadseq"}, {"txinsufficientfee"}, {}}}

\* getTransaction answers FAILED, which this version of the RPC library tells
\* without a result code; or the last poll has not found it.
confirmationErrors ==
  {onChainFailureError({}), parseContractError({"= timeout"})}

=============================================================================
