----------------------------- MODULE Validators -----------------------------
(***************************************************************************)
(* What the SDK checks before it encodes a call and after it has read one   *)
(* (sdk/src/validators.ts, the encoders of sdk/src/circleUpClient.ts, the   *)
(* FactoryClient of sdk/src/client.ts).  A JavaScript value is a record of  *)
(* its type and its content; a string that should be an address is a record *)
(* of its kind and of whose address it is.  A function that throws returns  *)
(* the empty set, any other the set of its result.                          *)
(***************************************************************************)
EXTENDS CircleFactory

CONSTANTS
  U32_MAX, U64_MAX,       \* the ranges of the host's unsigned integers
  MAX_SAFE_INTEGER,       \* the largest number that is exact
  MAX_CIRCLE_MEMBERS,     \* the SDK's copy of the contracts' member limit
  CreateParams,           \* what callers pass to FactoryClient.createCircle
  USDC_DECIMALS

ASSUME ValidatorsAssumption ==
  /\ U32_MAX \in Nat /\ U64_MAX \in Nat /\ MAX_SAFE_INTEGER \in Nat
  /\ U32_MAX <= MAX_SAFE_INTEGER
  /\ USDC_DECIMALS \in 0..U32_MAX

\* What the contracts hold fits what the SDK reads it into, and a JavaScript array
\* is a list.
ASSUME RangesAssumption ==
  /\ MAX_CIRCLE_MEMBERS \in MAX_MEMBERS..U32_MAX
  /\ MAX_ROUND_DEADLINE_LEDGERS <= U32_MAX
  /\ MaxLedger + MAX_ROUND_DEADLINE_LEDGERS <= U64_MAX
  /\ \A p \in CreateParams :
       p.members.type = "array" => p.members.v \in Seq(Range(p.members.v))

I128_MIN == -I128_MAX - 1

\* The values: number (whole or not), bigint, string, boolean, array, object.
Number(n)   == [type |-> "number", v |-> n, whole |-> TRUE]
Fraction(n) == [type |-> "number", v |-> n, whole |-> FALSE]
BigInt(n)   == [type |-> "bigint", v |-> n]
Text(s)     == [type |-> "string", v |-> s]
List(s)     == [type |-> "array", v |-> s]
Object(r)   == [type |-> "object", v |-> r]

-----------------------------------------------------------------------------
(* Addresses.  "miskeyed" has the shape of an account with a wrong checksum. *)

isValidContractAddress(a) == a.kind = "contract"

isValidStellarAddress(x) ==
  /\ x.type = "string"
  /\ x.v.kind \in {"account", "miskeyed"} \/ isValidContractAddress(x.v)

-----------------------------------------------------------------------------
(* Before a call: the argument check, then the encoders.                   *)

IsU32(x)  == x.type = "number" /\ x.whole /\ x.v \in 0..U32_MAX
IsI128(x) ==
  \/ x.type = "number" /\ x.whole /\ x.v \in -MAX_SAFE_INTEGER..MAX_SAFE_INTEGER
  \/ x.type = "bigint" /\ x.v \in I128_MIN..I128_MAX
IsAddressVec(x) ==
  /\ x.type = "array" /\ x.v # <<>>
  /\ \A i \in DOMAIN x.v : isValidStellarAddress(x.v[i])

\* Whether an argument passes the check of its parameter's type.
validateContractArgs(params) ==
  \A i \in DOMAIN params :
    LET x == params[i].value
    IN  CASE params[i].type = "address"    -> isValidStellarAddress(x)
          [] params[i].type = "u32"        -> IsU32(x)
          [] params[i].type = "i128"       -> IsI128(x)
          [] params[i].type = "bool"       -> x.type = "boolean"
          [] params[i].type = "addressVec" -> IsAddressVec(x)

\* The encoders: an ScVal is a record of its type and value.
ScVal(type, v) == [type |-> type, v |-> v]

scAddress(x) ==
  IF isValidStellarAddress(x) /\ x.v.kind # "miskeyed"
    THEN {ScVal("address", x.v.who)} ELSE {}

scU32(x) ==
  IF x.type = "number" /\ x.whole /\ x.v \in 0..U32_MAX
    THEN {ScVal("u32", x.v)} ELSE {}

scI128(x) ==
  IF \/ x.type = "number" /\ x.whole /\ x.v \in -MAX_SAFE_INTEGER..MAX_SAFE_INTEGER
     \/ x.type = "bigint"
    THEN IF x.v \in I128_MIN..I128_MAX THEN {ScVal("i128", x.v)} ELSE {}
    ELSE {}

scAddressVec(x) ==
  IF /\ x.type = "array" /\ x.v # <<>>
     /\ \A i \in DOMAIN x.v : scAddress(x.v[i]) # {}
    THEN {ScVal("vec", [i \in DOMAIN x.v |-> x.v[i].v.who])}
    ELSE {}

\* encodeAndSend: the call goes out only if every argument is encoded.
Encoded(args) ==
  IF \A i \in DOMAIN args : args[i] # {}
    THEN {[i \in DOMAIN args |-> CHOOSE v \in args[i] : TRUE]}
    ELSE {}

\* The call createCircle makes, if any; otherwise it returns invalid_argument.
createCircle(p) ==
  LET checked == validateContractArgs(
        <<[type |-> "addressVec", value |-> p.members],
          [type |-> "i128", value |-> p.roundAmountStroops],
          [type |-> "u32", value |-> p.roundDeadlineLedgers]>>)
  IN  IF ~checked THEN {}
      ELSE Encoded(<<scAddress(p.creator), scAddressVec(p.members),
                     scI128(p.roundAmountStroops), scU32(p.roundDeadlineLedgers)>>)

\* The host calls a function only with as many arguments as it has parameters,
\* each of its type.
Signature(fn) ==
  CASE fn = "create_circle" -> <<"address", "vec", "i128", "u32">>

HostTakes(fn, args) ==
  /\ Len(args) = Len(Signature(fn))
  /\ \A i \in DOMAIN args : args[i].type = Signature(fn)[i]

-----------------------------------------------------------------------------
(* After a read: the decoders.                                             *)

decodeU32(x) == IF IsU32(x) THEN {x.v} ELSE {}

decodeU32InRange(x, min, max) == {n \in decodeU32(x) : n \in min..max}

decodeBigInt(x) ==
  IF \/ x.type = "bigint"
     \/ x.type = "number" /\ x.whole /\ x.v \in -MAX_SAFE_INTEGER..MAX_SAFE_INTEGER
    THEN {x.v} ELSE {}

decodeI128(x, min) ==
  {n \in decodeBigInt(x) : n \in I128_MIN..I128_MAX /\ n >= min}

decodeU64(x) == {n \in decodeBigInt(x) : n \in 0..U64_MAX}

decodeBoolean(x) == IF x.type = "boolean" THEN {x.v} ELSE {}

decodeAddress(x) == IF isValidStellarAddress(x) THEN {x.v.who} ELSE {}

decodeAddressList(x, unique, maxLength) ==
  IF /\ x.type = "array" /\ Len(x.v) <= maxLength
     /\ \A i \in DOMAIN x.v : decodeAddress(x.v[i]) # {}
     /\ unique => IsInjective([i \in DOMAIN x.v |-> x.v[i].v.who])
    THEN {[i \in DOMAIN x.v |-> x.v[i].v.who]}
    ELSE {}

decodeRecord(x, required) ==
  IF x.type = "object" /\ required \subseteq DOMAIN x.v THEN {x.v} ELSE {}

ConfigFields == {"members", "round_amount", "usdc_token", "reputation_contract",
                 "round_deadline_ledgers"}

\* The configuration as the SDK hands it on.
mapRawConfig(raw) ==
  UNION {
    {[members |-> ms, roundAmount |-> amount, usdcToken |-> usdc,
      reputationContract |-> rep, roundDeadlineLedgers |-> deadline] :
       ms \in decodeAddressList(wire.members, TRUE, MAX_CIRCLE_MEMBERS),
       amount \in decodeI128(wire.round_amount, 1),
       usdc \in decodeAddress(wire.usdc_token),
       rep \in decodeAddress(wire.reputation_contract),
       deadline \in decodeU32InRange(wire.round_deadline_ledgers,
                      MIN_ROUND_DEADLINE_LEDGERS, MAX_ROUND_DEADLINE_LEDGERS)} :
    wire \in decodeRecord(raw, ConfigFields)}

RoundFields == {"round_index", "recipient", "contributions_received",
                "deadline_ledger", "paid_out"}

mapRawRoundState(raw) ==
  UNION {
    {[roundIndex |-> index, recipient |-> recipient,
      contributionsReceived |-> received, deadlineLedger |-> deadline,
      paidOut |-> paid] :
       index \in decodeU32(wire.round_index), recipient \in decodeAddress(wire.recipient),
       received \in decodeU32InRange(wire.contributions_received, 0, MAX_CIRCLE_MEMBERS),
       deadline \in decodeU64(wire.deadline_ledger),
       paid \in decodeBoolean(wire.paid_out)} :
    wire \in decodeRecord(raw, RoundFields)}

-----------------------------------------------------------------------------
(* What the host returns for a value of a contract's type.                 *)

Account(m)   == Text([kind |-> "account", who |-> m])
Contract(c)  == Text([kind |-> "contract", who |-> c])
Boolean(b)   == [type |-> "boolean", v |-> b]

get_config(c) ==
  Object([members |-> List([i \in DOMAIN circle[c].members |->
                              Account(circle[c].members[i])]),
          round_amount |-> BigInt(circle[c].round_amount),
          usdc_token |-> Contract(config.usdc),
          reputation_contract |-> Contract(config.reputation),
          round_deadline_ledgers |-> Number(circle[c].round_deadline_ledgers)])

\* Round r of a circle that starts it now; deadline_ledger is a u64.
get_round(c, r) ==
  Object([round_index |-> Number(r - 1),
          recipient |-> Account(circle[c].members[r]),
          contributions_received |-> Number(Len(circle[c].members)),
          deadline_ledger |-> BigInt(ledger + circle[c].round_deadline_ledgers),
          paid_out |-> Boolean(FALSE)])

get_circles == List([i \in DOMAIN Circles |-> Contract(Circles[i])])
-----------------------------------------------------------------------------
(* Is the deployment the one the client is configured for?  (verifyDeployment *)
(* and the app's DeploymentCheck)                                          *)

LinkChecks == {"factory.usdc", "factory.reputation"}
ContractChecks == LinkChecks \cup {"reputation", "usdc"}

\* What the chain answers in this state to the getter behind a check: a value,
\* or a failed simulation, whose message says that no such contract or entry
\* exists ("missing") or something else (there is no such function, or the
\* contract panics because it is not initialized).
simulateAndRead(cfg, check) ==
  CASE check \in LinkChecks ->
         IF ~cfg.factory THEN [failed |-> "missing"]
         ELSE IF config = None THEN [failed |-> "other"]
         ELSE [value |-> Contract(IF check = "factory.usdc"
                                    THEN config.usdc ELSE config.reputation)]
    [] check = "reputation" ->
         IF cfg.reputation # ReputationContract \/ admin = "none"
           THEN [failed |-> "other"]
           ELSE [value |-> Account(admin)]
    [] check = "usdc" ->
         IF cfg.usdc = UsdcToken THEN [value |-> Number(USDC_DECIMALS)]
         ELSE [failed |-> "other"]

\* The verdict on a value, empty when the value does not decode.
Verdict(cfg, check, value) ==
  CASE check = "factory.usdc" ->
         {IF a = cfg.usdc THEN "ok" ELSE "mismatch" : a \in decodeAddress(value)}
    [] check = "factory.reputation" ->
         {IF a = cfg.reputation THEN "ok" ELSE "mismatch" : a \in decodeAddress(value)}
    [] check = "reputation" -> {"ok" : a \in decodeAddress(value)}
    [] check = "usdc" ->
         {IF d = USDC_DECIMALS THEN "ok" ELSE "mismatch" : d \in decodeU32(value)}

evaluate(cfg, check, read) ==
  IF "value" \in DOMAIN read
    THEN LET v == Verdict(cfg, check, read.value)
         IN  IF v = {} THEN "incompatible" ELSE CHOOSE x \in v : TRUE
    ELSE CASE read.failed \in {"timeout", "network"} -> "unreachable"
           [] read.failed = "missing"                -> "missing"
           [] read.failed = "other"                  -> "incompatible"

\* verifyDeployment: the network first (the configured one, another, or no
\* answer), then every getter; answered is the set of the checks whose read came
\* back within the timeout.
verifyDeployment(cfg, network, answered) ==
  [check \in ContractChecks |->
     IF network # "configured" THEN "skipped"
     ELSE evaluate(cfg, check,
            IF check \in answered THEN simulateAndRead(cfg, check)
            ELSE [failed |-> "timeout"])]

Verified(checks) == \A check \in DOMAIN checks : checks[check] = "ok"

\* The app's own copy: missing code, a foreign getter and an outage are all
\* "unverifiable".
contractStatus(cfg, check, value) ==
  CASE check = "usdc" ->
         IF value.type # "number" \/ ~value.whole THEN "unverifiable"
         ELSE IF value.v = USDC_DECIMALS THEN "verified" ELSE "mismatch"
    [] check = "reputation" ->
         IF value.type = "string" THEN "verified" ELSE "unverifiable"
    [] check \in LinkChecks ->
         IF ~isValidContractAddress(value.v) THEN "unverifiable"
         ELSE IF value.v.who = (IF check = "factory.usdc" THEN cfg.usdc ELSE cfg.reputation)
           THEN "verified" ELSE "mismatch"

verifyConfiguredDeployment(cfg, network, answered) ==
  [check \in ContractChecks |->
     LET read == simulateAndRead(cfg, check)
     IN  IF \/ network # "configured" \/ check \notin answered
            \/ "value" \notin DOMAIN read
           THEN "unverifiable" ELSE contractStatus(cfg, check, read.value)]

-----------------------------------------------------------------------------
(* Properties.                                                             *)

\* The SDK sends create_circle exactly what its caller gave, in the order and
\* of the types the contract takes, and refuses only what cannot be encoded.
SdkSendsWhatIsAsked ==
  \A p \in CreateParams :
    /\ \A call \in createCircle(p) :
         /\ HostTakes("create_circle", call)
         /\ [i \in DOMAIN call |-> call[i].v] =
              <<p.creator.v.who, [i \in DOMAIN p.members.v |-> p.members.v[i].v.who],
                p.roundAmountStroops.v, p.roundDeadlineLedgers.v>>
    /\ createCircle(p) = {} =>
         {} \in {scAddress(p.creator), scAddressVec(p.members),
                 scI128(p.roundAmountStroops), scU32(p.roundDeadlineLedgers)}

\* Every deployed circle can be read: its configuration, each of its rounds and
\* the registry decode to what the contracts hold.
EveryCircleReads ==
  /\ decodeAddressList(get_circles, FALSE, MaxCircles) = {Circles}
  /\ \A c \in DOMAIN circle :
       /\ mapRawConfig(get_config(c)) =
            {[members |-> circle[c].members, roundAmount |-> circle[c].round_amount,
              usdcToken |-> config.usdc, reputationContract |-> config.reputation,
              roundDeadlineLedgers |-> circle[c].round_deadline_ledgers]}
       /\ \A r \in DOMAIN circle[c].members :
            \A round \in {get_round(c, r)} :
              \E read \in mapRawRoundState(round) :
                /\ read.recipient = circle[c].members[r]
                /\ read.deadlineLedger = round.v.deadline_ledger.v

\* A deployment is verified, by the SDK and by the app alike, only if it is the
\* configured one, and then every circle of it has awarded and will award its
\* points in the configured reputation contract; the configured deployment is
\* refused only while a read fails.
VerificationIsRight ==
  \A cfg \in [factory : BOOLEAN, reputation : Contracts, usdc : Contracts],
     network \in {"configured", "other"},
     answered \in {ContractChecks, ContractChecks \ {"usdc"}} :
    LET sdk == verifyDeployment(cfg, network, answered)
        app == verifyConfiguredDeployment(cfg, network, answered)
        is  == /\ cfg.factory /\ config # None
               /\ cfg.usdc = config.usdc /\ cfg.reputation = config.reputation
               /\ cfg.usdc = UsdcToken /\ cfg.reputation = ReputationContract
    IN  /\ Verified(sdk) <=> \A check \in DOMAIN app : app[check] = "verified"
        /\ Verified(sdk) =>
             is /\ Range(Circles) \subseteq Range(AuthorizedCallers) \cup Range(RevokedCallers)
        /\ (is /\ admin # "none" /\ network = "configured" /\ answered = ContractChecks)
             => Verified(sdk)
=============================================================================
