---------------------------- MODULE CircleFactory ----------------------------
(***************************************************************************)
(* The factory (contracts/circle_factory/src/lib.rs) composed with the      *)
(* reputation contract it registers circles with and with the part of the   *)
(* circles that create_circle reaches: their initialize.  create_circle is  *)
(* one action because the whole tree of calls commits or rolls back.        *)
(***************************************************************************)
EXTENDS Reputation

CONSTANTS
  Factory,                     \* the factory's own address
  ReputationContract,          \* the address of the reputation contract
  UsdcToken,                   \* the address of a usable token contract
  ReputationAdmins,            \* what the deployment may pass to the
                               \* reputation contract's initialize
  Creator,                     \* the wallets that may create circles
  MemberLists,                 \* the member lists they submit
  Amounts,                     \* the round amounts they submit
  Deadlines,                   \* the deadlines they submit
  MAX_MEMBERS,
  MIN_ROUND_DEADLINE_LEDGERS,
  MAX_ROUND_DEADLINE_LEDGERS,
  I128_MAX,                    \* the largest amount the integer type holds
  MaxCircles,                  \* bound: circles created
  ManagedCallers,              \* bound: callers an admin adds or removes by hand
  MaxLedger                    \* bound: ledgers closed

ASSUME FactoryAssumption ==
  /\ MAX_MEMBERS \in Nat /\ MaxCircles \in Nat /\ MaxLedger \in Nat
  /\ Creator \subseteq Signers /\ ManagedCallers \subseteq Circle
  /\ Factory \notin Signers \cup {"none"}   \* a contract does not sign as a wallet
  /\ Circle = Creator \X (0..MaxCircles - 1) \X (0..MaxLedger)
  \* Scores are kept for the members of every list that is not too long.
  /\ \A ms \in MemberLists : Len(ms) > MAX_MEMBERS \/ ms \in Seq(Member)

\* Amounts are i128, deadlines and their limits u32.
ASSUME LimitsAssumption ==
  /\ I128_MAX \in Nat /\ Amounts \subseteq Int /\ Deadlines \subseteq Nat
  /\ MIN_ROUND_DEADLINE_LEDGERS \in Nat /\ MAX_ROUND_DEADLINE_LEDGERS \in Nat

\* Three contracts have three addresses: no circle is deployed at another's.
ASSUME DistinctAddressesAssumption ==
  /\ ReputationContract # UsdcToken
  /\ \A a \in {ReputationContract, UsdcToken} : a \notin Creator \X Nat \X Nat

VARIABLES
  config,       \* the factory's Admin, ReputationContract and UsdcToken keys
  Circles,      \* DataKey::Circles
  CircleCount,  \* DataKey::CircleCount
  circle,       \* the deployed circle contracts and their Config and Admin
  ledger        \* env.ledger().sequence()

facVars == <<config, Circles, CircleCount, circle, ledger>>
vars == <<repVars, facVars>>

PENALTY_BPS == 2000

None == [admin |-> "none", reputation |-> <<>>, usdc |-> <<>>]

Init ==
  /\ RepInit
  /\ config = None
  /\ Circles = <<>> /\ CircleCount = 0
  /\ circle = <<>>
  /\ ledger = 0

-----------------------------------------------------------------------------
(* Input validation, in the order of the checks.                           *)

\* assert_unique_members of both contracts: no two positions hold one address.
UniqueMembers(ms) == IsInjective(ms)

\* checked_mul on i128, for a positive amount.
Overflows(a, k) == a * k > I128_MAX

\* The factory's verdict.  The two overflow checks panic with a message and
\* carry no error code.
validate_create_inputs(ms, amount, deadline) ==
  IF Len(ms) < 2                                THEN "TooFewMembers"
  ELSE IF Len(ms) > MAX_MEMBERS                 THEN "TooManyMembers"
  ELSE IF ~UniqueMembers(ms)                    THEN "DuplicateMembers"
  ELSE IF amount <= 0                           THEN "InvalidRoundAmount"
  ELSE IF Overflows(amount, Len(ms))            THEN "panic"
  ELSE IF Overflows(amount, PENALTY_BPS)        THEN "panic"
  ELSE IF deadline < MIN_ROUND_DEADLINE_LEDGERS THEN "DeadlineBelowMinimum"
  ELSE IF deadline > MAX_ROUND_DEADLINE_LEDGERS THEN "DeadlineAboveMaximum"
  ELSE "ok"

\* The verdict of the circle's own initialize on the same configuration, for a
\* circle deployed at address self.
circle_validates(self, ms, amount, deadline, usdc, reputation) ==
  IF Len(ms) < 2                                THEN "TooFewMembers"
  ELSE IF Len(ms) > MAX_MEMBERS                 THEN "TooManyMembers"
  ELSE IF ~UniqueMembers(ms)                    THEN "DuplicateMembers"
  ELSE IF amount <= 0                           THEN "InvalidRoundAmount"
  ELSE IF Overflows(amount, Len(ms))            THEN "RoundAmountPotOverflow"
  ELSE IF Overflows(amount, PENALTY_BPS)        THEN "RoundAmountPenaltyOverflow"
  ELSE IF deadline < MIN_ROUND_DEADLINE_LEDGERS THEN "DeadlineBelowMinimum"
  ELSE IF deadline > MAX_ROUND_DEADLINE_LEDGERS THEN "DeadlineAboveMaximum"
  ELSE IF usdc = self                           THEN "InvalidTokenAddress"
  ELSE IF reputation \in {self, usdc}           THEN "InvalidReputationAddress"
  ELSE IF usdc # UsdcToken                      THEN "UnusableTokenContract"
  ELSE "ok"

-----------------------------------------------------------------------------
(* The entry points.                                                       *)

Contracts == {ReputationContract, UsdcToken}

\* Whoever deploys the factory names the contracts it works with; nothing
\* checks them here.
FactoryInitialize(a) ==
  /\ config = None
  /\ require_auth(a)
  /\ \E rep, usdc \in Contracts :
       config' = [admin |-> a, reputation |-> rep, usdc |-> usdc]
  /\ Circles' = <<>> /\ CircleCount' = 0
  /\ UNCHANGED <<repVars, circle, ledger>>

\* The address a circle is deployed at: a hash of the creator, the counter and
\* the ledger, taken to be free of collisions.
derive_circle_salt(creator) == <<creator, CircleCount, ledger>>

\* A slip of AuthorizeCircle: the call is forgotten.
AuthorizeCircle_Skipped(c) == UNCHANGED repVars

\* The call to add_authorized_caller, which the host lets the factory sign.
AuthorizeCircle(c) ==
  /\ config.reputation = ReputationContract
  /\ require_admin(Factory) /\ AddCaller(c)

\* The registry writes, after everything else has succeeded.
RegisterCircle(c) ==
  /\ Circles' = Append(Circles, c)
  /\ CircleCount' = CircleCount + 1

create_circle(creator, ms, amount, deadline) ==
  LET c == derive_circle_salt(creator)
  IN  /\ CircleCount < MaxCircles
      /\ require_auth(creator)
      /\ validate_create_inputs(ms, amount, deadline) = "ok"
      /\ config # None
      /\ c \notin DOMAIN circle                         \* deploy
      /\ circle_validates(c, ms, amount, deadline,
                          config.usdc, config.reputation) = "ok"
      /\ circle' = [x \in DOMAIN circle \cup {c} |->
                      IF x = c THEN [members |-> ms, round_amount |-> amount,
                                     round_deadline_ledgers |-> deadline,
                                     admin |-> Factory]
                      ELSE circle[x]]
      /\ AuthorizeCircle(c)
      /\ RegisterCircle(c)
      /\ UNCHANGED <<config, ledger>>

\* A deployed circle settles a round and awards its recipient.
CircleAwards ==
  /\ \E c \in DOMAIN circle : \E m \in Range(circle[c].members) : increment(c, m)
  /\ UNCHANGED facVars

\* An admin wallet adds or removes callers itself.
ManageByHand ==
  /\ \E a \in Signers, c \in ManagedCallers :
       add_authorized_caller(a, c) \/ remove_authorized_caller(a, c)
  /\ UNCHANGED facVars

AdvanceLedger ==
  /\ ledger < MaxLedger
  /\ ledger' = ledger + 1
  /\ UNCHANGED <<repVars, config, Circles, CircleCount, circle>>

Next ==
  \/ \E a \in Signers : FactoryInitialize(a)
  \/ \E creator \in Creator, ms \in MemberLists, amount \in Amounts,
        deadline \in Deadlines : create_circle(creator, ms, amount, deadline)
  \/ CircleAwards
  \/ (\E a \in ReputationAdmins : RepSetup(a)) /\ UNCHANGED facVars
  \/ ManageByHand
  \/ AdvanceLedger

Spec == Init /\ [][Next]_vars

-----------------------------------------------------------------------------
(* Properties.                                                             *)

TypeOK ==
  /\ admin \in ReputationAdmins \cup {"none"}
  /\ RepTypeOK
  /\ config \in [admin : Signers, reputation : Contracts, usdc : Contracts]
                  \cup {None}
  /\ Circles \in Seq(Circle)
  /\ CircleCount \in 0..MaxCircles
  /\ DOMAIN circle \subseteq Circle
  /\ ledger \in 0..MaxLedger

\* The registry lists every deployed circle once, in creation order, and its
\* counter is its length: a create_circle that fails half-way leaves no circle
\* without an entry and no entry without a circle.  And no circle address is
\* derived twice, also for one creator in one ledger: the next create_circle
\* never fails for a collision.
RegistryIsComplete ==
  /\ CircleCount = Len(Circles)
  /\ IsInjective(Circles)
  /\ Range(Circles) = DOMAIN circle
  /\ CircleCount < MaxCircles =>
       \A creator \in Creator : derive_circle_salt(creator) \notin DOMAIN circle

\* The allowlist of a reputation contract administered by the factory is its
\* registry, in order: no circle exists that cannot award points, and nothing
\* else can.  With any other admin no circle comes into being.
AllowlistIsRegistry ==
  /\ admin = Factory => AuthorizedCallers = Circles /\ RevokedCallers = <<>>
  /\ admin # Factory => Circles = <<>>

\* A create_circle that fails anywhere between its four steps leaves registry,
\* deployed circles and allowlist as one and the same list.
OneList == RegistryIsComplete /\ AllowlistIsRegistry

\* The factory rejects exactly the configurations the circle would reject (in a
\* factory wired to distinct, usable contracts), so that no creator pays for a
\* deployment that initialize rolls back, and every deployed circle meets the
\* assumptions module Circle makes of its configuration.
ValidationAgrees ==
  /\ \A creator \in Creator, ms \in MemberLists, amount \in Amounts,
        deadline \in Deadlines :
       validate_create_inputs(ms, amount, deadline) = "ok" <=>
         circle_validates(derive_circle_salt(creator), ms, amount, deadline,
                          UsdcToken, ReputationContract) = "ok"
  /\ \A c \in DOMAIN circle :
       /\ Len(circle[c].members) >= 2 /\ IsInjective(circle[c].members)
       /\ circle[c].round_amount > 0
       /\ circle[c].round_amount * Len(circle[c].members) <= I128_MAX
       /\ circle[c].round_amount * PENALTY_BPS <= I128_MAX
=============================================================================
