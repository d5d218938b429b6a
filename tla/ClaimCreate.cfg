SPECIFICATION DeploySpec
CONSTANTS
  Signers <- MCSigners
  Circle <- MCCircle
  Member <- MCMember
  MaxScore = 2
  Factory = "factory"
  ReputationContract <- MCReputationContract
  UsdcToken <- MCUsdcToken
  ReputationAdmins <- MCAdmins
  Creator <- MCCreator
  MemberLists <- MCMemberLists
  Amounts <- MCAmounts
  Deadlines <- MCDeadlines
  MAX_MEMBERS = 4
  MIN_ROUND_DEADLINE_LEDGERS = 2
  MAX_ROUND_DEADLINE_LEDGERS = 2
  I128_MAX = 100000
  MaxCircles = 2
  MaxLedger = 1
  ManagedCallers <- MCManagedCallers
  U32_MAX = 1000
  U64_MAX = 100000
  MAX_SAFE_INTEGER = 20000
  MAX_CIRCLE_MEMBERS = 4
  USDC_DECIMALS = 7
  CreateParams <- MCCreateParams
  MIN_FORM_MEMBERS = 2
  MAX_FORM_MEMBERS = 3
  MAX_NAME_LENGTH = 1
  MAX_ROUND_USDC = 5
  MAX_ROUND_DAYS = 2
  STROOP = 10
  LEDGERS_PER_DAY = 2
  Names = {0, 1, 2}
  Entries <- MCEntries
  AmountTexts <- MCAmountTexts
  DayTexts <- MCDayTexts
  Environments <- MCEnvironments
  SeedMembers <- MCSeedMembers
  MaxAttempts = 2
INVARIANT
  ArgumentsMatch
CHECK_DEADLOCK FALSE
