SPECIFICATION FairSpec
CONSTANTS
  Ledgers <- MCLedgers
  Addresses <- MCAddresses
  Members <- MCMembers
  Limit = 1
  MaxRows = 2
  CSV_EXPORT_MAX_ROWS = 7
  INDEXER_LAG_ALERT_LEDGERS = 1
  MaxPages = 3
  DB_POOL_MAX = 2
  MaxOthers = 1
INVARIANTS
  ExportIsSnapshot
  AnswersAreSound
  WalkFindsAll
  CleanExit
PROPERTIES
  NothingHangs
CHECK_DEADLOCK FALSE
