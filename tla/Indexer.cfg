SPECIFICATION FairSpec
CONSTANTS
  Chain <- MCChain
  START_LEDGER = 0
  BACKFILL_MAX_LEDGERS = 2
  BACKFILL_MAX_EVENTS = 10
  Builds <- MCBuilds
  Commands <- MCCommands
  MaxOperations = 1
INVARIANTS
  ProjectedOnce
  NothingLost
PROPERTIES
  CatchesUp
