SPECIFICATION FairSessionSpec
CONSTANTS
  Tabs <- MCTabs
  Accounts <- MCAccounts
  MaxAttempts = 2
  MaxSwitches = 1
INVARIANTS
  FailureIsHonest
  SameActionOnce

  
  
CHECK_DEADLOCK FALSE
