SPECIFICATION FairSpec
CONSTANTS
  Address <- MCAddress
  members <- MCThree
  round_amount = 10
  round_deadline_ledgers = 1
  Admin = "admin"
  Callers <- MCAddress
  InitialFunds <- MCPoor
  Freezable <- MCFirst
  MayRevoke = TRUE
  MaxPendingLedger = 1
  MaxOverrun = 1
INVARIANTS
  Solvency
  TallyMatchesRecords
  NeverPaidAndDefaulted
  Rotation
  PenaltyLedger
  NoLossWithoutDefault
PROPERTIES
  RecordsAreFinal
  
  ActiveCircleCloses
