SPECIFICATION PageSpec
CONSTANTS
  Address <- MCAddress
  members <- MCTwo
  round_amount = 10
  round_deadline_ledgers = 1
  Admin = "admin"
  Callers <- MCAddress
  InitialFunds <- MCFunds
  Freezable = {}
  MayRevoke = FALSE
  MaxPendingLedger = 0
  MaxOverrun = 1
  CircleAddress = "circle"
  Creator = "admin"
  MaxLag = 1
  Losable <- MCLosable
  MaxLost = 0
  MaxTorn = 1
CHECK_DEADLOCK FALSE
INVARIANTS
  ClaimDeadlineIsServed
