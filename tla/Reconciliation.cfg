SPECIFICATION ToolSpec
CONSTANTS
  Address <- MCAddress
  members <- MCTwo
  round_amount = 10
  round_deadline_ledgers = 1
  Admin = "admin"
  Callers <- MCAddress
  InitialFunds <- MCFunds
  Freezable = {}
  MayRevoke = FALSE
  MaxPendingLedger = 0
  MaxOverrun = 1
  CircleAddress = "circle"
  Creator = "admin"
  MaxLag = 1
  Losable <- MCLosable
  MaxLost = 1
  MaxMoves = 2
  MaxRepaired = 1
INVARIANTS
  ReportsAreHonest
  RepairsHold
  AuditsTell
