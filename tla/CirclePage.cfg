SPECIFICATION PageSpec
CONSTANTS
  Address <- MCAddress
  members <- MCTwo
  round_amount = 10
  round_deadline_ledgers = 1
  Admin = "admin"
  Callers <- MCAddress
  InitialFunds <- MCFunds
  Freezable = {}
  MayRevoke = FALSE
  MaxPendingLedger = 0
  MaxOverrun = 1
  CircleAddress = "circle"
  Creator = "admin"
  MaxLag = 2
  Losable <- MCLosable
  MaxLost = 1
  MaxTorn = 1
CHECK_DEADLOCK FALSE
INVARIANTS
  TablesFollowContract
  BooksBalance
  HistoryIsTrue
  ButtonsAreRight
  GatesMirrorSdk
