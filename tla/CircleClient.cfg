SPECIFICATION ClientSpec
CONSTANTS
  Address <- MCAddress
  members <- MCTwo
  round_amount = 10
  round_deadline_ledgers = 1
  Admin = "alice"
  Callers <- MCAddress
  InitialFunds <- MCFunds
  Freezable = {}
  MayRevoke = FALSE
  MaxPendingLedger = 1
  MaxOverrun = 1
  me = "alice"
INVARIANTS
  GatesAgree
  PreflightCatches
  DiagnosesAgree
PROPERTIES
  OldSnapshotsAreSafe
CHECK_DEADLOCK FALSE
