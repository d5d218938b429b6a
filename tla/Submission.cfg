SPECIFICATION FairSubmitSpec
CONSTANTS
  Writes = {"contribute"}
  MaxCalls = 2
  MaxTime = 3
  MaxSequence = 2
  maxConsecutiveErrors = 2
INVARIANTS
  NeverMeansNever
PROPERTIES
  KeepsPromise
  CallsSettle
CHECK_DEADLOCK FALSE
