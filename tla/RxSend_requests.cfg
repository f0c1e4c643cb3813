SPECIFICATION FairSpec
CONSTANTS
  BufSize = 3
  IovMax = 2
  MaxBytes = 11
  ShortSends = FALSE
  EarlyAbort = TRUE
CHECK_DEADLOCK FALSE
INVARIANTS
  WaitsForWholeRequest
  OnlyEmptySendsDie
PROPERTY
  StreamSpec
