SPECIFICATION FairSpec
CONSTANTS
  Handlers = {"getlog", "install"}
  FileSizes = {0, 1, 2, 3}
  LogSizes = {0, 1, 5}
  UINT_MAX = 99
  BlockSize = 2
  EmptyLast = TRUE
  EarlyAbort = TRUE
CHECK_DEADLOCK FALSE
INVARIANTS
  WholeTransfer
  OnlyEmptyFileDies
PROPERTY
  CallEnds
