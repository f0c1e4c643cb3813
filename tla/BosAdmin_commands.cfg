CONSTANTS
  a = a  b = b  c = c
  Entries <- MCEntries
  Requests <- MCRequests
  Lists <- MCLists
  MaxParms = 1
  MaxRivals = 2
SPECIFICATION Spec
CHECK_DEADLOCK FALSE
INVARIANTS
  ListingExplained
  ExitTellsTruth
  StoppedWhenWaited
