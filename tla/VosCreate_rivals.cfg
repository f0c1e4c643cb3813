SPECIFICATION Spec
CONSTANTS
  Clients = {c1, c2}
  Names = {n1, n2}
  NoId = NoId
  MaxFaults = 2
CHECK_DEADLOCK FALSE
INVARIANTS
  CreatedMeansUsable
  DanglingEntryExplained
  LeftoverExplained
