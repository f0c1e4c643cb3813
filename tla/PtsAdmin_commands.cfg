CONSTANTS
  a = a  b = b  u1 = u1  u2 = u2
  Names <- MCNames
  Ids <- MCIds
  None = None
  Absent = Absent
  Servers = 2
  Requests <- MCRequests
  Memberships <- MCMemberships
  MaxRivals = 2
SPECIFICATION Spec
CHECK_DEADLOCK FALSE
INVARIANTS
  ActsOnNamed
  MapsAgree
  ExitTellsTruth
PROPERTY
  Ends
