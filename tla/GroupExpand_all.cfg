SPECIFICATION FairSpec
CONSTANTS
  g1 = g1
  g2 = g2
  g3 = g3
  u1 = u1
  Nobody = Nobody
  Groups <- ThreeGroups
  Users <- OneUser
  RequestLists <- GroupsAndUser
  DeniedSets <- SomeDenied
CHECK_DEADLOCK FALSE
INVARIANTS
  NeverTooMuch
  AcyclicIsComplete
PROPERTY
  Ends
