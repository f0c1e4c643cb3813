SPECIFICATION Spec
CONSTANTS
  WordSize = 2
  BufSize = 4
  RecvIov = 4
  Decoders <- ListOnly
  MaxItems = 2
  Slack <- ExactOnly
  Chunks = {2, 4}
  Faults = {}
INVARIANT
  NeverDies
CHECK_DEADLOCK FALSE
