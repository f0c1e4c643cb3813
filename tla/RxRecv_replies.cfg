SPECIFICATION FairSpec
CONSTANTS
  WordSize = 2
  BufSize = 4
  RecvIov = 4
  Decoders <- AllReplies
  MaxItems = 3
  Slack <- AnySlack
  Chunks = {2, 4, 6}
  Faults = {"abort", "net_error", "local_error", "busy", "recvmsg", "no_memory",
            "no_object"}
CHECK_DEADLOCK FALSE
INVARIANTS
  CountsAgree
  VerdictRight
  DeathsExplained
PROPERTIES
  DataLosesNothing
  CallReturns
  StreamSpec
