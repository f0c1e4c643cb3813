\* Command lines of up to three words.
CONSTANTS
  Commands <- CommandsDef
  Orders <- OrdersDef
  Typed <- TypedDef
  Words <- WordsDef
  MaxWords = 3
SPECIFICATION LineSpec
CHECK_DEADLOCK FALSE
INVARIANTS
  RightCommand
  EveryWordUsedOnce
  ManualHolds
  HelperAgrees
