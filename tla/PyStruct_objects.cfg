\* Arrays of two integers and an array of one structure; lists may outgrow them.
CONSTANTS
  N = 2
  M = 1
  Width = 2
  Values = {3}
  MaxObjects = 3
  MaxItems = 3
  MaxChanges = 3
SPECIFICATION ObjectSpec
INVARIANTS
  SendsWhatIsShown
  RefusedForCause
PROPERTY
  LookingChangesNothing
