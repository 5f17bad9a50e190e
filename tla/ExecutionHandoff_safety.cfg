SPECIFICATION Spec
CONSTANTS
  Nodes = {bb2}
  Local = here
  MaxOps = 2
  MaxTurns = 2
  MaxCrashes = 1
INVARIANTS
  HandoffInv
  OwnerHasImport
  AwakeOnlyAfterCommit
  
PROPERTIES
  StopIsFinal
  ImplementsSessionOwnership
CHECK_DEADLOCK FALSE
