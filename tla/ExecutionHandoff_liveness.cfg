SPECIFICATION FairSpec
CONSTANTS
  Nodes = {bb2}
  Local = here
  MaxOps = 1
  MaxTurns = 2
  MaxCrashes = 2
PROPERTIES
  
  CommittedCompletes
CHECK_DEADLOCK FALSE
