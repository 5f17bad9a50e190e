SPECIFICATION Spec
CONSTANTS
  Nodes = {bb2}
  Local = here
  MaxOps = 1
  MaxTurns = 2
  MaxCrashes = 0
INVARIANT ConversationIsCurrent
CHECK_DEADLOCK FALSE
