SPECIFICATION FairSpec
CONSTANTS
  MaxIntegrations = 2
  Successes = 2
  MaxBoots = 2
  PushLimit = 1
  MaxFence = 2
PROPERTIES
  TakenUpSettles
  
  QueueMoves
CHECK_DEADLOCK FALSE
