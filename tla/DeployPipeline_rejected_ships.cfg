SPECIFICATION Spec
CONSTANTS
  MaxIntegrations = 1
  Successes = 2
  MaxBoots = 2
  PushLimit = 1
  MaxFence = 1
PROPERTIES
  RejectedNeverShips
CHECK_DEADLOCK FALSE
