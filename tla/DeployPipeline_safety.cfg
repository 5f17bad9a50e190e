SPECIFICATION Spec
CONSTANTS
  MaxIntegrations = 2
  Successes = 2
  MaxBoots = 2
  PushLimit = 2
  MaxFence = 2
INVARIANTS
  SingleOccupant
  SettledMeansServed
  RevertOnlyShipped
  PipelineInv
PROPERTIES
  DeployedOnce
  ImplementsReleaseQueue
  
CHECK_DEADLOCK FALSE
