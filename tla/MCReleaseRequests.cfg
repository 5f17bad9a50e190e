SPECIFICATION Spec
CONSTANTS
  MaxIntegrations = 3
  Sessions = {s1}
  Requests = {r1, r2}
  FailThreshold = 2
  Window = 2
  MaxClock = 3
  MaxCommits = 1
INVARIANTS RequestsTypeOK DeployThrashBounded 
PROPERTIES BlockedUntilCleared
SYMMETRY CallersAreAlike
