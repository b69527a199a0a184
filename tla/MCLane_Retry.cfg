\* A retry under a fair loop and clock.
SPECIFICATION FairSpec
CONSTANTS
  Products = {p}
  WorkItems = {w}
  ProductOf <- MCProductOf
  AttemptBound = 2
  MaxAttempts = 2
  Cap = 1
  MaxClaims = 1
  Threshold = 1
  Provider = "docker"
  MaxRestarts = 0
PROPERTIES
  RetriesResolve
