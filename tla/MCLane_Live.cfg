\* One work item with one attempt under a fair loop and clock.
SPECIFICATION FairSpec
CONSTANTS
  Products = {p}
  WorkItems = {w}
  ProductOf <- MCProductOf
  AttemptBound = 1
  MaxAttempts = 2
  Cap = 1
  MaxClaims = 1
  Threshold = 1
  Provider = "docker"
  MaxRestarts = 1
PROPERTIES
  EligibleWorkIsClaimed
  OrphansCollected
  AbandonedLanesEnd
