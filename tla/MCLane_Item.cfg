\* One work item with two attempts, and a restart of the API.
SPECIFICATION Spec
CONSTANTS
  Products = {p}
  WorkItems = {w}
  ProductOf <- MCProductOf
  AttemptBound = 2
  MaxAttempts = 2
  Cap = 1
  MaxClaims = 1
  Threshold = 2
  Provider = "aks"
  MaxRestarts = 1
INVARIANTS
  OneActiveLane
  LaneRowsFit
  QuarantineHolds
PROPERTIES
  OnlyLiveSessionReopens
  EnvironmentsAreSingleUse
  OwnershipHolds
