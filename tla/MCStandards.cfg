SPECIFICATION Spec
CONSTANTS
  agents = agents
  guide = guide
  base = base
  other = other
  v1 = v1
  v2 = v2
  Paths = {agents, guide}
  Proposals <- MCProposals
  None = none
  Contract <- MCContract
  Bundle = bundle
  Contents <- MCContents
  Overrides <- MCOverrides
  MaxRuns = 2
  MaxChanges = 2
INVARIANT RowsFollowRuns
INVARIANT PullsAreWhole
INVARIANT UpgradeSettles
CHECK_DEADLOCK FALSE
