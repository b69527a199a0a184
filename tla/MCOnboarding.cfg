SPECIFICATION Spec
CONSTANTS
  Root = root
  Repo = repository
  api = api
  lib = lib
  None = none
  Broken = broken
  Contents <- MCContents
  PlatformDefaults <- MCPlatform
  OrgDefaults <- MCOrg
  Overrides <- MCOverrides
  Snapshots <- MCSnapshots
  Profiles = {"standard-python", "other"}
  Assets = {"harness", "templates"}
  Gaps <- MCGaps
  Seeds = {s1, s2}
  Bound = 0
  Baseline <- MCBaseline
  Secrets <- MCSecrets
  MaxChanges = 3
INVARIANT ActiveIsSetUp
INVARIANT ContractIsCurrent
INVARIANT GraphFollowsContract
INVARIANT SeedsAgree
PROPERTY PauseHolds
PROPERTY GovernanceIsCapped
CHECK_DEADLOCK FALSE
