SPECIFICATION Spec
CONSTANTS
  Root = root
  Repo = repository
  api = api
  lib = lib
  None = none
  Broken = broken
  Contents <- MCContents
  PlatformDefaults <- MCPlatform
  OrgDefaults <- MCOrg
  Overrides = {}
  Snapshots = {}
  Profiles = {"standard-python", "other"}
  Assets = {"harness", "templates"}
  Gaps <- MCGaps
  Seeds = {s1}
  Bound = 0
  Baseline <- MCBaseline
  Secrets <- MCSecrets
  MaxChanges = 4
INVARIANT ActivationIsGated
CHECK_DEADLOCK FALSE
