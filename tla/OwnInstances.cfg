SPECIFICATION MCSpec
CONSTANTS
  Environments = {"env1", "env2"}
  Refs = {"pr1", "other"}
  PullRequests = {"pr1", "other"}
  RepoOf <- MCRepoOf
  Position <- MCPosition
  PageSize = 2
  AllBranches = {}
  Refused = {}
  NoKey = NoKey
  MaxApiErrors = 0
  MaxCrashes = 0
  MaxUserSteps = 3
PROPERTIES OnlyOwnInstancesDeleted
CHECK_DEADLOCK FALSE
