SPECIFICATION MCFairSpec
CONSTANTS
  Environments = {"env1"}
  Refs = {"pr1"}
  PullRequests = {"pr1"}
  RepoOf <- MCRepoOf
  Position <- MCPosition
  PageSize = 2
  AllBranches = {}
  Refused = {}
  NoKey = NoKey
  Commits = {c1}
  NoCommit = NoCommit
  KeepBuilt = 2
  MaxApiErrors = 0
  MaxCrashes = 1
  MaxUserSteps = 2
PROPERTIES InstancesAsModelled EnvironmentsAsModelled PreviewsSettle NothingLeft
CHECK_DEADLOCK FALSE
