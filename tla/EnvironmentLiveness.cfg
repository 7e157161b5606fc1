SPECIFICATION MCFairSpec
CONSTANTS
  Environments = {"env1", "env2"}
  Refs = {"pr1", "feature/a"}
  PullRequests = {"pr1"}
  RepoOf <- MCRepoOf
  Position <- MCPosition
  PageSize = 2
  AllBranches = {"env1"}
  Refused = {"feature/a"}
  NoKey = NoKey
  MaxApiErrors = 1
  MaxCrashes = 0
  MaxUserSteps = 3
PROPERTIES  EnvironmentDeletionCompletes CreatedUnderFinalizer ListedAreDeletedFirst
CHECK_DEADLOCK FALSE
