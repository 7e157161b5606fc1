SPECIFICATION MCSpec
CONSTANTS
  Environments = {"env1"}
  Refs = {"pr1", "main"}
  PullRequests = {"pr1"}
  RepoOf <- MCRepoOf
  Position <- MCPosition
  PageSize = 2
  AllBranches = {"env1"}
  Refused = {}
  NoKey = NoKey
  MaxApiErrors = 1
  MaxCrashes = 1
  MaxUserSteps = 4
INVARIANTS TypeOK
PROPERTIES CreatedUnderFinalizer ListedAreDeletedFirst
CHECK_DEADLOCK FALSE
