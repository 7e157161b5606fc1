SPECIFICATION MCFairSpec
CONSTANTS
  Instances = {pr1}
  PullRequests = {pr1}
  Commits = {c1}
  NoCommit = NoCommit
  NoKey = NoKey
  KeepBuilt = 2
  Lookups = {TRUE}
  MaxApiErrors = 0
  MaxCrashes = 1
  MaxUserSteps = 1
PROPERTIES CommitHashIsRun
CHECK_DEADLOCK FALSE
