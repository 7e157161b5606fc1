SPECIFICATION MCSpec
CONSTANTS
  Instances = {pr1, branch1}
  PullRequests = {pr1}
  Commits = {c1, c2}
  NoCommit = NoCommit
  NoKey = NoKey
  KeepBuilt = 2
  Lookups = {TRUE, FALSE}
  MaxApiErrors = 1
  MaxCrashes = 1
  MaxUserSteps = 3
SYMMETRY CommitSymmetry
INVARIANTS DeployedImageWasBuilt ResourcesGuarded RunningMeansDeployed 
PROPERTIES NeverRebuilt DeletionNotUndone
CHECK_DEADLOCK FALSE
