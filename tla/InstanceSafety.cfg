SPECIFICATION MCSpec
CONSTANTS
  Instances = {pr1}
  PullRequests = {pr1}
  Commits = {c1, c2}
  NoCommit = NoCommit
  NoKey = NoKey
  KeepBuilt = 1
  Lookups = {TRUE}
  MaxApiErrors = 0
  MaxCrashes = 1
  MaxUserSteps = 5
SYMMETRY CommitSymmetry
INVARIANTS TypeOK DeployedImageWasBuilt ResourcesGuarded RunningMeansDeployed 
PROPERTIES NeverRebuilt PostedUrlWasBuilt DeletionNotUndone ImplementsLife
CHECK_DEADLOCK FALSE
