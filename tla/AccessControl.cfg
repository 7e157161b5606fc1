SPECIFICATION FairSpec
CONSTANTS
  alice = alice
  bob = bob
  Environments = {"env1", "env2"}
  Callers = {alice}
  Users = {bob}
  NoUser = NoUser
  PostedLists <- MCPostedLists
  Instances = {"pr1", "pr2"}
  EnvOf <- MCEnvOf
  NoInstance = NoInstance
  MaxApiErrors = 1
INVARIANTS TypeOK MembersWereListed
 
CHECK_DEADLOCK FALSE
