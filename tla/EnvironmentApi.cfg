SPECIFICATION ApiSpec
CONSTANTS
  alice = alice
  bob = bob
  Environments = {"env1"}
  Callers <- MCUsers
  Users <- MCUsers
  NoUser = NoUser
  Requests = {q1, q2}
  PostedLists <- MCPostedLists
  MaxUids = 2
  MaxApiErrors = 1
INVARIANTS ApiTypeOK
PROPERTIES ImplementsAccessLists OwnersDecide
CHECK_DEADLOCK FALSE
