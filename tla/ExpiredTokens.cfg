SPECIFICATION Spec
CONSTANTS
  alice = alice
  bob = bob
  i1 = i1
  i2 = i2
  Users = {alice, bob}
  Installations = {i1, i2}
  AccountOf <- MCAccountOf
  NoUser = NoUser
  Requests = {r1}
  Serials = {1, 2, 3, 4}
  None = None
  MaxApiErrors = 1
PROPERTIES ExpiredNotReturned
CHECK_DEADLOCK FALSE
