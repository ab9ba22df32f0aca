SPECIFICATION FairUISpec
CONSTANTS
  ann = ann
  bob = bob
  a1 = a1
  a2 = a2
  b1 = b1
  secret = secret
  other = other
  Users <- MCUsers
  Conns = {a1, a2, b1}
  UserOf <- MCUserOf
  Passwords = {secret, other}
  Short = {}
  Unset = Unset
  StartRows <- StartAny
  Limit = 2
  MaxFaults = 1
CHECK_DEADLOCK FALSE
INVARIANT HasAdmin
INVARIANT OwnPassword
INVARIANT AttemptsBounded
INVARIANT LocksLapse
PROPERTY OwnerGetsIn
