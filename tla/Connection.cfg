SPECIFICATION FairSpec
CONSTANTS
  bob = bob
  c1 = c1
  c2 = c2
  Conns = {c1, c2}
  Users = {bob}
  Owner <- MCOwner
  Stalled = {c2}
  Window = 1
  Ttl = 2
  MaxLines <- MCLines
  MaxFaults = 1
CHECK_DEADLOCK FALSE
INVARIANT LinesKeepTheirOrder
INVARIANT MessagesKeepTheirOrder
INVARIANT PresenceIsShown
PROPERTY OthersAreServed
