SPECIFICATION Spec
CONSTANTS
  alice = alice
  bob = bob
  s1 = s1
  s2 = s2
  s3 = s3
  general = general
  dev = dev
  Users = {alice, bob}
  Sessions = {s1, s2, s3}
  Owner <- OwnerTwice
  Channels = {general, dev}
  General = general
  NoSession = NoSession
  StartMemberships <- StartEmpty
  Overlap = TRUE
  HistoryLimit = 1
  MaxMessages = 0
  MaxLines = 0
  MaxFailures = 0
CHECK_DEADLOCK FALSE
INVARIANT ConnectedUserIsLive
