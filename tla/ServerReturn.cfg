SPECIFICATION FairSpec
CONSTANTS
  alice = alice
  bob = bob
  s1 = s1
  s2 = s2
  s3 = s3
  general = general
  dev = dev
  Users = {alice, bob}
  Sessions = {s1, s2, s3}
  Owner <- OwnerTwice
  Channels = {general, dev}
  General = general
  NoSession = NoSession
  StartMemberships <- StartEmpty
  Overlap = FALSE
  HistoryLimit = 1
  MaxMessages = 1
  MaxLines = 1
  MaxFailures = 1
CHECK_DEADLOCK FALSE
INVARIANT LostOnlyInTextGap
INVARIANT OneEntryPerUser
INVARIANT NoTraceAfterDisconnect
PROPERTY DmDelivered
