SPECIFICATION Spec
CONSTANTS
  alice = alice
  bob = bob
  s1 = s1
  s2 = s2
  s3 = s3
  general = general
  dev = dev
  Users = {alice, bob}
  Sessions = {s1, s2}
  Owner <- OwnerTwo
  Channels = {general, dev}
  General = general
  NoSession = NoSession
  StartMemberships <- StartAny
  Overlap = FALSE
  HistoryLimit = 1
  MaxMessages = 2
  MaxLines = 2
  MaxFailures = 0
CHECK_DEADLOCK FALSE
INVARIANT LostOnlyInTextGap
INVARIANT LiveOrderAgrees
INVARIANT LatestRoomIsLive
INVARIANT MemberChannelsAreLive
PROPERTY SubscriptionsAreKept
PROPERTY RefinesRoomMap
