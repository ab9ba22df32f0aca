SPECIFICATION FairSpec
CONSTANTS
  bob = bob
  eve = eve
  b1 = b1
  b2 = b2
  Conns = {b1, b2}
  Users = {bob, eve}
  Owner <- MCOwner
  Admins = {bob}
  Targets = {bob, eve}
  Talkers = {bob}
  StartBans = {eve}
  AddrLimit = 2
  TextLimit = 1
  MaxCommands = 1
  MaxFaults = 1
INVARIANT SendsBounded
INVARIANT LimitsLapse
INVARIANT MuteStopsTexts
INVARIANT BannedStaysOut
INVARIANT AuditAgrees
PROPERTY PeersAreServed
