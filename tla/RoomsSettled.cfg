SPECIFICATION Spec
CONSTANTS
  general = general
  tea = tea
  dm = dm
  dotted = dotted
  me = me
  peer = peer
  Rooms <- MCRooms
  General = general
  Rejected = {dotted}
  Targets = {tea, dm, dotted}
  StartRooms <- NewUser
  Settled = TRUE
  Commands = {"join", "msg", "leave", "switch", "text"}
  Me = me
  Others = {peer}
  DmOf <- MCDmOf
  MaxLines = 4
CHECK_DEADLOCK FALSE
INVARIANT TypeOK
INVARIANT CurrentInRooms
