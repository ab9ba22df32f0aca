SPECIFICATION Spec
CONSTANTS
  general = general
  tea = tea
  dm = dm
  dotted = dotted
  me = me
  peer = peer
  Rooms <- MCRooms
  General = general
  Rejected = {dotted}
  Targets = {tea, dm, dotted}
  StartRooms <- MCStart
  Settled = TRUE
  Commands = {"join", "msg", "leave", "switch", "text"}
  Me = me
  Others = {peer}
  DmOf <- MCDmOf
  MaxLines = 4
CHECK_DEADLOCK FALSE
PROPERTY RoutedWhereShown
