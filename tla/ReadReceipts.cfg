SPECIFICATION FairSpec
CONSTANTS
  general = general
  tea = tea
  dotted = dotted
  ann = ann
  bob = bob
  Clients = {ann, bob}
  Rooms = {general, tea, dotted}
  General = general
  Rejected = {dotted}
  Targets = {tea, dotted}
  StartRooms <- MCStart
  Late = {bob}
  MaxLines = 3
CHECK_DEADLOCK FALSE
INVARIANT TypeOK
INVARIANT ReadMeansShown
INVARIANT UnreadIsMarked
PROPERTY ReceiptArrives
