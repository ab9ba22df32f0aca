SPECIFICATION FairSpec
CONSTANTS
  n1 = n1
  n2 = n2
  p1 = p1
  p2 = p2
  Notes = {n1, n2}
  Plays = {p1, p2}
  NoNote = NoNote
  NoPlay = NoPlay
  MaxBins = 1
CHECK_DEADLOCK FALSE
INVARIANT OneAtATime
INVARIANT BarsOfPlayingNote
PROPERTY EndIsShown
