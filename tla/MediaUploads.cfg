SPECIFICATION FairSpec
CONSTANTS
  u1 = u1
  u2 = u2
  Uploads = {u1, u2}
  NoTake = NoTake
  ReleaseEvents = TRUE
  MaxFaults = 1
  MaxFetchFaults = 1
CHECK_DEADLOCK FALSE
INVARIANT PostedIsServed
INVARIANT MixedOnlyByOverlap
INVARIANT TalkNeedsKey
PROPERTY TakeIsKept
PROPERTY UploadsEnd
PROPERTY ImagesAreShown
