SPECIFICATION FairSpec
CONSTANTS
  p = p
  q = q
  Pictures = {p, q}
  NoFile = NoFile
  NoDoc = NoDoc
  MaxPhotos = 2
  MaxPresses = 5
  MaxHasty = 1
INVARIANT AlbumInv
INVARIANT MediaFaithful
PROPERTY SaveIsStored
CHECK_DEADLOCK FALSE
