SPECIFICATION ExploreFairSpec
CONSTANTS
  a = a
  b = b
  Places = {a, b}
  PlaceTitle <- MCPlaceTitle
  NoText = NoText
  NoName = NoName
  MaxTouches = 7
  MaxHasty = 3
INVARIANT FilterInv
PROPERTY SpinnerEnds
PROPERTY RowTakesEffect
CHECK_DEADLOCK FALSE
