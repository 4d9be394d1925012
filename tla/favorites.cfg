SPECIFICATION Spec
CONSTANTS
  t1 = t1
  t2 = t2
  t3 = t3
  Trips = {t1, t2}
  NoTrip = NoTrip
  MaxPresses = 5
  MaxHasty = 1
  MaxViews = 2
INVARIANT HeartTruthful
INVARIANT FavoritesInv
PROPERTY ViewingCleans
CHECK_DEADLOCK FALSE
