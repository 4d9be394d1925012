SPECIFICATION FairSpec
CONSTANTS
  e1 = e1
  e2 = e2
  e3 = e3
  t1 = t1
  t2 = t2
  Entries = {e1, e2, e3}
  Trips = {t1, t2}
  NoTrip = NoTrip
  NoDoc = NoDoc
  MaxPresses = 6
  MaxHasty = 1
INVARIANT TripInv
INVARIANT DeletionsLast
INVARIANT EntriesMatchTrips
PROPERTY SaveEnds
CHECK_DEADLOCK FALSE
