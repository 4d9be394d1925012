SPECIFICATION PrivateAuthorSpec
CONSTANTS
  u1 = u1
  u2 = u2
  u3 = u3
  e1 = e1
  e2 = e2
  Users = {u1, u2}
  Entries = {e1}
  owner <- MCOwner
  FillLimit = 20
  MaxPresses = 4
  MaxFetches = 1
  Serialized = FALSE
  MayRestart = TRUE
  Unopened = Unopened
  Blank = Blank
INVARIANT GraphInv
INVARIANT OwnFeedMatchesEntries
CHECK_DEADLOCK FALSE
