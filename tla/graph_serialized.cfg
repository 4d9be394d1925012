SPECIFICATION FairSpec
CONSTANTS
  u1 = u1
  u2 = u2
  u3 = u3
  e1 = e1
  e2 = e2
  Users = {u1, u2}
  Entries = {e1}
  owner <- MCOwner
  FillLimit = 20
  MaxPresses = 5
  MaxFetches = 1
  Serialized = TRUE
  MayRestart = FALSE
  Unopened = Unopened
  Blank = Blank
INVARIANT MirrorWhenQuiet
INVARIANT FeedsExactWhenQuiet
PROPERTY ImplementsFollowSpec
PROPERTY AcceptReachesRequester
CHECK_DEADLOCK FALSE
