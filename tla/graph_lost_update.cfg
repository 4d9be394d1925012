SPECIFICATION Spec
CONSTANTS
  u1 = u1
  u2 = u2
  u3 = u3
  e1 = e1
  e2 = e2
  Users = {u1, u2, u3}
  Entries = {}
  owner <- MCOwner
  FillLimit = 20
  MaxPresses = 4
  MaxFetches = 1
  Serialized = FALSE
  MayRestart = FALSE
  Unopened = Unopened
  Blank = Blank
INVARIANT MirrorWhenQuiet
CHECK_DEADLOCK FALSE
SYMMETRY MCSymmetry
