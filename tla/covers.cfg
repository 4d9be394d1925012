SPECIFICATION CoversSpec
CONSTANTS
  e1 = e1
  e2 = e2
  p = p
  q = q
  Entries = {e1, e2}
  Covers = {p, q}
  NoEntry = NoEntry
  NoCover = NoCover
  MaxSaves = 4
INVARIANT OwnCoverIsChosen
INVARIANT CoversInv
CHECK_DEADLOCK FALSE
