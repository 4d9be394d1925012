SPECIFICATION FairSpec
CONSTANTS
  p1 = p1
  p2 = p2
  p3 = p3
  Posts = {p1, p2, p3}
  Pics <- MCPics
  Time <- MCTime
  Limit = 10
  MaxLoads = 2
INVARIANT TableInv
INVARIANT TotalBalanced
PROPERTY RefreshEnds
CHECK_DEADLOCK FALSE
