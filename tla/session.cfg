SPECIFICATION FairSpec
CONSTANTS
  a = a
  b = b
  Accounts = {a, b}
  Nobody = Nobody
  MaxSteps = 6
INVARIANT CurrentUserIsSignedIn
INVARIANT SessionInv
PROPERTY CurrentUserConverges
CHECK_DEADLOCK FALSE
