SPECIFICATION Spec
CONSTANTS
  a = a
  b = b
  x = x
  y = y
  Users = {a, b}
  Texts = {x, y}
  Empty = Empty
  MaxSteps = 3
INVARIANT AccountsInv
PROPERTY ClosesWhenStored
PROPERTY PasswordOnlyByOwner
INVARIANT DoneAnswers
CHECK_DEADLOCK FALSE
