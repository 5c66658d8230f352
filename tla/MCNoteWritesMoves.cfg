SPECIFICATION FairSpec
CONSTANTS
  Ops = {o1, o2}
  Ids = {n1, n2}
  Paths = {p1, p2}
  Versions = {1, 2, 3, 4, 5, 6, 7, 8}
  NoId = NoId
  None = None
  MaxTries = 2
  Kinds = {"move"}
  MaxDevice = 0
INVARIANTS LivePathsDistinct
PROPERTIES EveryRequestAnswered
CHECK_DEADLOCK FALSE
