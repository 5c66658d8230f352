SPECIFICATION MCSpec
CONSTANTS
  Ops = {o1, o2}
  Ids = {n1}
  Paths = {p1, p2}
  Versions = {1, 2, 3, 4, 5, 6, 7, 8}
  NoId = NoId
  None = None
  MaxTries = 2
  Kinds = {"replace", "patch", "move", "rename"}
  MaxDevice = 2
INVARIANTS AcknowledgedIsOnDisk MirrorFollowsFile OneNamePerNote
PROPERTIES NothingLostUnread
SYMMETRY Interchangeable
CHECK_DEADLOCK FALSE
