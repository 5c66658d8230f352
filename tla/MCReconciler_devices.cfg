SPECIFICATION Spec
CONSTANTS
  Ids = {n1, n2}
  Paths = {p1, p2}
  Versions = {1, 2, 3, 4, 5, 6, 7, 8}
  NoId = NoId
  None = None
  Ops = {o1}
  AdoptionsPerPass = 1
  MaxDevice = 2
  MaxWrites = 0
  MaxFaults = 0
PROPERTIES PresentNeverMissing CopyNeverTakesTheRow QuietPassTellsTheTruth AdoptionLosesNothing
SYMMETRY Interchangeable
