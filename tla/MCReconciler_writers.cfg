SPECIFICATION FairSpec
CONSTANTS
  Ids = {n1}
  Paths = {p1, p2}
  Versions = {1, 2, 3, 4, 5, 6, 7, 8}
  NoId = NoId
  None = None
  Ops = {o1}
  AdoptionsPerPass = 1
  MaxDevice = 1
  MaxWrites = 1
  MaxFaults = 1
PROPERTIES PassNeverMisleads Converges
