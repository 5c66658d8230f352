SPECIFICATION Spec
CONSTANTS
  Versions = {1, 2}
  MaxEdits = 2
  MaxChanges = 0
  MaxMirrors = 1
  MaxFaults = 0
  None = None
INVARIANTS NextPassImports
CHECK_DEADLOCK FALSE
