SPECIFICATION FairSpec
CONSTANTS
  MaxJobs = 2
  Suggestions = {1, 2}
  Dated <- OnceAndTwice
  Limit = 2
  MaxEdits = 1
  MaxAccidents = 1
  MaxRefusals = 1
  MaxRequests = 2
  None = None
INVARIANTS WithinLimit Traceable Forgotten
PROPERTIES DecisionsStand JobsEnd ReviewCompletes
CHECK_DEADLOCK FALSE
