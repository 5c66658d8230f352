SPECIFICATION MCSpec
CONSTANTS
  handler = handler
  request = request
  purger = purger
  Tasks <- MCTasks
  Crew <- MCCrew
  None = None
  MaxDepth = 5
  Lifecycle = TRUE
INVARIANTS NoCircularWait
CHECK_DEADLOCK FALSE
