SPECIFICATION AllSpec
CONSTANTS
  handler = handler
  request = request
  purger = purger
  Tasks <- MCTasks
  Crew <- MCCrew
  None = None
  MaxDepth = 5
  Lifecycle = FALSE
PROPERTIES ImplementsReadersWriter EveryHandlerEnds IndexConverges HistoryAndConfirmationsHold ImportsAndUpgradesStand
CHECK_DEADLOCK FALSE
