SPECIFICATION Spec
CONSTANTS
  Files <- MCFiles
  Critical <- MCCritical
  MaxCommit = 2
  Touches <- MCTouches
  Edits = {"x"}
  Callers = {"cli"}
  Contracted = {}
  Projects <- MCTracking
  ReadFailures <- MCReadFailures
  Mishaps <- MCMiscounted
  MaxRounds = 1
PROPERTY OwnStashDropped
CHECK_DEADLOCK FALSE
