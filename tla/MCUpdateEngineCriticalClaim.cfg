SPECIFICATION Spec
CONSTANTS
  Files <- MCFiles
  Critical <- MCCritical
  MaxCommit = 2
  Touches <- MCTouches
  Edits = {"x"}
  Callers = {"cli"}
  Contracted = {}
  Projects <- MCTracking
  ReadFailures <- MCReadFailures
  Mishaps <- MCCalm
  MaxRounds = 1
PROPERTY CriticalNeverPulled
CHECK_DEADLOCK FALSE
