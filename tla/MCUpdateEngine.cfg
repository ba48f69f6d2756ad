SPECIFICATION Spec
CONSTANTS
  Files <- MCFiles
  Critical <- MCCritical
  MaxCommit = 2
  Touches <- MCTouches
  Edits = {"x"}
  Callers = {"cli", "executor"}
  Contracted = {"executor"}
  Projects <- MCProjects
  ReadFailures <- MCReadFailures
  Mishaps <- MCMishaps
  MaxRounds = 1
INVARIANTS EditsSurvive
PROPERTIES SuccessIsComplete
CONSTRAINT InScope
CHECK_DEADLOCK FALSE
