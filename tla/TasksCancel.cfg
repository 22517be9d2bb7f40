SPECIFICATION Spec
CONSTANTS
  w = w
  c = c
  Tasks = {1}
  Schedulers = {w}
  Runnerless = {}
  Inputs <- MCRaceInputs
  EditInputs <- MCRaceEdits
  RetryAfters = {0}
  Limit = 1
  StaleAfter = 2
  StartTime = 3
  MaxTime = 6
  MaxEdits = 1
  MaxAborts = 1
PROPERTIES CancelSticks
