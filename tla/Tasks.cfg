SPECIFICATION TasksSpec
CONSTANTS
  w = w
  c = c
  Tasks = {1}
  Schedulers = {w, c}
  Runnerless = {c}
  Inputs <- MCInputs
  EditInputs <- MCRaceEdits
  RetryAfters = {0, 2}
  Limit = 1
  StaleAfter = 2
  StartTime = 3
  MaxTime = 5
  MaxEdits = 1
  MaxAborts = 1
  LiveTasks = {1, 2}
  LiveSchedulers = {w}
  LiveTime = 5
  Modes = {"readline", "structured", "once"}
  MaxLines = 2
  MaxEvents = 1
  MaxAsks = 1
  MaxTasks = 1
  MaxCancels = 1
  MaxTotal = 3
INVARIANTS ClaimsSafe AttemptsWithinMax TurnsAsTyped
PROPERTIES RowsRespected TasksRecovered 
