SPECIFICATION TurnSpec
CONSTANTS
  N = 3
  Scenarios <- MCScenarios
  MaxIterations = 3
  MaxRetries = 1
  MaxEmptyRounds = 2
  ToolMaxRetries = 2
  MaxCalls = 2
  MaxSteers = 2
  Threads = {t1, t2}
  NoThread = none
  Slots = 2
  MaxSessions = 3
  Hosts = {"locked", "cli"}
CONSTRAINT CliBound
INVARIANTS MemoryAccounted  TurnEarned BindingsRight
PROPERTIES TurnEnds PlansKept
