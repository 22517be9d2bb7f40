SPECIFICATION MemorySpec
CONSTANTS
  MaxRuns = 2
  MaxTurns = 2
  MaxBatch = 2
  MaxCompactions = 1
  Ends = {"success", "llm_error", "not_configured", "error"}
  Jobs = {j1}
  Procs = {p1, p2}
  Pids = {i1, i2}
  NoJob = NoJob
  NoPid = NoPid
  NoProc = NoProc
  MaxClears = 1
  MaxAttempts = 2
  ReusePids = FALSE
SYMMETRY Symmetry
INVARIANTS  HistoryPaired Remembered
PROPERTIES JobsFinal
