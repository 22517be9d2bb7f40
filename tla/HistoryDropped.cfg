SPECIFICATION MCSpec
CONSTANTS
  MaxTurns = 2
  MaxCalls = 1
  MaxBatch = 2
  MaxCompactions = 1
  MaxManual = 1
  Ends = {"success", "cancelled"}
  Shared = FALSE
INVARIANTS NeverDropped
