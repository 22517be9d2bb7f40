SPECIFICATION MCSpec
CONSTANTS N = 2 Scenarios <- MCCancelled
INVARIANTS DestroyedAfterJoin
