SPECIFICATION ServerSpec
CONSTANTS
  turn1 = turn1
  turn2 = turn2
  turn3 = turn3
  turn4 = turn4
  sessA = sessA
  sessB = sessB
  sessC = sessC
  Turns = {turn1, turn2, turn3, turn4}
  Sessions = {sessA, sessB, sessC}
  SessionOf <- MCSessionOf
  Runtimes = {r1, r2, r3, r4}
  MinWorkers = 1
  MaxWorkers = 3
  QueueMax = 1
  NoRuntime = NoRuntime
  NoSession = NoSession
INVARIANTS PoolSound   StreamComplete  
PROPERTIES TurnsSettle
CONSTRAINT Apart
