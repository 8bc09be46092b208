SPECIFICATION Spec
CONSTANTS
  maxLevel = 3
  Boards <- MCBoards
  LevelOf <- MCLevelOf
  Edges <- MCEdges
  Outcome <- MCOutcome
  Workers = {w1, w2}
  batchSize = 2
  arenaPoolSize = 3
  MaxCrashes = 2
  MaxFlushes = 2
INVARIANTS  ResultExact  JobsHaveStores
PROPERTY RunEnds
CHECK_DEADLOCK FALSE
