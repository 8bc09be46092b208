SPECIFICATION FairSpec
CONSTANTS
  maxRecordsPerFile = 3
  Boards <- MCBoards
  Root = 1
  NoBoard = 0
  Edges <- MCEdges
  Outcome <- MCOutcome
  Workers = {w1, w2}
  WORKER_BATCH_SIZE = 2
  MaxRuns = 3
  MaxFaults = 1
  MaxCloses = 1
INVARIANTS PlayedOnce NoBoardForgotten DoneMeansExact
PROPERTY RunsEnd
CHECK_DEADLOCK FALSE
