CONSTANTS
  MaxKey = 2
  MaxId = 3
  FaultAt = {"idle", "written", "swapped", "metaFlushed", "metaGone", "mainGone"}
SPECIFICATION Spec
INVARIANTS
  ReopenExact
  NothingReturns
  NamedFilesExist
  IdsFresh
CHECK_DEADLOCK FALSE
