CONSTANTS
  t1 = t1
  t2 = t2
  Order = 4
  MaxNode = 12
  Thread <- Threads
  MaxKey = 6
  MaxData = 6
  MaxRetries = 2
  Call <- Mixed
SPECIFICATION MCSpec
INVARIANTS IntegrityHolds NeverFatal NoStuck LevelCutsSound
PROPERTIES ScanExact ImplementsSet
CHECK_DEADLOCK FALSE
