CONSTANTS
  MaxKey = 2
  Val = {a}
  FileId = {1, 2, 3, 4}
  NoFile = NoFile
  MaxFileRecords = 1
  HasMergeFn = TRUE
  MaxMemoryRecords = 1
  ArenaMode = TRUE
  Threads = 1
  SlicesMayFail = TRUE
  Iter = {}
  MaxBlocked = 1
SPECIFICATION FairSpec
INVARIANT PendingHasJob
PROPERTY QuietDrains
