CONSTANTS
  MaxKey = 2
  Val = {a}
  FileId = {1, 2, 3, 4, 5, 6}
  NoFile = NoFile
  MaxFileRecords = 1
  HasMergeFn = TRUE
  MaxMemoryRecords = 2
  ArenaMode = FALSE
  Threads = 2
  SlicesMayFail = FALSE
  Iter = {i}
  MaxBlocked = 0
SPECIFICATION Spec
INVARIANTS
  NoOrphanFile
  IteratorIsolation
