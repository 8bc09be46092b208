CONSTANTS
  MaxKey = 2
  Val = {a, b}
  FileId = {1, 2, 3, 4}
  NoFile = NoFile
  MaxFileRecords = 2
  HasMergeFn = TRUE
  MaxMemoryRecords = 2
  ArenaMode = TRUE
  Threads = 1
  SlicesMayFail = FALSE
  Iter = {}
  MaxBlocked = 1
SPECIFICATION Spec
SYMMETRY Symmetry
PROPERTY ImplementsMap
