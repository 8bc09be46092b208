CONSTANTS
  MaxKey = 3
  Val = {a}
  FileId = {1, 2, 3, 4, 5, 6}
  NoFile = NoFile
  MaxFileRecords = 2
  HasMergeFn = TRUE
  MaxMemoryRecords = 2
  ArenaMode = FALSE
  Threads = 2
  SlicesMayFail = TRUE
  Iter = {}
  MaxBlocked = 0
SPECIFICATION Spec
INVARIANTS
  LayoutSound
  ReferencesExist
  MergeAccounts
PROPERTY MergeKeepsRecords
