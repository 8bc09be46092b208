CONSTANTS
  Root = 1
  Kids <- Boards6
  MaxLevels = 3
  NumFast = 2
  Moderate = {mod}
  NAS = NAS
  Window = 1
  FileLimit = 1
  MaxRuns = 4
  MaxMishaps = 1
  MaxInterim = 1
  Crashes = TRUE
SPECIFICATION Spec
INVARIANTS LevelExact NothingLost InputsKept RestartFindsLevel
PROPERTY RunEnds
CHECK_DEADLOCK FALSE
