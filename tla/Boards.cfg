SPECIFICATION Spec
CONSTANTS
  Whole = 4
  Opening = 9
  Sizes = {4, 6, 8}
  Rotations = {1, 4, 8, 16}
  Games = {1}
  SAMPLES_PER_FILE = 2
INVARIANTS MovesExact SymmetrySound DedupExact
CHECK_DEADLOCK FALSE
