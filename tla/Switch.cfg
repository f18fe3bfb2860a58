CONSTANTS
  Presets = {p, q, g, h}
  HighFreq = {g, h}
  None = None
  Limit = 2
  Batch = 2
SPECIFICATION Spec
CHECK_DEADLOCK FALSE
SYMMETRY Alike
INVARIANTS
  HangIsCutAway
PROPERTIES
  FilterHolds
