CONSTANTS
  Bufs = {b1, b2, b3, b4}
  None = None
  LateFlips = TRUE
SPECIFICATION Spec
CHECK_DEADLOCK FALSE
INVARIANTS
  ReleasedStaysLeft
