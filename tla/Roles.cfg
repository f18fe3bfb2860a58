CONSTANTS
  Slack = 1
  Margin = 2
  MaxTime = 5
  MaxStreams = 3
  Slots = {1, 2}
  Images = {1, 2, 3, 4}
  None = 0
  Keep = 2
  WriteFails = TRUE
SPECIFICATION MCSpec
CHECK_DEADLOCK FALSE
INVARIANTS
  FilesAreKept
PROPERTIES
  GateHolds
