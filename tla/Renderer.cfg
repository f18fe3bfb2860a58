CONSTANTS
  p1 = p1
  p2 = p2
  b1 = b1
  b2 = b2
  b3 = b3
  b4 = b4
  Presets = {p1, p2}
  NoPreset = NoPreset
  Hint <- Hints
  Rungs = 2
  StartInterval = 1
  Refresh = 60
  MinFps = {20, 40}
  Rates = {10, 30, 45, 60}
  Settle = 2
  Window = 2
  DropAfter = 2
  Bufs = {b1, b2, b3, b4}
  None = None
  LateFlips = TRUE
  Period = 3
  Margin = 1
  Intervals = {1, 2}
  Estimate = 2
  MaxTime = 9
  MaxChanges = 1
  Cap = 2
  MaxFindings = 1
  MaxReported = 2
  MaxWarmups = 2
  MaxLines = 3
SPECIFICATION MCSpec
CHECK_DEADLOCK FALSE
INVARIANTS
  LadderIsSound
  NoBufferLeaks
  ProcessTalksInLines
  PredictionHolds
  BlamedIsGuilty
