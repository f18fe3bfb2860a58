CONSTANTS
  F = 2
  C = 2
  Streams = {1}
  Lengths = {1, 3}
  Gaps <- Steady
  Windows = {2}
  MaxFrame = 3
  MaxChunk = 3
  MaxEpoch = 3
  MaxKills = 1
SPECIFICATION MCSpec
CHECK_DEADLOCK FALSE
INVARIANTS
  TypesOK
  OkIsExact
  OkFormatMatches
  EpochIsOneRun
  WindowIsTrue
