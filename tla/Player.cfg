CONSTANTS
  Inodes = {1, 2, 3, 4, 5, 6, 7, 8}
  None = None
  MaxLaunches = 3
  MaxFaults = 2
  MaxCuts = 2
  Cap = 5
  B = 2
  Period = 2
  HwFrames = 2
  Lengths = {3, 4}
  Faults = {"xrun"}
  MaxBytes = 8
  MaxStarts = 1
  MaxClears = 2
  MaxTaps = 0
  Launches <- SomeLaunches
  Lines <- SomeLines
  Texts = {"none", "a"}
  Interval = 1
  MaxLines = 2
  MaxServer = 2
SPECIFICATION MCSpec
CHECK_DEADLOCK FALSE
INVARIANTS
  BytesInOrder
  TapIsOwned
  StopIsClean
  EventsAreTrue
  MenuIsPlayable
  IdentityIsKept
PROPERTIES
  StoreIsAtomic
