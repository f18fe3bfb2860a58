CONSTANTS
  u1 = u1
  u2 = u2
  h0 = h0
  h1 = h1
  n1 = n1
  Nil = Nil
  Outputs = {u1, u2}
  HdmiOrder <- NoHdmi
  Volumes = {1}
  Names = {n1, n2}
  Ports = {1, 2}
  MaxPlug = 1
  MaxUi = 1
  MaxFault = 1
  MaxServer = 0
  MaxRestart = 0
SPECIFICATION MCSpec
CHECK_DEADLOCK FALSE
SYMMETRY Alike
INVARIANTS
  ShownIsLive
