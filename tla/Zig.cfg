CONSTANTS
  c1 = c1
  c2 = c2
  d1 = d1
  t1 = t1
  n1 = n1
  Nil = Nil
  WithSerial = {d1, d2}
  Sticks = {d1, d2}
  Ttys = {t1, t2}
  Names = {n1, n2}
  Clients = {c1}
  Kinds = {}
  Lines = {"default"}
  BufSize = 2
  MaxRef = 0
  MaxRx = 0
  MaxMbox = 3
  MaxFault = 2
  MaxPlug = 3
SPECIFICATION MCSpec
CHECK_DEADLOCK FALSE
SYMMETRY Alike
INVARIANTS
  NoGhostSession
  TtyIsKnown
  PushedIsCurrent
PROPERTIES
  BytesAreForwarded
  OwnerKeepsPort
  StickIsKept
