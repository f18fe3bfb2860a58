CONSTANTS
  Nil = Nil
  p1 = p1
  p2 = p2
  d1 = d1
  d2 = d2
  t1 = t1
  t2 = t2
  n1 = n1
  usb = usb
  Bufs = {b1, b2, b3, b4}
  None = None
  LateFlips = FALSE
SPECIFICATION MCSpec
CHECK_DEADLOCK FALSE
INVARIANTS
  TypesOK
  OnScreenIsSafe
PROPERTIES
  CallsReturn
  FramesMove
  RequestsEnd
  ComesBack
