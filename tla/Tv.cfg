CONSTANTS
  t1 = t1
  t2 = t2
  c1 = c1
  Tvs = {t1, t2}
  Nil = Nil
  CrashLimit = 2
  MaxJobs = 1
  Calls = {c1}
  Pas = {1, 2}
  MaxId = 3
  MaxDrain = 1
  MaxOrphans = 1
  MaxKernel = 1
  MaxHeard = 0
  Results = {"ok"}
  MaxClaims = 0
  MaxDeadlines = 0
  MaxPolls = 0
  MaxRestart = 0
SPECIFICATION MCSpec
CHECK_DEADLOCK FALSE
SYMMETRY Alike
INVARIANTS
  CecTypeOK
  ScreenIsHandedOver
  HandoverAgrees
  RequestsAreAnswered
  BeliefsAreCurrent
