CONSTANTS
  w1 = w1  w2 = w2  w3 = w3  t1 = t1  t2 = t2
  NoOwner = NoOwner  NoOutput = NoOutput  NoBaseline = NoBaseline
  Worker = {w1, w2}  Thread = {t1, t2}
  MaxSource = 1  MaxRunning = 1  Retries = 1  Lease = 2
  MayReset = TRUE
SPECIFICATION Spec
SYMMETRY Symmetry
INVARIANT OutputMatchesWatermark
INVARIANT RunningJobsBounded
CHECK_DEADLOCK FALSE
