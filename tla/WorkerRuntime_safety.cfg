SPECIFICATION Spec
CONSTANTS
  Jobs = {j1, j2, j3}
  Starters = {s1, s2}
  Flushers = {f1}
  TimedFlushers = {f1}
  Stoppers = {x1, x2}
  QueueCapacity = 1
  MaxConcurrency = 1
  CounterModulus = 8
  SharedHandle = FALSE
SYMMETRY CallSymmetry
INVARIANTS TypeOK CounterInv ZeroMeansIdle PermitInv NoStrandedJob OneTeardown
CHECK_DEADLOCK FALSE
