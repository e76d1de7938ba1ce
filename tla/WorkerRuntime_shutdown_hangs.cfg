SPECIFICATION FairSpec
CONSTANTS
  Jobs = {j1}
  Starters = {s1}
  Flushers = {}
  TimedFlushers = {}
  Stoppers = {x1}
  QueueCapacity = 1
  MaxConcurrency = 1
  CounterModulus = 8
  SharedHandle = TRUE
PROPERTY ShutdownReturns
CHECK_DEADLOCK FALSE
