SPECIFICATION FairSpec
CONSTANTS
  Jobs = {j1, j2}
  Starters = {s1}
  Flushers = {f1}
  TimedFlushers = {f1}
  Stoppers = {x1}
  QueueCapacity = 2
  MaxConcurrency = 2
  CounterModulus = 8
  SharedHandle = TRUE
PROPERTIES TimedFlushReturns ImplementsPool
CHECK_DEADLOCK FALSE
