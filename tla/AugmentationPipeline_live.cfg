SPECIFICATION FairSpec
CONSTANTS
  m1 = m1
  m2 = m2
  r1 = r1
  r2 = r2
  r3 = r3
  w1 = w1
  w2 = w2
  Managers = {m1, m2}
  Requests = {r1, r3}
  OwnerOf <- MCOwnerOf
  WritesPerRequest = 1
  Replies = {"memories", "quota"}
  CommitOf <- MCCommitOf
  MayFail = TRUE
  MaxWorkers = 1
  BatchSize = 2
  QueueSize = 1
  Waits = {w1}
  TimedWaits = {}
  WaiterOf <- MCWaiterOf
  Engines = {}
INVARIANT TrueMeansHandedOver
PROPERTIES RequestsSettle WaitReturns
CHECK_DEADLOCK FALSE
