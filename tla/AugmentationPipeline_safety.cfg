SPECIFICATION Spec
CONSTANTS
  m1 = m1
  m2 = m2
  r1 = r1
  r2 = r2
  r3 = r3
  w1 = w1
  w2 = w2
  Managers = {m1, m2}
  Requests = {r1, r2}
  OwnerOf <- MCOwnerOf
  WritesPerRequest = 2
  Replies = {"memories", "nothing"}
  CommitOf <- MCCommitOf
  MayFail = TRUE
  MaxWorkers = 1
  BatchSize = 3
  QueueSize = 2
  Waits = {w2}
  TimedWaits = {w2}
  WaiterOf <- MCWaiterOf
  Engines = {m1}
INVARIANTS TypeOK OnePlace StoredInOrder WorkersBound
CHECK_DEADLOCK FALSE
