SPECIFICATION BSpec
CONSTANTS
  k = k
  o1 = o1
  o2 = o2
  f = f
  m = m
  s = s
  None = None
  Owners = {o1, o2}
  Conversations = {k}
  Facts = {f}
  Texts = {m, s}
  MergesRepeats = TRUE
  Calls = {"turn", "augment", "bad"}
  Batch <- MCBatch
  Connections = 2
  MaxRetries = 1
  Faults = {"acquire", "begin", "statement", "commit", "lostAnswer", "death"}
INVARIANTS StoreConsistent
PROPERTIES ImplementsAtomic SessionKeepsOwner CallsEnd
