SPECIFICATION Spec
CHECK_DEADLOCK FALSE
CONSTANTS
  w1 = w1
  w2 = w2
  r = r
  None = None
  Threads = {w1, r}
  Readers = {r}
  Jobs = {r}
  Handles = {TRUE, FALSE}
  Clients = 1
  TimesOut = {"acquire", "begin", "execute", "commit", "rollback"}
  DbFails = TRUE
  Closes = TRUE
INVARIANTS TypeOK  OnlyStraysAreHeld NobodyIsForgotten
PROPERTIES CloseWaitsOnlyForClients
