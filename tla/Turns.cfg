SPECIFICATION Spec
CONSTANTS
    a = a
    b = b
    Clients = {a, b}
    Cases <- MCCases
INVARIANTS RowsAreSound CachedIdsHold TurnsAreStored TurnsInTheirSession CountsAreExact HistoryInOrder
PROPERTIES ForgetIsExact JobsEnd
CHECK_DEADLOCK FALSE
