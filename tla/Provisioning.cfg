SPECIFICATION PSpec
CONSTANTS
    Clients = {c1, c2, c3}
    Keys = {"tidb-zero:memori", "tidb-zero:notes"}
    MaxLosses = 1
INVARIANTS KeysKeepApart LaterCallsReuse
CHECK_DEADLOCK FALSE
