SPECIFICATION Spec
CONSTANTS
    Calls <- MCCalls
    Plans <- MCInTurn
    MaxAttempts = 2
    MaxSessions = 2
INVARIANT CapturesCalls
CHECK_DEADLOCK FALSE
