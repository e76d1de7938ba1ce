SPECIFICATION Spec
CONSTANTS
    Calls <- MCCalls
    Plans <- MCPlans
    MaxAttempts = 2
    MaxSessions = 2
INVARIANTS CallsAreStored TurnsReachCloud
PROPERTY CallsEnd
CHECK_DEADLOCK FALSE
