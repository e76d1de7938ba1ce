SPECIFICATION Spec
CONSTANTS
    Builders = {b1, b2}
    Dialects = {"sqlite", "postgresql", "mysql", "oceanbase", "oracle", "mongodb"}
    MaxFaults = 1
INVARIANTS RevisionIsBuilt RevisionStaysRecorded
PROPERTY BuildsEnd
CHECK_DEADLOCK FALSE
