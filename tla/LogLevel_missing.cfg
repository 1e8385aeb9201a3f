SPECIFICATION Spec
CONSTANTS
    NoCR = NoCR
    Levels = {"", "Normal", "Debug", "TraceAll"}
    Flags = {2}
    MaxEdits = 4
    MaxFaults = 2
INVARIANTS
    MissingMeansNormal
CHECK_DEADLOCK FALSE
