SPECIFICATION FairSpec
CONSTANTS
    NoCR = NoCR
    Levels = {"", "Normal", "Debug", "TraceAll"}
    Flags <- SomeFlags
    MaxEdits = 4
    MaxFaults = 2
INVARIANTS
    LevelFollows
PROPERTIES
    LevelSettles
CHECK_DEADLOCK FALSE
