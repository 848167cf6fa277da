SPECIFICATION AgentSpec
CONSTANTS
    MaxSegs = 4
    Date <- ForwardClock
    SegSizes = {1}
    Faults = {"open", "append", "rename"}
    MaxFaults = 1
    RotateBytes = 1
    MaxBytes = 2
    MaxRecs = 2
    MaxStarts = 1
    MinBackoff = 1
    MaxBackoff = 1
    UrlOK = TRUE
    Sources = {s1, s2}
    Modes = {"push", "bundle"}
    MaxBatch = 1
    MaxTicks = 2
INVARIANTS
    ExitStatusTrue
PROPERTIES
    ShutdownEnds
CHECK_DEADLOCK FALSE
