SPECIFICATION AgentSafety
CONSTANTS
    MaxSegs = 4
    Date <- ForwardClock
    SegSizes = {1}
    Faults = {}
    MaxFaults = 0
    RotateBytes = 1
    MaxBytes = 1
    MaxRecs = 2
    MaxStarts = 1
    MinBackoff = 1
    MaxBackoff = 1
    UrlOK = TRUE
    Sources = {s1}
    Modes = {"push"}
    MaxBatch = 1
    MaxTicks = 2
INVARIANTS
    ShippedNotReportedDropped
CHECK_DEADLOCK FALSE
