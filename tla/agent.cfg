SPECIFICATION AgentSafety
CONSTANTS
    MaxSegs = 4
    Date <- SecondBefore
    SegSizes = {1}
    Faults = {}
    MaxFaults = 0
    RotateBytes = 1
    MaxBytes = 1
    MaxRecs = 2
    MaxStarts = 2
    MinBackoff = 1
    MaxBackoff = 1
    UrlOK = TRUE
    Sources = {s1, s2}
    Modes = {"push", "bundle"}
    MaxBatch = 2
    MaxTicks = 2
INVARIANTS
    NothingLost
    IngestSound
    OneSpoolCaller
PROPERTIES
    EvictsOnlyOverCap
    RefinesDelivery
CHECK_DEADLOCK FALSE
