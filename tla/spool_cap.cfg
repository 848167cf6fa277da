SPECIFICATION SpoolSpec
CONSTANTS
    MaxSegs = 5
    Date <- ThirdBetween
    SegSizes = {1, 3}
    RotateBytes = 1
    MaxBytes = 3
    Faults = {}
    MaxFaults = 0
    MaxRecs = 3
    MaxStarts = 1
PROPERTIES
    CapEnforced
    EvictsOldest
    CallsReturn
CHECK_DEADLOCK FALSE
