SPECIFICATION SpoolSpec
CONSTANTS
    MaxSegs = 4
    Date <- ForwardClock
    SegSizes = {1}
    RotateBytes = 1
    MaxBytes = 4
    Faults = {"create"}
    MaxFaults = 1
    MaxRecs = 2
    MaxStarts = 1
INVARIANTS
    BadTickIsSkipped
CHECK_DEADLOCK FALSE
