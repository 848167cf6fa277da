SPECIFICATION SpoolSpec
CONSTANTS
    MaxSegs = 5
    Date <- ThirdBefore
    SegSizes = {1}
    RotateBytes = 2
    MaxBytes = 2
    Faults = {"open", "append", "short", "sync", "close",
              "read", "create", "compress", "rename", "reopen",
              "list", "stat", "remove"}
    MaxFaults = 1
    MaxRecs = 3
    MaxStarts = 2
INVARIANTS
    NoLoss
    OneLinePerShortWrite
    WholeSegments
    NoLeftovers
    WarningsExact
    CloseFlushesEnvelopes
PROPERTIES
    RefinesLineStore
CHECK_DEADLOCK FALSE
