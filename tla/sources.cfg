SPECIFICATION Spec
CONSTANTS
    Paths <- MCPaths
    Hosts <- MCHosts
    MaxChurn = 2
    MaxFaults = 1
    Endpoints = {1, 2}
    Metrics = {"running", "waiting"}
    NVML = "auto"
    MaxTicks = 2
    Limit = 8
    Buckets = 2
    Thresholds <- MCThresholds
    AggrUS = 2
    MaxAge = 3
    MaxAddr = 4
INVARIANTS
    StableReported
    ValuesAttributed
    LossHasCause
    WarnedOnce
    SelftestTells
    HistConsistent
    HistExact
PROPERTIES
    TickEnds
CHECK_DEADLOCK FALSE
