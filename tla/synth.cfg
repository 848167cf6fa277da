SPECIFICATION SynthSpec
CONSTANTS
    Limit = 16
    Buckets = 2
    Thresholds <- MCThresholds
    AggrUS = 2
    MaxAge = 3
    MaxAddr = 8
    Multipliers = {1, 4}
    MaxInt = 7
    Monitored = 8
INVARIANTS
    PreflightSafe
    VerdictRight
CHECK_DEADLOCK FALSE
