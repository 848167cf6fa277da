SPECIFICATION WalkSpec
CONSTANTS
    Pods = {"pod1"}
    CacheTTL = 1
    FetchTime = 1
    MaxClock = 2
    NameOrder <- MCNames
    MaxPathLen = 3
    MaxCgroupDepth = 2
    Max = 3
    GlobSets <- MCGlobSets
    Trees <- MCTrees
    Delegations <- MCDelegations
    FileOrder <- MCFileOrder
    CoreFiles = {"memory.pressure"}
    MemFiles = {"memory.stat"}
    MaxChurn = 1
    K8s = TRUE
INVARIANTS
    StableSampled
    SampledOnce
    LostOnlyToCgroupfs
    RecordsTellFiles
PROPERTIES
    AnswerFresh
CHECK_DEADLOCK FALSE
